------------------------- MODULE SubmitBuilderProofs -------------------------
(***************************************************************************)
(* `dcos spark run', for any command line and any dispatcher: types, lists *)
(* that only grow, --conf settings that stay, secrets that are mounted     *)
(* under the names they are referred to, and security that is complete.    *)
(***************************************************************************)
EXTENDS SubmitBuilder, SequenceTheorems, WellFoundedInduction, TLAPS

------------------------------------------------------------------------------
(* Tokens and lines that are looked for. *)

LEMMA LeastOf ==
  ASSUME NEW S \in SUBSET Nat, S # {}
  PROVE  \E m \in S : \A i \in S : m <= i
<1>1. PICK m \in S : \A i \in S : ~(<<i, m>> \in OpToRel(<, Nat))
  BY NatLessThanWellFounded, WFMin
<1>2. \A i \in S : ~(i < m)
  BY <1>1 DEF OpToRel
<1> QED BY <1>2

LEMMA MinMax ==
  ASSUME NEW n \in Nat, NEW S \in SUBSET (1 .. n), S # {}
  PROVE  /\ Min(S) \in S /\ \A i \in S : Min(S) <= i
         /\ Max(S) \in S /\ \A i \in S : i <= Max(S)
<1>1. \E m \in S : \A i \in S : m <= i
  <2>1. S \in SUBSET Nat
    OBVIOUS
  <2> QED BY <2>1, LeastOf
<1>2. \E m \in S : \A i \in S : i <= m
  <2> DEFINE T == {n - i : i \in S}
  <2>1. T \in SUBSET Nat /\ T # {}
    <3>1. \A i \in S : n - i \in Nat
      OBVIOUS
    <3> QED BY <3>1
  <2>2. PICK x \in T : \A y \in T : x <= y
    <3> HIDE DEF T
    <3> QED BY <2>1, LeastOf
  <2>3. PICK m \in S : x = n - m
    BY <2>2
  <2>4. \A i \in S : n - m <= n - i
    BY <2>2, <2>3
  <2>5. \A i \in S : i <= m
    BY <2>4
  <2> QED BY <2>5
<1>3. Min(S) \in S /\ \A i \in S : Min(S) <= i
  BY <1>1 DEF Min
<1>4. Max(S) \in S /\ \A i \in S : Max(S) >= i
  <2>1. \E m \in S : \A i \in S : m >= i
    BY <1>2
  <2> QED BY <2>1 DEF Max
<1> QED BY <1>3, <1>4

Flagged(t, key)    == t.opt = "flag" /\ t.key = key
Configured(t, key) == t.opt = "conf" /\ t.key = key

LEMMA FirstFlag ==
  ASSUME NEW S, NEW ts \in Seq(S), NEW key
  PROVE  /\ FlagOf(ts, key) \in 0 .. Len(ts)
         /\ FlagOf(ts, key) = 0 <=> \A i \in 1 .. Len(ts) : ~Flagged(ts[i], key)
         /\ FlagOf(ts, key) # 0 => Flagged(ts[FlagOf(ts, key)], key)
<1> DEFINE I == {i \in 1 .. Len(ts) : Flagged(ts[i], key)}
<1>1. FlagOf(ts, key) = IF I # {} THEN Min(I) ELSE 0
  BY DEF FlagOf, SelectInSeq, Flagged
<1>2. Len(ts) \in Nat /\ I \in SUBSET (1 .. Len(ts))
  BY LenProperties
<1>3. I # {} => Min(I) \in I
  <2> HIDE DEF I
  <2> QED BY <1>2, MinMax
<1> QED BY <1>1, <1>2, <1>3

LEMMA LastConf ==
  ASSUME NEW S, NEW ts \in Seq(S), NEW key
  PROVE  /\ ConfOf(ts, key) \in 0 .. Len(ts)
         /\ ConfOf(ts, key) = 0 <=> \A i \in 1 .. Len(ts) : ~Configured(ts[i], key)
         /\ ConfOf(ts, key) # 0 => Configured(ts[ConfOf(ts, key)], key)
         /\ \A i \in 1 .. Len(ts) : Configured(ts[i], key) => i <= ConfOf(ts, key)
<1> DEFINE I == {i \in 1 .. Len(ts) : Configured(ts[i], key)}
<1>1. ConfOf(ts, key) = IF I # {} THEN Max(I) ELSE 0
  BY DEF ConfOf, SelectLastInSeq, Configured
<1>2. Len(ts) \in Nat /\ I \in SUBSET (1 .. Len(ts))
  BY LenProperties
<1>3. I # {} => Max(I) \in I /\ \A i \in I : i <= Max(I)
  <2> HIDE DEF I
  <2> QED BY <1>2, MinMax
<1> QED BY <1>1, <1>2, <1>3

LEMMA LastLine ==
  ASSUME NEW S, NEW ls \in Seq(S), NEW key, NEW i \in 1 .. Len(ls), ls[i].key = key
  PROVE  LineOf(ls, key) \in 1 .. Len(ls)
<1> DEFINE I == {j \in 1 .. Len(ls) : ls[j].key = key}
<1>1. LineOf(ls, key) = IF I # {} THEN Max(I) ELSE 0
  BY DEF LineOf, SelectLastInSeq
<1>2. Len(ls) \in Nat /\ I \in SUBSET (1 .. Len(ls)) /\ I # {}
  BY LenProperties
<1>3. Max(I) \in I
  <2> HIDE DEF I
  <2> QED BY <1>2, MinMax
<1> QED BY <1>1, <1>2, <1>3

------------------------------------------------------------------------------
(* Updates of the properties, key by key. *)

\* An update of typed properties.
Update(f) == DOMAIN f \subseteq Keys /\ \A k \in DOMAIN f : f[k] \in Seq(Strings)

LEMMA OneText ==
  ASSUME NEW x \in Strings PROVE <<x>> \in Seq(Strings) /\ <<x>> # <<>>
<1>1. Append(<<>>, x) = <<x>> /\ <<>> \in Seq(Strings)
  BY EmptySeq, AppendProperties
<1> QED BY <1>1, AppendProperties

LEMMA ToIsUpdate ==
  ASSUME NEW ks \in SUBSET Keys, NEW x \in Strings
  PROVE  /\ Update(To(ks, x)) /\ DOMAIN To(ks, x) = ks
         /\ \A k \in ks : To(ks, x)[k] = <<x>>
BY OneText DEF Update, To

LEMMA OverwriteKeys ==
  ASSUME NEW p \in Properties, NEW f, Update(f)
  PROVE  /\ Overwrite(p, f) \in Properties
         /\ \A k \in Keys : Overwrite(p, f)[k] = IF k \in DOMAIN f THEN f[k] ELSE p[k]
BY DEF Overwrite, Properties, Update

LEMMA SetIfAbsentKeys ==
  ASSUME NEW p \in Properties, NEW f, Update(f)
  PROVE  /\ SetIfAbsent(p, f) \in Properties
         /\ \A k \in Keys : SetIfAbsent(p, f)[k] =
              IF k \in DOMAIN f /\ p[k] = <<>> THEN f[k] ELSE p[k]
BY DEF SetIfAbsent, Properties, Update

LEMMA AppendAllKeys ==
  ASSUME NEW p \in Properties, NEW f, Update(f)
  PROVE  /\ AppendAll(p, f) \in Properties
         /\ \A k \in Keys : AppendAll(p, f)[k] = IF k \in DOMAIN f THEN p[k] \o f[k] ELSE p[k]
<1>1. \A k \in Keys : p[k] \in Seq(Strings)
  BY DEF Properties
<1>2. \A k \in Keys : (IF k \in DOMAIN f THEN p[k] \o f[k] ELSE p[k]) \in Seq(Strings)
  BY <1>1, ConcatProperties DEF Update
<1> QED BY <1>2 DEF AppendAll, Properties

LEMMA SecretKeys ==
  /\ SecretNames = {"spark.mesos.driver.secret.names", "spark.mesos.executor.secret.names"}
  /\ SecretFiles = {"spark.mesos.driver.secret.filenames", "spark.mesos.executor.secret.filenames"}
  /\ SecretEnvs = {"spark.mesos.driver.secret.envkeys", "spark.mesos.executor.secret.envkeys"}
  /\ \A t \in TaskTypes : NamesOf[t] \in SecretNames /\ FilesOf[t] \in SecretFiles
                          /\ EnvKeysOf[t] \in SecretEnvs
  /\ FilesOf["driver"] = "spark.mesos.driver.secret.filenames"
<1>1. SecretNames = {NamesOf["driver"], NamesOf["executor"]}
  BY DEF SecretNames, TaskTypes
<1>2. SecretFiles = {FilesOf["driver"], FilesOf["executor"]}
  BY DEF SecretFiles, TaskTypes
<1>3. SecretEnvs = {EnvKeysOf["driver"], EnvKeysOf["executor"]}
  BY DEF SecretEnvs, TaskTypes
<1>4. /\ NamesOf["driver"] = "spark.mesos.driver.secret.names"
      /\ NamesOf["executor"] = "spark.mesos.executor.secret.names"
      /\ FilesOf["driver"] = "spark.mesos.driver.secret.filenames"
      /\ FilesOf["executor"] = "spark.mesos.executor.secret.filenames"
      /\ EnvKeysOf["driver"] = "spark.mesos.driver.secret.envkeys"
      /\ EnvKeysOf["executor"] = "spark.mesos.executor.secret.envkeys"
  BY DEF NamesOf, FilesOf, EnvKeysOf
<1>5. \A t \in TaskTypes : NamesOf[t] \in SecretNames /\ FilesOf[t] \in SecretFiles
                          /\ EnvKeysOf[t] \in SecretEnvs
  BY DEF SecretNames, SecretFiles, SecretEnvs
<1> QED BY <1>1, <1>2, <1>3, <1>4, <1>5

Added(p, q, paths, files, envs) ==
  /\ q \in Properties
  /\ \A k \in SecretNames : q[k] = p[k] \o paths
  /\ \A k \in SecretFiles : q[k] = p[k] \o files
  /\ \A k \in SecretEnvs : q[k] = IF p[k] = <<>> THEN p[k] ELSE p[k] \o envs
  /\ \A k \in Keys \ (SecretNames \union SecretFiles \union SecretEnvs) : q[k] = p[k]

LEMMA AddSecretsKeys ==
  ASSUME NEW p \in Properties, NEW paths \in Seq(Strings), NEW files \in Seq(Strings),
         NEW envs \in Seq(Strings)
  PROVE  Added(p, AddSecrets(p, paths, files, envs), paths, files, envs)
<1> DEFINE q == AddSecrets(p, paths, files, envs)
<1> DEFINE v(k) == CASE k \in SecretNames -> p[k] \o paths
                     [] k \in SecretFiles -> p[k] \o files
                     [] k \in SecretEnvs /\ p[k] # <<>> -> p[k] \o envs
                     [] OTHER -> p[k]
<1>0. /\ SecretNames \subseteq Keys /\ SecretFiles \subseteq Keys /\ SecretEnvs \subseteq Keys
      /\ SecretNames \intersect SecretFiles = {} /\ SecretNames \intersect SecretEnvs = {}
      /\ SecretFiles \intersect SecretEnvs = {}
  <2>1. /\ SecretNames \subseteq Keys /\ SecretFiles \subseteq Keys /\ SecretEnvs \subseteq Keys
    BY DEF Keys, ListKeys
  <2> QED BY <2>1, SecretKeys
<1>1. \A k \in Keys : q[k] = v(k)
  BY DEF AddSecrets
<1>2. \A k \in SecretNames : v(k) = p[k] \o paths
  BY <1>0
<1>3. \A k \in SecretFiles : v(k) = p[k] \o files
  BY <1>0
<1>4. \A k \in SecretEnvs : v(k) = IF p[k] = <<>> THEN p[k] ELSE p[k] \o envs
  BY <1>0
<1>5. \A k \in Keys \ (SecretNames \union SecretFiles \union SecretEnvs) : v(k) = p[k]
  BY <1>0
<1>6. \A k \in Keys : p[k] \in Seq(Strings)
  BY DEF Properties
<1>7. \A k \in Keys : v(k) \in Seq(Strings)
  BY <1>6, ConcatProperties
<1>8. q \in Properties
  BY <1>7 DEF AddSecrets, Properties
<1> QED BY <1>0, <1>1, <1>2, <1>3, <1>4, <1>5, <1>8 DEF Added

------------------------------------------------------------------------------
(* The command line: tokens, and the settings --jars and --packages add. *)

LEMMA CommandParts ==
  ASSUME NEW c \in CommandType
  PROVE  /\ c.tokens \in Seq(TokenType) /\ c.file \in Seq(LineType) /\ c.env \in Seq(Strings)
         /\ c.app \in Strings /\ c.class \in Strings /\ c.image \in Strings
         /\ c.principal \in Strings /\ c.keytab \in Strings /\ c.tgt \in Strings
         /\ c.tgtValue \in Strings /\ c.keystore \in Strings
         /\ c.keystorePassword \in Strings /\ c.keyPassword \in Strings
         /\ c.truststore \in Strings /\ c.truststorePassword \in Strings
         /\ c.saslSecret \in Strings /\ c.saslPath \in Strings
BY DEF CommandType

LEMMA TokenParts ==
  ASSUME NEW t \in TokenType
  PROVE  t.opt \in {"conf", "flag"} /\ t.key \in Keys /\ t.val \in Seq(Strings) /\ t.val # <<>>
BY DEF TokenType, Values

\* The tokens before and after the ones that are put in.
LEMMA FollowedByTokens ==
  ASSUME NEW ts \in Seq(TokenType), NEW confs \in Seq(TokenType), NEW key
  PROVE  LET out == FollowedBy(ts, key, confs)
             i   == FlagOf(ts, key)
         IN  /\ out \in Seq(TokenType)
             /\ i = 0 => out = ts
             /\ i # 0 =>
                  /\ Len(out) = Len(ts) + Len(confs)
                  /\ \A j \in 1 .. i : out[j] = ts[j]
                  /\ \A j \in i + 1 .. i + Len(confs) : out[j] = confs[j - i]
                  /\ \A j \in i + Len(confs) + 1 .. Len(out) : out[j] = ts[j - Len(confs)]
<1> DEFINE out == FollowedBy(ts, key, confs)
           i   == FlagOf(ts, key)
           n   == Len(confs)
           m   == Len(ts)
           a   == SubSeq(ts, 1, i)
           b   == SubSeq(ts, i + 1, m)
<1>1. i \in 0 .. m /\ n \in Nat /\ m \in Nat
  BY FirstFlag, LenProperties
<1>2. CASE i = 0
  BY <1>2 DEF FollowedBy
<1>3. CASE i # 0
  <2>1. out = (a \o confs) \o b
    BY <1>3 DEF FollowedBy
  <2>2. \A j \in 1 .. m : ts[j] \in TokenType
    BY ElementOfSeq
  <2>3. /\ a \in Seq(TokenType) /\ Len(a) = i
        /\ \A j \in 1 .. i : a[j] = ts[j]
    <3> HIDE DEF i, m
    <3>1. \A j \in 1 .. i : ts[j] \in TokenType
      BY <1>1, <2>2
    <3>2. 1 \in Int /\ i \in Int
      BY <1>1
    <3>3. /\ SubSeq(ts, 1, i) \in Seq(TokenType)
          /\ Len(SubSeq(ts, 1, i)) = IF 1 <= i THEN i - 1 + 1 ELSE 0
          /\ \A j \in 1 .. i - 1 + 1 : SubSeq(ts, 1, i)[j] = ts[1 + j - 1]
      BY <3>1, <3>2, SubSeqProperties
    <3> QED BY <3>3, <1>1, <1>3
  <2>4. /\ b \in Seq(TokenType) /\ Len(b) = m - i
        /\ \A j \in 1 .. m - i : b[j] = ts[i + j]
    <3> HIDE DEF i, m
    <3>1. \A j \in i + 1 .. m : ts[j] \in TokenType
      BY <1>1, <2>2
    <3>2. i + 1 \in Int /\ m \in Int
      BY <1>1
    <3>3. /\ SubSeq(ts, i + 1, m) \in Seq(TokenType)
          /\ Len(SubSeq(ts, i + 1, m)) = IF i + 1 <= m THEN m - (i + 1) + 1 ELSE 0
          /\ \A j \in 1 .. m - (i + 1) + 1 : SubSeq(ts, i + 1, m)[j] = ts[(i + 1) + j - 1]
      BY <3>1, <3>2, SubSeqProperties
    <3> QED BY <3>3, <1>1
  <2> HIDE DEF a, b, out, i, n, m
  <2>5. /\ a \o confs \in Seq(TokenType) /\ Len(a \o confs) = i + n
        /\ \A j \in 1 .. i + n : (a \o confs)[j] = IF j <= i THEN a[j] ELSE confs[j - i]
    BY <2>3, ConcatProperties DEF n
  <2>6. /\ out \in Seq(TokenType) /\ Len(out) = m + n
        /\ \A j \in 1 .. m + n : out[j] = IF j <= i + n THEN (a \o confs)[j] ELSE b[j - (i + n)]
    <3> DEFINE cc == a \o confs
    <3>1. cc \in Seq(TokenType) /\ b \in Seq(TokenType) /\ out = cc \o b
      BY <2>1, <2>4, <2>5
    <3> HIDE DEF cc
    <3>2. /\ out \in Seq(TokenType) /\ Len(out) = Len(cc) + Len(b)
          /\ \A j \in 1 .. Len(cc) + Len(b) :
               out[j] = IF j <= Len(cc) THEN cc[j] ELSE b[j - Len(cc)]
      BY <3>1, ConcatProperties
    <3>3. Len(cc) = i + n /\ Len(b) = m - i /\ Len(cc) + Len(b) = m + n
      BY <1>1, <2>4, <2>5 DEF cc
    <3> QED BY <3>2, <3>3 DEF cc
  <2>7. \A j \in 1 .. i : out[j] = ts[j]
    BY <1>1, <2>3, <2>5, <2>6
  <2>8. \A j \in i + 1 .. i + n : out[j] = confs[j - i]
    <3> SUFFICES ASSUME NEW j \in i + 1 .. i + n PROVE out[j] = confs[j - i]
      OBVIOUS
    <3>1. j \in 1 .. m + n /\ j \in 1 .. i + n /\ j <= i + n /\ ~(j <= i)
      BY <1>1
    <3> QED BY <2>5, <2>6, <3>1
  <2>9. \A j \in i + n + 1 .. m + n : out[j] = ts[j - n]
    <3> SUFFICES ASSUME NEW j \in i + n + 1 .. m + n PROVE out[j] = ts[j - n]
      OBVIOUS
    <3>1. out[j] = b[j - (i + n)] /\ j - (i + n) \in 1 .. m - i
      BY <1>1, <2>6
    <3>2. b[j - (i + n)] = ts[i + (j - (i + n))] /\ i + (j - (i + n)) = j - n
      BY <1>1, <2>4, <3>1
    <3> QED BY <3>1, <3>2
  <2> QED BY <1>3, <2>6, <2>7, <2>8, <2>9 DEF out, i, n, m
<1> QED BY <1>2, <1>3

\* The text that counts for --conf key, <<>> if there is none.
ConfText(ts, key) == IF ConfOf(ts, key) = 0 THEN <<>> ELSE ts[ConfOf(ts, key)].val

\* Settings of other keys that are put in change nothing for a key.
LEMMA ConfKept ==
  ASSUME NEW ts \in Seq(TokenType), NEW confs \in Seq(TokenType), NEW key, NEW k,
         \A j \in 1 .. Len(confs) : confs[j].key # k
  PROVE  ConfText(FollowedBy(ts, key, confs), k) = ConfText(ts, k)
<1> DEFINE out == FollowedBy(ts, key, confs)
           i   == FlagOf(ts, key)
           n   == Len(confs)
           m   == Len(ts)
           x   == ConfOf(ts, k)
           y   == ConfOf(out, k)
<1>1. CASE i = 0
  BY <1>1, FollowedByTokens
<1>2. CASE i # 0
  <2>1. /\ out \in Seq(TokenType) /\ Len(out) = m + n
        /\ \A j \in 1 .. i : out[j] = ts[j]
        /\ \A j \in i + 1 .. i + n : out[j] = confs[j - i]
        /\ \A j \in i + n + 1 .. m + n : out[j] = ts[j - n]
    BY <1>2, FollowedByTokens
  <2>2. i \in 1 .. m /\ n \in Nat /\ m \in Nat
    BY <1>2, FirstFlag, LenProperties
  <2>3. /\ x \in 0 .. m
        /\ x = 0 <=> \A j \in 1 .. m : ~Configured(ts[j], k)
        /\ x # 0 => Configured(ts[x], k)
        /\ \A j \in 1 .. m : Configured(ts[j], k) => j <= x
    BY LastConf
  <2> HIDE DEF out, i, n, m, x
  <2>4. /\ y \in 0 .. Len(out)
        /\ y = 0 <=> \A j \in 1 .. Len(out) : ~Configured(out[j], k)
        /\ y # 0 => Configured(out[y], k)
        /\ \A j \in 1 .. Len(out) : Configured(out[j], k) => j <= y
    BY <2>1, LastConf
  <2> HIDE DEF y
  <2>5. \A j \in i + 1 .. i + n : ~Configured(out[j], k)
    <3> SUFFICES ASSUME NEW j \in i + 1 .. i + n PROVE ~Configured(out[j], k)
      OBVIOUS
    <3>1. out[j] = confs[j - i] /\ j - i \in 1 .. n
      BY <2>1, <2>2
    <3> QED BY <3>1 DEF Configured, n
  \* Every setting of k that is in one list is in the other.
  <2>6. \A j \in 1 .. m + n : Configured(out[j], k) =>
           \/ j <= i /\ out[j] = ts[j]
           \/ j - n \in i + 1 .. m /\ out[j] = ts[j - n]
    BY <2>1, <2>2, <2>5
  <2>7. \A j \in 1 .. m :
          \/ j <= i /\ out[j] = ts[j]
          \/ j + n \in i + n + 1 .. m + n /\ out[j + n] = ts[j]
    BY <2>1, <2>2
  <2>8. CASE x = 0
    <3>1. \A j \in 1 .. m + n : ~Configured(out[j], k)
      BY <2>2, <2>3, <2>6, <2>8
    <3>2. y = 0
      BY <2>1, <2>4, <3>1
    <3> QED BY <2>8, <3>2 DEF ConfText, x, y, out
  <2>9. CASE x # 0 /\ x <= i
    <3>1. out[x] = ts[x] /\ x <= y
      BY <2>1, <2>2, <2>3, <2>4, <2>9
    <3>2. y <= x
      BY <2>1, <2>2, <2>3, <2>4, <2>6, <2>9, <3>1
    <3>3. x = y
      BY <3>1, <3>2, <2>3, <2>4, <2>1, <2>2
    <3> QED BY <3>1, <3>3, <2>9 DEF ConfText, x, y, out
  <2>10. CASE x > i
    <3>1. out[x + n] = ts[x] /\ x + n \in 1 .. m + n
      BY <2>2, <2>3, <2>7, <2>10
    <3>2. x + n <= y
      BY <2>1, <2>2, <2>3, <2>4, <2>10, <3>1
    <3>3. y <= x + n
      BY <2>1, <2>2, <2>3, <2>4, <2>6, <2>10, <3>2
    <3>4. y = x + n
      <4>1. y \in Int /\ x + n \in Int
        BY <2>1, <2>2, <2>3, <2>4
      <4> QED BY <3>2, <3>3, <4>1
    <3> QED BY <3>1, <3>4, <2>2, <2>3, <2>10 DEF ConfText, x, y, out
  <2> QED BY <2>2, <2>3, <2>8, <2>9, <2>10
<1> QED BY <1>1, <1>2

\* A setting behind the flag counts, whatever is put in.
LEMMA ConfBehind ==
  ASSUME NEW ts \in Seq(TokenType), NEW confs \in Seq(TokenType), NEW key, NEW k,
         FlagOf(ts, key) # 0, ConfOf(ts, k) > FlagOf(ts, key)
  PROVE  ConfText(FollowedBy(ts, key, confs), k) = ConfText(ts, k)
<1> DEFINE out == FollowedBy(ts, key, confs)
           i   == FlagOf(ts, key)
           n   == Len(confs)
           m   == Len(ts)
           x   == ConfOf(ts, k)
           y   == ConfOf(out, k)
<1>1. /\ out \in Seq(TokenType) /\ Len(out) = m + n
      /\ \A j \in i + n + 1 .. m + n : out[j] = ts[j - n]
  BY FollowedByTokens
<1>2. i \in 1 .. m /\ n \in Nat /\ m \in Nat
  BY FirstFlag, LenProperties
<1>3. /\ x \in 0 .. m /\ x > i
      /\ x # 0 => Configured(ts[x], k)
      /\ \A j \in 1 .. m : Configured(ts[j], k) => j <= x
  BY LastConf
<1> HIDE DEF out, i, n, m, x
<1>4. /\ y \in 0 .. m + n
      /\ y # 0 => Configured(out[y], k)
      /\ \A j \in 1 .. m + n : Configured(out[j], k) => j <= y
  BY <1>1, LastConf
<1> HIDE DEF y
<1>5. x + n \in i + n + 1 .. m + n /\ x + n \in 1 .. m + n /\ (x + n) - n = x /\ x # 0
  BY <1>2, <1>3
<1>6. out[x + n] = ts[x] /\ Configured(out[x + n], k)
  <2>1. out[x + n] = ts[(x + n) - n]
    BY <1>1, <1>5
  <2> QED BY <1>3, <1>5, <2>1
<1>7. x + n <= y /\ Configured(out[y], k)
  <2>1. x + n <= y
    BY <1>4, <1>5, <1>6
  <2>2. y # 0
    BY <1>2, <1>3, <2>1
  <2> QED BY <1>4, <2>1, <2>2
<1>8. y <= x + n
  <2>1. y \in i + n + 1 .. m + n /\ y - n \in 1 .. m
    BY <1>2, <1>3, <1>4, <1>7
  <2>2. y - n <= x
    BY <1>1, <1>3, <1>7, <2>1
  <2> QED BY <1>2, <1>3, <1>4, <2>2
<1>9. y = x + n /\ y # 0
  BY <1>2, <1>3, <1>4, <1>7, <1>8
<1> QED BY <1>5, <1>6, <1>9 DEF ConfText, x, y, out

\* A setting that is put in behind the flag counts, if no later one is there.
LEMMA ConfPutIn ==
  ASSUME NEW ts \in Seq(TokenType), NEW confs \in Seq(TokenType), NEW key, NEW k,
         FlagOf(ts, key) # 0, ConfOf(ts, k) < FlagOf(ts, key),
         NEW x \in 1 .. Len(confs), Configured(confs[x], k),
         \A j \in 1 .. Len(confs) : Configured(confs[j], k) => j = x
  PROVE  ConfText(FollowedBy(ts, key, confs), k) = confs[x].val
<1> DEFINE out == FollowedBy(ts, key, confs)
           i   == FlagOf(ts, key)
           n   == Len(confs)
           m   == Len(ts)
           y   == ConfOf(out, k)
<1>1. /\ out \in Seq(TokenType) /\ Len(out) = m + n
      /\ \A j \in i + 1 .. i + n : out[j] = confs[j - i]
      /\ \A j \in i + n + 1 .. m + n : out[j] = ts[j - n]
  BY FollowedByTokens
<1>2. i \in 1 .. m /\ n \in Nat /\ m \in Nat
  BY FirstFlag, LenProperties
<1>3. \A j \in i + 1 .. m : ~Configured(ts[j], k)
  <2>1. /\ ConfOf(ts, k) \in 0 .. m
        /\ \A j \in 1 .. m : Configured(ts[j], k) => j <= ConfOf(ts, k)
    BY LastConf
  <2> HIDE DEF i, m
  <2>2. ConfOf(ts, k) < i
    BY DEF i
  <2> QED BY <1>2, <2>1, <2>2
<1> HIDE DEF out, i, n, m
<1>4. /\ y \in 0 .. m + n
      /\ y # 0 => Configured(out[y], k)
      /\ \A j \in 1 .. m + n : Configured(out[j], k) => j <= y
  BY <1>1, LastConf
<1> HIDE DEF y
<1>5. x \in 1 .. n
  BY DEF n
<1>6. i + x \in 1 .. m + n /\ out[i + x] = confs[x]
  <2>1. i + x \in i + 1 .. i + n /\ (i + x) - i = x
    BY <1>2, <1>5
  <2>2. out[i + x] = confs[(i + x) - i]
    BY <1>1, <2>1
  <2> QED BY <1>2, <1>5, <2>1, <2>2
<1>7. i + x <= y /\ Configured(out[y], k)
  <2>1. i + x <= y
    BY <1>4, <1>6
  <2>2. y # 0
    BY <1>2, <1>5, <2>1
  <2> QED BY <1>4, <2>1, <2>2
<1>8. y <= i + x
  <2>1. CASE y <= i + n
    <3>1. y \in i + 1 .. i + n /\ y - i \in 1 .. n
      BY <1>2, <1>4, <1>5, <1>7, <2>1
    <3>2. out[y] = confs[y - i]
      BY <1>1, <3>1
    <3>3. y - i = x
      BY <1>7, <3>1, <3>2 DEF n
    <3> QED BY <1>2, <1>4, <1>5, <3>3
  <2>2. CASE y > i + n
    <3>1. y \in i + n + 1 .. m + n /\ y - n \in i + 1 .. m
      BY <1>2, <1>4, <2>2
    <3> QED BY <1>1, <1>3, <1>7, <3>1
  <2> QED BY <1>2, <1>4, <2>1, <2>2
<1>9. y = i + x
  BY <1>2, <1>4, <1>5, <1>7, <1>8
<1>10. y # 0
  BY <1>2, <1>5, <1>9
<1> QED BY <1>6, <1>9, <1>10 DEF ConfText, y, out

\* No flag is put in either.
LEMMA FlagsKept ==
  ASSUME NEW ts \in Seq(TokenType), NEW confs \in Seq(TokenType), NEW key, NEW k,
         \A j \in 1 .. Len(confs) : confs[j].opt = "conf",
         FlagOf(ts, k) = 0
  PROVE  FlagOf(FollowedBy(ts, key, confs), k) = 0
<1> DEFINE out == FollowedBy(ts, key, confs)
           i   == FlagOf(ts, key)
           n   == Len(confs)
           m   == Len(ts)
<1>1. CASE i = 0
  BY <1>1, FollowedByTokens
<1>2. CASE i # 0
  <2>1. /\ out \in Seq(TokenType) /\ Len(out) = m + n
        /\ \A j \in 1 .. i : out[j] = ts[j]
        /\ \A j \in i + 1 .. i + n : out[j] = confs[j - i]
        /\ \A j \in i + n + 1 .. m + n : out[j] = ts[j - n]
    BY <1>2, FollowedByTokens
  <2>2. i \in 1 .. m /\ n \in Nat /\ m \in Nat
    BY <1>2, FirstFlag, LenProperties
  <2>3. \A j \in 1 .. m : ~Flagged(ts[j], k)
    BY FirstFlag
  <2>4. \A j \in 1 .. n : ~Flagged(confs[j], k)
    BY DEF Flagged
  <2> HIDE DEF out, i, n, m
  <2>5. \A j \in 1 .. m + n : ~Flagged(out[j], k)
    <3> SUFFICES ASSUME NEW j \in 1 .. m + n PROVE ~Flagged(out[j], k)
      OBVIOUS
    <3>1. CASE j <= i
      BY <2>1, <2>2, <2>3, <3>1
    <3>2. CASE j > i /\ j <= i + n
      <4>1. j \in i + 1 .. i + n /\ j - i \in 1 .. n
        BY <2>2, <3>2
      <4> QED BY <2>1, <2>4, <4>1
    <3>3. CASE j > i + n
      <4>1. j \in i + n + 1 .. m + n /\ j - n \in 1 .. m
        BY <2>2, <3>3
      <4> QED BY <2>1, <2>3, <4>1
    <3> QED BY <2>2, <3>1, <3>2, <3>3
  <2> QED BY <2>1, <2>5, FirstFlag DEF out
<1> QED BY <1>1, <1>2

JarKeys == ClassPathKeys \union {"spark.mesos.uris"}

LEMMA ConfToken ==
  ASSUME NEW key \in Keys, NEW val \in Seq(Strings), val # <<>>
  PROVE  /\ Token("conf", key, val) \in TokenType
         /\ Token("conf", key, val).opt = "conf" /\ Token("conf", key, val).key = key
BY DEF Token, TokenType, Values

LEMMA WithJarsTokens ==
  ASSUME NEW ts \in Seq(TokenType)
  PROVE  /\ WithJars(ts) \in Seq(TokenType)
         /\ \A k : FlagOf(ts, "spark.jars") = 0 \/ k \notin JarKeys
                     => ConfText(WithJars(ts), k) = ConfText(ts, k)
         /\ \A k : FlagOf(ts, k) = 0 => FlagOf(WithJars(ts), k) = 0
<1> DEFINE i     == FlagOf(ts, "spark.jars")
           jars  == ts[i].val
           path  == [j \in DOMAIN jars |-> BaseName(jars[j])]
           a     == Token("conf", "spark.mesos.uris", jars)
           b     == Token("conf", "spark.driver.extraClassPath", path)
           d     == Token("conf", "spark.executor.extraClassPath", path)
           confs == <<a, b, d>>
<1>0. WithJars(ts) = FollowedBy(ts, "spark.jars", confs)
  BY DEF WithJars
<1>1. CASE i = 0
  BY <1>0, <1>1 DEF FollowedBy
<1>2. CASE i # 0
  <2>1. jars \in Seq(Strings) /\ jars # <<>>
    <3>1. i \in 1 .. Len(ts)
      BY <1>2, FirstFlag, LenProperties
    <3>2. ts[i] \in TokenType
      BY <3>1, ElementOfSeq
    <3> QED BY <3>2, TokenParts
  <2> HIDE DEF jars, i
  <2>2. path \in Seq(Strings) /\ path # <<>>
    <3>1. Len(jars) \in Nat /\ DOMAIN jars = 1 .. Len(jars) /\ 1 \in DOMAIN jars
      BY <2>1, LenProperties, EmptySeq
    <3>2. \A j \in DOMAIN jars : BaseName(jars[j]) \in Strings
      BY <2>1, <3>1, ElementOfSeq, BaseNameAssumption
    <3>3. path \in [1 .. Len(jars) -> Strings] /\ 1 \in DOMAIN path
      BY <3>1, <3>2
    <3> QED BY <3>1, <3>3, SeqDef, EmptySeq
  <2> HIDE DEF path
  <2>3. /\ a \in TokenType /\ b \in TokenType /\ d \in TokenType
        /\ a.opt = "conf" /\ b.opt = "conf" /\ d.opt = "conf"
        /\ a.key \in JarKeys /\ b.key \in JarKeys /\ d.key \in JarKeys
    <3>1. "spark.mesos.uris" \in Keys /\ "spark.driver.extraClassPath" \in Keys
          /\ "spark.executor.extraClassPath" \in Keys
      BY DEF Keys, ListKeys, ClassPathKeys
    <3> QED BY <2>1, <2>2, <3>1, ConfToken DEF JarKeys, ClassPathKeys
  <2> HIDE DEF a, b, d
  <2>4. /\ confs \in Seq(TokenType) /\ Len(confs) = 3
        /\ \A j \in 1 .. 3 : confs[j] \in {a, b, d}
    BY <2>3
  <2> HIDE DEF confs
  <2>5. /\ WithJars(ts) \in Seq(TokenType)
        /\ \A k : k \notin JarKeys => ConfText(WithJars(ts), k) = ConfText(ts, k)
    <3>1. ASSUME NEW k, k \notin JarKeys PROVE ConfText(WithJars(ts), k) = ConfText(ts, k)
      <4>1. \A j \in 1 .. Len(confs) : confs[j].key # k
        BY <2>3, <2>4, <3>1
      <4> QED BY <1>0, <2>4, <4>1, ConfKept
    <3> QED BY <1>0, <2>4, <3>1, FollowedByTokens
  <2>6. \A k : FlagOf(ts, k) = 0 => FlagOf(WithJars(ts), k) = 0
    <3>1. \A j \in 1 .. Len(confs) : confs[j].opt = "conf"
      BY <2>3, <2>4
    <3> QED BY <1>0, <2>4, <3>1, FlagsKept
  <2> QED BY <1>2, <2>5, <2>6 DEF i
<1> QED BY <1>1, <1>2

\* What --jars puts in counts, unless --conf behind it says otherwise.
LEMMA JarTexts ==
  ASSUME NEW ts \in Seq(TokenType), FlagOf(ts, "spark.jars") # 0
  PROVE  LET i    == FlagOf(ts, "spark.jars")
             jars == ts[i].val
             path == [j \in DOMAIN jars |-> BaseName(jars[j])]
         IN  /\ ConfOf(ts, "spark.mesos.uris") < i =>
                  ConfText(WithJars(ts), "spark.mesos.uris") = jars
             /\ \A k \in ClassPathKeys :
                  ConfOf(ts, k) < i => ConfText(WithJars(ts), k) = path
             /\ \A k : ConfOf(ts, k) > i => ConfText(WithJars(ts), k) = ConfText(ts, k)
<1> DEFINE i     == FlagOf(ts, "spark.jars")
           jars  == ts[i].val
           path  == [j \in DOMAIN jars |-> BaseName(jars[j])]
           a     == Token("conf", "spark.mesos.uris", jars)
           b     == Token("conf", "spark.driver.extraClassPath", path)
           d     == Token("conf", "spark.executor.extraClassPath", path)
           confs == <<a, b, d>>
<1>1. WithJars(ts) = FollowedBy(ts, "spark.jars", confs)
  BY DEF WithJars
<1>2. jars \in Seq(Strings) /\ jars # <<>>
  <2>1. i \in 1 .. Len(ts)
    BY FirstFlag, LenProperties
  <2>2. ts[i] \in TokenType
    BY <2>1, ElementOfSeq
  <2> QED BY <2>2, TokenParts
<1> HIDE DEF jars, i
<1>3. path \in Seq(Strings) /\ path # <<>>
  <2>1. Len(jars) \in Nat /\ DOMAIN jars = 1 .. Len(jars) /\ 1 \in DOMAIN jars
    BY <1>2, LenProperties, EmptySeq
  <2>2. \A j \in DOMAIN jars : BaseName(jars[j]) \in Strings
    BY <1>2, <2>1, ElementOfSeq, BaseNameAssumption
  <2>3. path \in [1 .. Len(jars) -> Strings] /\ 1 \in DOMAIN path
    BY <2>1, <2>2
  <2> QED BY <2>1, <2>3, SeqDef, EmptySeq
<1> HIDE DEF path
<1>4. a \in TokenType /\ b \in TokenType /\ d \in TokenType
  <2>1. "spark.mesos.uris" \in Keys /\ "spark.driver.extraClassPath" \in Keys
        /\ "spark.executor.extraClassPath" \in Keys
    BY DEF Keys, ListKeys, ClassPathKeys
  <2> QED BY <1>2, <1>3, <2>1, ConfToken
<1>5. /\ Configured(a, "spark.mesos.uris") /\ a.val = jars
      /\ ~Configured(b, "spark.mesos.uris") /\ ~Configured(d, "spark.mesos.uris")
      /\ Configured(b, "spark.driver.extraClassPath") /\ b.val = path
      /\ ~Configured(a, "spark.driver.extraClassPath")
      /\ ~Configured(d, "spark.driver.extraClassPath")
      /\ Configured(d, "spark.executor.extraClassPath") /\ d.val = path
      /\ ~Configured(a, "spark.executor.extraClassPath")
      /\ ~Configured(b, "spark.executor.extraClassPath")
  BY DEF Token, Configured
<1> HIDE DEF a, b, d
<1>6. /\ confs \in Seq(TokenType) /\ Len(confs) = 3
      /\ confs[1] = a /\ confs[2] = b /\ confs[3] = d
      /\ \A j \in 1 .. 3 : j = 1 \/ j = 2 \/ j = 3
  BY <1>4
<1> HIDE DEF confs
<1>7. ASSUME NEW k, NEW x \in 1 .. 3, Configured(confs[x], k),
             \A j \in 1 .. 3 : Configured(confs[j], k) => j = x,
             ConfOf(ts, k) < i
      PROVE  ConfText(WithJars(ts), k) = confs[x].val
  BY <1>1, <1>6, <1>7, ConfPutIn DEF i
<1>8. ConfOf(ts, "spark.mesos.uris") < i => ConfText(WithJars(ts), "spark.mesos.uris") = jars
  BY <1>5, <1>6, <1>7
<1>9. \A k \in ClassPathKeys : ConfOf(ts, k) < i => ConfText(WithJars(ts), k) = path
  <2>1. ConfOf(ts, "spark.driver.extraClassPath") < i =>
          ConfText(WithJars(ts), "spark.driver.extraClassPath") = path
    BY <1>5, <1>6, <1>7
  <2>2. ConfOf(ts, "spark.executor.extraClassPath") < i =>
          ConfText(WithJars(ts), "spark.executor.extraClassPath") = path
    BY <1>5, <1>6, <1>7
  <2> QED BY <2>1, <2>2 DEF ClassPathKeys
<1>10. \A k : ConfOf(ts, k) > i => ConfText(WithJars(ts), k) = ConfText(ts, k)
  BY <1>1, <1>6, ConfBehind DEF i
<1> QED BY <1>8, <1>9, <1>10 DEF i, jars, path

\* The transformed command line says of every key what was typed last.
LEMMA TypedText ==
  ASSUME NEW c \in CommandType, NEW k
  PROVE  ConfText(WithJars(c.tokens), k) = LastTyped(c, k)
<1> DEFINE ts   == c.tokens
           i    == FlagOf(ts, "spark.jars")
           x    == ConfOf(ts, k)
           jars == ts[i].val
           path == [j \in DOMAIN jars |-> BaseName(jars[j])]
           new  == ConfText(WithJars(ts), k)
           old  == ConfText(ts, k)
<1>1. ts \in Seq(TokenType)
  BY CommandParts
<1>2. LastTyped(c, k) = CASE k = "spark.mesos.uris" /\ x < i -> jars
                      [] k \in ClassPathKeys /\ x < i -> path
                      [] OTHER -> old
  BY DEF LastTyped, ConfText
<1>3. i = 0 \/ k \notin JarKeys => new = old
  <2> HIDE DEF ts
  <2> QED BY <1>1, WithJarsTokens
<1>4. ASSUME i # 0
      PROVE  /\ k = "spark.mesos.uris" /\ x < i => new = jars
             /\ k \in ClassPathKeys /\ x < i => new = path
             /\ x > i => new = old
  <2> HIDE DEF ts
  <2> QED BY <1>1, <1>4, JarTexts
<1>5. i \in Nat /\ x \in Nat /\ (i # 0 => x # i)
  <2> HIDE DEF ts
  <2>1. i \in 0 .. Len(ts) /\ x \in 0 .. Len(ts) /\ Len(ts) \in Nat
    BY <1>1, FirstFlag, LastConf, LenProperties
  <2>2. (i # 0 => Flagged(ts[i], "spark.jars")) /\ (x # 0 => Configured(ts[x], k))
    BY <1>1, FirstFlag, LastConf
  <2>3. \A t : ~(Flagged(t, "spark.jars") /\ Configured(t, k))
    BY DEF Flagged, Configured
  <2> QED BY <2>1, <2>2, <2>3
<1>6. k \in ClassPathKeys => k # "spark.mesos.uris"
  BY DEF ClassPathKeys
<1>7. k \in JarKeys <=> k \in ClassPathKeys \/ k = "spark.mesos.uris"
  BY DEF JarKeys
<1> HIDE DEF ts, i, x, jars, path, new, old
<1>8. CASE i = 0
  BY <1>2, <1>3, <1>5, <1>8 DEF new, ts
<1>9. CASE i # 0
  <2>1. CASE x < i
    BY <1>2, <1>3, <1>4, <1>6, <1>7, <1>9, <2>1 DEF new, ts
  <2>2. CASE x > i
    BY <1>2, <1>4, <1>5, <1>9, <2>2 DEF new, ts
  <2> QED BY <1>5, <1>9, <2>1, <2>2
<1> QED BY <1>8, <1>9

LEMMA WithPackagesTokens ==
  ASSUME NEW ts \in Seq(TokenType)
  PROVE  /\ WithPackages(ts) \in Seq(TokenType)
         /\ \A k : FlagOf(ts, "spark.jars.packages") = 0 \/ k # "spark.jars.ivy"
                     => ConfText(WithPackages(ts), k) = ConfText(ts, k)
<1> DEFINE a == Token("conf", "spark.jars.ivy", <<"sandbox/.ivy2">>)
<1>1. a \in TokenType /\ a.key = "spark.jars.ivy"
  <2>1. "spark.jars.ivy" \in Keys /\ "sandbox/.ivy2" \in Strings
    BY LiteralsAssumption DEF Keys, ValueKeys, Literals
  <2> QED BY <2>1, OneText, ConfToken
<1>2. WithPackages(ts) = FollowedBy(ts, "spark.jars.packages", <<a>>)
  BY DEF WithPackages
<1> HIDE DEF a
<1> DEFINE confs == <<a>>
<1>3. confs \in Seq(TokenType) /\ Len(confs) = 1 /\ confs[1] = a
  BY <1>1
<1> HIDE DEF confs
<1>4. WithPackages(ts) \in Seq(TokenType)
  BY <1>2, <1>3, FollowedByTokens DEF confs
<1>5. ASSUME NEW k, k # "spark.jars.ivy" PROVE ConfText(WithPackages(ts), k) = ConfText(ts, k)
  <2>1. \A j \in 1 .. Len(confs) : confs[j].key # k
    BY <1>1, <1>3, <1>5
  <2>2. WithPackages(ts) = FollowedBy(ts, "spark.jars.packages", confs)
    BY <1>2 DEF confs
  <2> QED BY <1>3, <2>1, <2>2, ConfKept
<1>6. ASSUME FlagOf(ts, "spark.jars.packages") = 0 PROVE WithPackages(ts) = ts
  BY <1>6 DEF WithPackages, FollowedBy
<1> QED BY <1>4, <1>5, <1>6

\* What is typed for a key of the user's own is what the parser finds for it.
LEMMA ConfPropsKeys ==
  ASSUME NEW c \in CommandType
  PROVE  /\ ConfProps(c) \in Properties
         /\ \A k \in Keys : k \notin Overruled(c) => ConfProps(c)[k] = LastTyped(c, k)
<1> DEFINE ts == Transformed(c)
           js == WithJars(c.tokens)
<1>1. c.tokens \in Seq(TokenType)
  BY CommandParts
<1>2. js \in Seq(TokenType) /\ ts \in Seq(TokenType)
  BY <1>1, WithJarsTokens, WithPackagesTokens DEF Transformed
<1>3. \A k \in Keys : ConfProps(c)[k] = ConfText(ts, k)
  BY DEF ConfProps, ConfText
<1>4. \A k \in Keys : ConfText(ts, k) \in Seq(Strings)
  <2> SUFFICES ASSUME NEW k \in Keys, ConfOf(ts, k) # 0 PROVE ts[ConfOf(ts, k)].val \in Seq(Strings)
    BY EmptySeq DEF ConfText
  <2> HIDE DEF ts
  <2>1. ConfOf(ts, k) \in 1 .. Len(ts)
    BY <1>2, LastConf, LenProperties
  <2>2. ts[ConfOf(ts, k)] \in TokenType
    BY <1>2, <2>1, ElementOfSeq
  <2> QED BY <2>2, TokenParts
<1>5. ASSUME NEW k \in Keys, k \notin Overruled(c) PROVE ConfText(ts, k) = LastTyped(c, k)
  <2>1. FlagOf(js, "spark.jars.packages") = 0 \/ k # "spark.jars.ivy"
    <3>1. FlagOf(c.tokens, "spark.jars.packages") = 0 \/ k # "spark.jars.ivy"
      BY <1>5 DEF Overruled
    <3> QED BY <1>1, <3>1, WithJarsTokens
  <2>2. ConfText(js, k) = LastTyped(c, k)
    BY TypedText
  <2>3. ConfText(ts, k) = ConfText(js, k)
    BY <1>2, <2>1, WithPackagesTokens DEF Transformed
  <2> QED BY <2>2, <2>3
<1>6. ConfProps(c) \in Properties
  BY <1>3, <1>4 DEF ConfProps, Properties
<1> QED BY <1>3, <1>5, <1>6

\* Flags and the properties file.
LEMMA FlagPropsType ==
  ASSUME NEW c \in CommandType
  PROVE  Update(FlagProps(c))
<1> DEFINE ts == Transformed(c)
<1>1. ts \in Seq(TokenType)
  BY CommandParts, WithJarsTokens, WithPackagesTokens DEF Transformed
<1>2. FlagKeys \subseteq Keys
  BY DEF FlagKeys, Keys, ListKeys, ClassPathKeys, ValueKeys
<1>3. \A k \in FlagKeys : FlagOf(ts, k) # 0 => ts[FlagOf(ts, k)].val \in Seq(Strings)
  <2> SUFFICES ASSUME NEW k \in FlagKeys, FlagOf(ts, k) # 0
               PROVE  ts[FlagOf(ts, k)].val \in Seq(Strings)
    OBVIOUS
  <2> HIDE DEF ts
  <2>1. FlagOf(ts, k) \in 1 .. Len(ts)
    BY <1>1, FirstFlag, LenProperties
  <2>2. ts[FlagOf(ts, k)] \in TokenType
    BY <1>1, <2>1, ElementOfSeq
  <2> QED BY <2>2, TokenParts
<1>4. c.env \in Seq(Strings) /\ <<"1G">> \in Seq(Strings) /\ <<>> \in Seq(Strings)
  <2>1. "1G" \in Strings
    BY LiteralsAssumption DEF Literals
  <2> QED BY <2>1, CommandParts, OneText, EmptySeq
<1>5. \A k \in FlagKeys : FlagValue(c, k) \in Seq(Strings)
  BY <1>3, <1>4 DEF FlagValue
<1>6. \A k \in FlagKeys : FlagProps(c)[k] \in Seq(Strings)
  BY <1>4, <1>5 DEF FlagProps
<1>7. DOMAIN FlagProps(c) = FlagKeys
  BY DEF FlagProps
<1> QED BY <1>2, <1>6, <1>7 DEF Update

LEMMA FilePropsType ==
  ASSUME NEW c \in CommandType
  PROVE  Update(FileProps(c))
<1> DEFINE ls == c.file
<1>1. ls \in Seq(LineType) /\ DOMAIN ls = 1 .. Len(ls)
  BY CommandParts, LenProperties
<1>2. \A i \in 1 .. Len(ls) : ls[i] \in LineType
  BY <1>1, ElementOfSeq
<1>3. \A i \in 1 .. Len(ls) : ls[i].key \in Keys /\ ls[i].val \in Seq(Strings)
  BY <1>2 DEF LineType, Values
<1>4. /\ DOMAIN FileProps(c) = {ls[i].key : i \in 1 .. Len(ls)}
      /\ \A k \in DOMAIN FileProps(c) : FileProps(c)[k] = ls[LineOf(ls, k)].val
  BY <1>1 DEF FileProps
<1> HIDE DEF ls
<1>5. \A k \in DOMAIN FileProps(c) : LineOf(ls, k) \in 1 .. Len(ls)
  <2> SUFFICES ASSUME NEW i \in 1 .. Len(ls), NEW k, k = ls[i].key
               PROVE  LineOf(ls, k) \in 1 .. Len(ls)
    BY <1>4
  <2> QED BY <1>1, LastLine
<1> QED BY <1>3, <1>4, <1>5 DEF Update

LEMMA UserPropsType ==
  ASSUME NEW c \in CommandType
  PROVE  /\ SetIfAbsent(ConfProps(c), FlagProps(c)) \in Properties
         /\ UserProps(c) \in Properties
BY ConfPropsKeys, FlagPropsType, FilePropsType, SetIfAbsentKeys DEF UserProps

------------------------------------------------------------------------------
(* Properties of the user's own, which are only ever extended. *)

Extends(p, q) ==
  \A k \in Keys \ Managed : \E u \in Seq(Strings) : q[k] = p[k] \o u

LEMMA NothingAdded ==
  ASSUME NEW p \in Properties, NEW k \in Keys
  PROVE  /\ p[k] \in Seq(Strings) /\ p[k] = p[k] \o <<>>
         /\ <<>> \in Seq(Strings)
         /\ \A u \in Seq(Strings) : u = <<>> \o u
BY ConcatEmptySeq, EmptySeq DEF Properties

LEMMA ExtendsItself == ASSUME NEW p \in Properties PROVE Extends(p, p)
BY NothingAdded DEF Extends

LEMMA ExtendsTransitive ==
  ASSUME NEW p \in Properties, NEW q \in Properties, NEW r \in Properties,
         Extends(p, q), Extends(q, r)
  PROVE  Extends(p, r)
<1> SUFFICES ASSUME NEW k \in Keys \ Managed
             PROVE  \E u \in Seq(Strings) : r[k] = p[k] \o u
  BY DEF Extends
<1>1. PICK v \in Seq(Strings) : q[k] = p[k] \o v
  BY DEF Extends
<1>2. PICK w \in Seq(Strings) : r[k] = q[k] \o w
  BY DEF Extends
<1>3. p[k] \in Seq(Strings)
  BY NothingAdded
<1>4. (p[k] \o v) \o w = p[k] \o (v \o w) /\ v \o w \in Seq(Strings)
  <2> DEFINE x == p[k]
  <2>1. x \in Seq(Strings)
    BY <1>3
  <2> HIDE DEF x
  <2>2. (x \o v) \o w = x \o (v \o w) /\ v \o w \in Seq(Strings)
    BY <2>1, ConcatAssociative, ConcatProperties
  <2> QED BY <2>2 DEF x
<1>5. r[k] = p[k] \o (v \o w)
  BY <1>1, <1>2, <1>4
<1> QED BY <1>4, <1>5

LEMMA SetIfAbsentExtends ==
  ASSUME NEW p \in Properties, NEW f, Update(f)
  PROVE  Extends(p, SetIfAbsent(p, f))
<1> SUFFICES ASSUME NEW k \in Keys
             PROVE  \E u \in Seq(Strings) : SetIfAbsent(p, f)[k] = p[k] \o u
  BY DEF Extends
<1>1. SetIfAbsent(p, f)[k] = IF k \in DOMAIN f /\ p[k] = <<>> THEN f[k] ELSE p[k]
  BY SetIfAbsentKeys
<1>2. CASE k \in DOMAIN f /\ p[k] = <<>>
  <2>1. f[k] \in Seq(Strings)
    BY <1>2 DEF Update
  <2> QED BY <1>1, <1>2, <2>1, NothingAdded
<1>3. CASE ~(k \in DOMAIN f /\ p[k] = <<>>)
  BY <1>1, <1>3, NothingAdded
<1> QED BY <1>2, <1>3

LEMMA AppendAllExtends ==
  ASSUME NEW p \in Properties, NEW f, Update(f)
  PROVE  Extends(p, AppendAll(p, f))
<1> SUFFICES ASSUME NEW k \in Keys
             PROVE  \E u \in Seq(Strings) : AppendAll(p, f)[k] = p[k] \o u
  BY DEF Extends
<1>1. AppendAll(p, f)[k] = IF k \in DOMAIN f THEN p[k] \o f[k] ELSE p[k]
  BY AppendAllKeys
<1>2. k \in DOMAIN f => f[k] \in Seq(Strings)
  BY DEF Update
<1> QED BY <1>1, <1>2, NothingAdded

LEMMA OverwriteExtends ==
  ASSUME NEW p \in Properties, NEW f, Update(f), DOMAIN f \subseteq Managed
  PROVE  Extends(p, Overwrite(p, f))
<1> SUFFICES ASSUME NEW k \in Keys \ Managed
             PROVE  \E u \in Seq(Strings) : Overwrite(p, f)[k] = p[k] \o u
  BY DEF Extends
<1>1. Overwrite(p, f)[k] = p[k]
  BY OverwriteKeys
<1> QED BY <1>1, NothingAdded

LEMMA AddSecretsExtends ==
  ASSUME NEW p \in Properties, NEW q, NEW paths \in Seq(Strings), NEW files \in Seq(Strings),
         NEW envs \in Seq(Strings), Added(p, q, paths, files, envs)
  PROVE  Extends(p, q)
<1>1. \A k \in Keys : \E u \in Seq(Strings) : q[k] = p[k] \o u
  <2> SUFFICES ASSUME NEW k \in Keys PROVE \E u \in Seq(Strings) : q[k] = p[k] \o u
    OBVIOUS
  <2>1. q[k] \in {p[k], p[k] \o paths, p[k] \o files, p[k] \o envs}
    BY DEF Added
  <2> QED BY <2>1, NothingAdded
<1> QED BY <1>1 DEF Extends


------------------------------------------------------------------------------
(* The stages of buildSubmitJson. *)

Passwords == {"spark.ssl.keyStorePassword", "spark.ssl.keyPassword",
              "spark.ssl.trustStorePassword"}

\* What the security settings are decided by.
CoreKeys ==
  SecretNames \union SecretFiles \union SecretEnvs \union Passwords
    \union {"spark.yarn.principal"}

LEMMA KeyPlaces ==
  /\ Managed \subseteq Keys /\ CoreKeys \subseteq Keys /\ KdcKeys \subseteq Keys
  /\ Passwords \subseteq Keys /\ Managed \intersect Passwords = {}
  /\ SecretNames \subseteq Keys /\ SecretFiles \subseteq Keys /\ SecretEnvs \subseteq Keys
  /\ "spark.jars" \in Keys /\ "spark.jars" \notin Managed \union CoreKeys \union KdcKeys
  /\ (ListKeys \union ClassPathKeys) \intersect Managed = {}
  /\ ListKeys \union ClassPathKeys \subseteq Keys
  /\ KdcKeys \intersect Managed = {} /\ KdcKeys \intersect CoreKeys = {}
  /\ CoreKeys \intersect Managed = {"spark.yarn.principal"}
<1>1. /\ Keys = ListKeys \union ClassPathKeys \union ValueKeys \union KdcKeys \union SaslKeys
      /\ SecretNames \subseteq ListKeys /\ SecretFiles \subseteq ListKeys
      /\ SecretEnvs \subseteq ListKeys /\ "spark.jars" \in ListKeys
  BY DEF Keys, ListKeys
<1>2. ListKeys \intersect Managed = {} /\ "spark.jars" \notin CoreKeys \union KdcKeys
  BY SecretKeys DEF ListKeys, Managed, SaslKeys, CoreKeys, KdcKeys, Passwords
<1>3. /\ Managed \subseteq ValueKeys \union SaslKeys /\ Passwords \subseteq ValueKeys
      /\ "spark.yarn.principal" \in ValueKeys /\ Managed \intersect Passwords = {}
      /\ ClassPathKeys \intersect Managed = {} /\ KdcKeys \intersect Managed = {}
      /\ "spark.yarn.principal" \in Managed
  BY DEF Managed, ValueKeys, Passwords, ClassPathKeys, KdcKeys, SaslKeys
<1>4. KdcKeys \intersect CoreKeys = {}
  BY SecretKeys DEF KdcKeys, CoreKeys, Passwords
<1>5. CoreKeys \intersect Managed = {"spark.yarn.principal"}
  BY <1>1, <1>2, <1>3 DEF CoreKeys
<1> QED BY <1>1, <1>2, <1>3, <1>4, <1>5 DEF CoreKeys

\* One setting that replaces whatever is there, and one that does not.
LEMMA OverwriteTo ==
  ASSUME NEW p \in Properties, NEW ks \in SUBSET Keys, NEW x \in Strings
  PROVE  /\ Overwrite(p, To(ks, x)) \in Properties
         /\ \A k \in ks : Overwrite(p, To(ks, x))[k] = <<x>>
         /\ \A k \in Keys \ ks : Overwrite(p, To(ks, x))[k] = p[k]
         /\ ks \subseteq Managed => Extends(p, Overwrite(p, To(ks, x)))
<1> DEFINE f == To(ks, x)
<1>1. Update(f) /\ DOMAIN f = ks /\ \A k \in ks : f[k] = <<x>>
  BY ToIsUpdate
<1> HIDE DEF f
<1>2. /\ Overwrite(p, f) \in Properties
      /\ \A k \in Keys : Overwrite(p, f)[k] = IF k \in DOMAIN f THEN f[k] ELSE p[k]
      /\ DOMAIN f \subseteq Managed => Extends(p, Overwrite(p, f))
  BY <1>1, OverwriteKeys, OverwriteExtends
<1>3. /\ Overwrite(p, f) \in Properties
      /\ \A k \in ks : Overwrite(p, f)[k] = <<x>>
      /\ \A k \in Keys \ ks : Overwrite(p, f)[k] = p[k]
      /\ ks \subseteq Managed => Extends(p, Overwrite(p, f))
  BY <1>1, <1>2
<1> QED BY <1>3 DEF f

LEMMA SetTo ==
  ASSUME NEW p \in Properties, NEW ks \in SUBSET Keys, NEW x \in Strings
  PROVE  /\ SetIfAbsent(p, To(ks, x)) \in Properties
         /\ \A k \in ks : SetIfAbsent(p, To(ks, x))[k] = IF p[k] = <<>> THEN <<x>> ELSE p[k]
         /\ \A k \in ks : SetIfAbsent(p, To(ks, x))[k] # <<>>
         /\ \A k \in Keys \ ks : SetIfAbsent(p, To(ks, x))[k] = p[k]
         /\ Extends(p, SetIfAbsent(p, To(ks, x)))
<1> DEFINE f == To(ks, x)
<1>1. Update(f) /\ DOMAIN f = ks /\ \A k \in ks : f[k] = <<x>>
  BY ToIsUpdate
<1> HIDE DEF f
<1>2. /\ SetIfAbsent(p, f) \in Properties
      /\ \A k \in Keys :
           SetIfAbsent(p, f)[k] = IF k \in DOMAIN f /\ p[k] = <<>> THEN f[k] ELSE p[k]
      /\ Extends(p, SetIfAbsent(p, f))
  BY <1>1, SetIfAbsentKeys, SetIfAbsentExtends
<1>3. <<x>> # <<>>
  BY OneText
<1>4. /\ SetIfAbsent(p, f) \in Properties
      /\ \A k \in ks : SetIfAbsent(p, f)[k] = IF p[k] = <<>> THEN <<x>> ELSE p[k]
      /\ \A k \in ks : SetIfAbsent(p, f)[k] # <<>>
      /\ \A k \in Keys \ ks : SetIfAbsent(p, f)[k] = p[k]
      /\ Extends(p, SetIfAbsent(p, f))
  BY <1>1, <1>2, <1>3
<1> QED BY <1>4 DEF f

LEMMA AppendTo ==
  ASSUME NEW p \in Properties, NEW ks \in SUBSET Keys, NEW x \in Strings
  PROVE  /\ AppendAll(p, To(ks, x)) \in Properties
         /\ \A k \in Keys \ ks : AppendAll(p, To(ks, x))[k] = p[k]
         /\ Extends(p, AppendAll(p, To(ks, x)))
<1> DEFINE f == To(ks, x)
<1>1. Update(f) /\ DOMAIN f = ks
  BY ToIsUpdate
<1> HIDE DEF f
<1>2. /\ AppendAll(p, f) \in Properties
      /\ \A k \in Keys : AppendAll(p, f)[k] = IF k \in DOMAIN f THEN p[k] \o f[k] ELSE p[k]
      /\ Extends(p, AppendAll(p, f))
  BY <1>1, AppendAllKeys, AppendAllExtends
<1>3. /\ AppendAll(p, f) \in Properties
      /\ \A k \in Keys \ ks : AppendAll(p, f)[k] = p[k]
      /\ Extends(p, AppendAll(p, f))
  BY <1>1, <1>2
<1> QED BY <1>3 DEF f


\* The application goes to the front of the jars; the rest is extended at most.
Grown(p, q, app) ==
  /\ q \in Properties
  /\ \A k \in Keys \ (Managed \union {"spark.jars"}) :
       \E u \in Seq(Strings) : q[k] = p[k] \o u
  /\ q["spark.jars"] \in {p["spark.jars"], <<app>> \o p["spark.jars"]}
     \/ p["spark.jars"] \in Blank

\* A later stage: the jars stay as they are.
Later(p, q) ==
  /\ q \in Properties
  /\ Extends(p, q)
  /\ q["spark.jars"] = p["spark.jars"]

\* Nothing the security settings are decided by has changed.
Kept(p, q) == \A k \in CoreKeys : q[k] = p[k]

LEMMA LaterItself == ASSUME NEW p \in Properties PROVE Later(p, p) /\ Kept(p, p)
BY ExtendsItself DEF Later, Kept

LEMMA LaterTransitive ==
  ASSUME NEW p \in Properties, NEW q \in Properties, NEW r \in Properties,
         Later(p, q), Later(q, r)
  PROVE  Later(p, r)
BY ExtendsTransitive DEF Later

LEMMA GrownLater ==
  ASSUME NEW p \in Properties, NEW q \in Properties, NEW r \in Properties, NEW app,
         Grown(p, q, app), Later(q, r)
  PROVE  Grown(p, r, app)
<1>1. \A k \in Keys \ (Managed \union {"spark.jars"}) :
        \E u \in Seq(Strings) : r[k] = p[k] \o u
  <2> SUFFICES ASSUME NEW k \in Keys \ (Managed \union {"spark.jars"})
               PROVE  \E u \in Seq(Strings) : r[k] = p[k] \o u
    OBVIOUS
  <2>1. PICK v \in Seq(Strings) : q[k] = p[k] \o v
    BY DEF Grown
  <2>2. PICK w \in Seq(Strings) : r[k] = q[k] \o w
    BY DEF Later, Extends
  <2>3. p[k] \in Seq(Strings)
    BY NothingAdded
  <2>4. (p[k] \o v) \o w = p[k] \o (v \o w) /\ v \o w \in Seq(Strings)
    <3> DEFINE x == p[k]
    <3>1. x \in Seq(Strings)
      BY <2>3
    <3> HIDE DEF x
    <3>2. (x \o v) \o w = x \o (v \o w) /\ v \o w \in Seq(Strings)
      BY <3>1, ConcatAssociative, ConcatProperties
    <3> QED BY <3>2 DEF x
  <2>5. r[k] = p[k] \o (v \o w)
    BY <2>1, <2>2, <2>4
  <2> QED BY <2>4, <2>5
<1> QED BY <1>1 DEF Grown, Later

LEMMA ApplicationStage ==
  ASSUME NEW p \in Properties, NEW c \in CommandType
  PROVE  Grown(p, ApplicationProps(p, c), c.app) /\ Kept(p, ApplicationProps(p, c))
<1> DEFINE q == Overwrite(p, To({"spark.submit.deployMode"}, "cluster"))
           r == Overwrite(q, To({"spark.master"}, "mesos"))
           s == IF c.lang = "scala"
                THEN [r EXCEPT !["spark.jars"] =
                        IF @ \in Blank THEN <<c.app>> ELSE <<c.app>> \o @]
                ELSE r
           t == SetIfAbsent(s, To({"spark.app.name"}, MainClass(c)))
<1>0. ApplicationProps(p, c) = t
  BY DEF ApplicationProps, To
<1>1. /\ {"spark.submit.deployMode"} \in SUBSET Keys /\ {"spark.master"} \in SUBSET Keys
      /\ {"spark.app.name"} \in SUBSET Keys /\ "cluster" \in Strings /\ "mesos" \in Strings
      /\ {"spark.submit.deployMode"} \subseteq Managed /\ {"spark.master"} \subseteq Managed
  BY LiteralsAssumption DEF Keys, ValueKeys, Literals, Managed
<1>2. MainClass(c) \in Strings /\ c.app \in Strings
  BY CommandParts, BaseNameAssumption DEF MainClass
<1>3. q \in Properties /\ \A k \in Keys \ {"spark.submit.deployMode"} : q[k] = p[k]
  BY <1>1, OverwriteTo
<1>4. r \in Properties /\ \A k \in Keys \ {"spark.master"} : r[k] = q[k]
  <2> HIDE DEF q
  <2> QED BY <1>1, <1>3, OverwriteTo
<1> HIDE DEF q
<1>5. /\ s \in Properties /\ \A k \in Keys \ {"spark.jars"} : s[k] = r[k]
      /\ s["spark.jars"] \in {r["spark.jars"], <<c.app>> \o r["spark.jars"]}
         \/ r["spark.jars"] \in Blank
  <2> HIDE DEF r
  <2>1. r["spark.jars"] \in Seq(Strings) /\ "spark.jars" \in Keys
    BY <1>4, KeyPlaces DEF Properties
  <2>2. <<c.app>> \in Seq(Strings) /\ <<c.app>> \o r["spark.jars"] \in Seq(Strings)
    BY <1>2, <2>1, OneText, ConcatProperties
  <2> QED BY <1>4, <2>1, <2>2 DEF Properties
<1> HIDE DEF r
<1>6. /\ t \in Properties /\ \A k \in Keys \ {"spark.app.name"} : t[k] = s[k]
      /\ Extends(s, t)
  <2> HIDE DEF s
  <2> QED BY <1>1, <1>2, <1>5, SetTo
<1> HIDE DEF s, t
<1>7. Kept(p, t)
  <2>1. /\ CoreKeys \subseteq Keys
        /\ CoreKeys \intersect {"spark.submit.deployMode", "spark.master", "spark.jars",
                                "spark.app.name"} = {}
    BY KeyPlaces, SecretKeys DEF CoreKeys, Passwords
  <2> QED BY <2>1, <1>3, <1>4, <1>5, <1>6 DEF Kept
<1>8. Grown(p, t, c.app)
  <2>1. \A k \in Keys \ (Managed \union {"spark.jars"}) : s[k] = p[k]
    BY <1>1, <1>3, <1>4, <1>5
  <2>2. /\ t["spark.jars"] = s["spark.jars"] /\ r["spark.jars"] = p["spark.jars"]
    BY <1>3, <1>4, <1>6, KeyPlaces
  <2>3. \A k \in Keys \ (Managed \union {"spark.jars"}) :
          \E u \in Seq(Strings) : t[k] = p[k] \o u
    BY <2>1, <1>6 DEF Extends
  <2> QED BY <2>2, <2>3, <1>5, <1>6 DEF Grown
<1> QED BY <1>0, <1>7, <1>8


LEMMA DispatcherParts ==
  ASSUME NEW d \in DispatcherType
  PROVE  d.image \in Strings /\ d.id \in Strings /\ d.hdfs \in Strings /\ d.krb5 \in Strings
BY DEF DispatcherType

LEMMA ImageStage ==
  ASSUME NEW p \in Properties, NEW c \in CommandType, NEW d \in DispatcherType
  PROVE  Later(p, ImageProps(p, c, d)) /\ Kept(p, ImageProps(p, c, d))
<1> DEFINE force == "spark.mesos.executor.docker.forcePullImage"
           q == SetIfAbsent(p, To({ImageKey}, ChosenImage(c, d)))
           r == SetIfAbsent(q, To({force}, "true"))
<1>1. /\ {ImageKey} \in SUBSET Keys /\ {force} \in SUBSET Keys /\ "true" \in Strings
      /\ ImageKey \notin CoreKeys \union {"spark.jars"}
      /\ force \notin CoreKeys \union {"spark.jars"}
  BY LiteralsAssumption, SecretKeys
     DEF Keys, ValueKeys, Literals, ImageKey, CoreKeys, Passwords
<1>2. ChosenImage(c, d) \in Strings
  BY CommandParts, DispatcherParts DEF ChosenImage
<1>3. q \in Properties /\ Extends(p, q) /\ \A k \in Keys \ {ImageKey} : q[k] = p[k]
  BY <1>1, <1>2, SetTo
<1>4. r \in Properties /\ Extends(q, r) /\ \A k \in Keys \ {force} : r[k] = q[k]
  <2> HIDE DEF q, force
  <2> QED BY <1>1, <1>3, SetTo
<1> HIDE DEF q, r, force
<1>5. Extends(p, r)
  BY <1>3, <1>4, ExtendsTransitive
<1>6. \A k \in CoreKeys \union {"spark.jars"} : r[k] = p[k]
  BY <1>1, <1>3, <1>4, KeyPlaces
<1>7. ImageProps(p, c, d) = r
  BY DEF ImageProps, q, r, force
<1> QED BY <1>4, <1>5, <1>6, <1>7 DEF Later, Kept

LEMMA SpaceStage ==
  ASSUME NEW p \in Properties, NEW d \in DispatcherType
  PROVE  Later(p, SpaceProps(p, d)) /\ Kept(p, SpaceProps(p, d))
<1> DEFINE labels == {"spark.mesos.driver.labels", "spark.mesos.task.labels"}
           q == AppendAll(p, To(labels, d.id))
<1>1. labels \in SUBSET Keys /\ labels \intersect (CoreKeys \union {"spark.jars"}) = {}
  BY SecretKeys DEF Keys, ListKeys, CoreKeys, Passwords
<1> HIDE DEF labels
<1>2. q \in Properties /\ Extends(p, q) /\ \A k \in Keys \ labels : q[k] = p[k]
  BY <1>1, DispatcherParts, AppendTo
<1> HIDE DEF q
<1>3. \A k \in CoreKeys \union {"spark.jars"} : q[k] = p[k]
  BY <1>1, <1>2, KeyPlaces
<1>4. SpaceProps(p, d) = q
  BY DEF SpaceProps, q, labels
<1> QED BY <1>2, <1>3, <1>4 DEF Later, Kept

LEMMA HdfsStage ==
  ASSUME NEW p \in Properties, NEW d \in DispatcherType
  PROVE  Later(p, HdfsProps(p, d)) /\ Kept(p, HdfsProps(p, d))
<1> DEFINE f == [k \in {"spark.mesos.uris"} |-> <<"hdfs-site.xml", "core-site.xml">>]
           q == AppendAll(p, f)
<1>1. /\ "spark.mesos.uris" \in Keys
      /\ "spark.mesos.uris" \notin CoreKeys \union {"spark.jars"}
  BY SecretKeys DEF Keys, ListKeys, CoreKeys, Passwords
<1>2. <<"hdfs-site.xml", "core-site.xml">> \in Seq(Strings)
  <2>1. "hdfs-site.xml" \in Strings /\ "core-site.xml" \in Strings
    BY LiteralsAssumption DEF Literals
  <2> QED BY <2>1
<1>3. Update(f) /\ DOMAIN f = {"spark.mesos.uris"}
  BY <1>1, <1>2 DEF Update
<1> HIDE DEF f
<1>4. /\ q \in Properties /\ Extends(p, q)
      /\ \A k \in Keys : q[k] = IF k \in DOMAIN f THEN p[k] \o f[k] ELSE p[k]
  BY <1>3, AppendAllKeys, AppendAllExtends
<1> HIDE DEF q
<1>5. \A k \in CoreKeys \union {"spark.jars"} : q[k] = p[k]
  BY <1>1, <1>3, <1>4, KeyPlaces
<1>6. HdfsProps(p, d) = IF d.hdfs = "" THEN p ELSE q
  BY DEF HdfsProps, q, f
<1>7. Later(p, q) /\ Kept(p, q)
  BY <1>4, <1>5 DEF Later, Kept
<1> QED BY <1>6, <1>7, LaterItself


------------------------------------------------------------------------------
(* Lists of secrets that are zipped. *)

Zipped(a, b) == {<<a[i], b[i]>> : i \in DOMAIN a \intersect DOMAIN b}

Joined(a, x, m) == m = a \o x

LEMMA JoinedItems ==
  ASSUME NEW a \in Seq(Strings), NEW x \in Seq(Strings), NEW m, Joined(a, x, m)
  PROVE  /\ m \in Seq(Strings) /\ Len(m) = Len(a) + Len(x)
         /\ \A i \in 1 .. Len(a) + Len(x) :
              m[i] = IF i <= Len(a) THEN a[i] ELSE x[i - Len(a)]
<1>1. /\ a \o x \in Seq(Strings) /\ Len(a \o x) = Len(a) + Len(x)
      /\ \A i \in 1 .. Len(a) + Len(x) :
           (a \o x)[i] = IF i <= Len(a) THEN a[i] ELSE x[i - Len(a)]
  BY ConcatProperties
<1> QED BY <1>1 DEF Joined

LEMMA ZippedGrow ==
  ASSUME NEW a \in Seq(Strings), NEW b \in Seq(Strings),
         NEW x \in Seq(Strings), NEW y \in Seq(Strings),
         NEW m, NEW n, Joined(a, x, m), Joined(b, y, n),
         Len(a) = Len(b), Len(x) = Len(y)
  PROVE  /\ Len(m) = Len(n) /\ Len(m) = Len(a) + Len(x)
         /\ Zipped(a, b) \subseteq Zipped(m, n)
         /\ \A i \in 1 .. Len(x) : <<x[i], y[i]>> \in Zipped(m, n)
<1>1. /\ Len(a) \in Nat /\ Len(x) \in Nat /\ Len(b) \in Nat /\ Len(y) \in Nat
      /\ DOMAIN a = 1 .. Len(a) /\ DOMAIN b = 1 .. Len(b)
  BY LenProperties
<1>2. /\ m \in Seq(Strings) /\ Len(m) = Len(a) + Len(x)
      /\ \A i \in 1 .. Len(a) + Len(x) :
           m[i] = IF i <= Len(a) THEN a[i] ELSE x[i - Len(a)]
  BY JoinedItems
<1>6. /\ n \in Seq(Strings) /\ Len(n) = Len(b) + Len(y)
      /\ \A i \in 1 .. Len(b) + Len(y) :
           n[i] = IF i <= Len(b) THEN b[i] ELSE y[i - Len(b)]
  BY JoinedItems
<1>3. DOMAIN m = 1 .. Len(m) /\ DOMAIN n = 1 .. Len(n)
  BY <1>2, <1>6, LenProperties
<1>4. Zipped(a, b) \subseteq Zipped(m, n)
  <2> SUFFICES ASSUME NEW i \in 1 .. Len(a)
               PROVE  <<a[i], b[i]>> \in Zipped(m, n)
    BY <1>1 DEF Zipped
  <2>1. i \in DOMAIN m \intersect DOMAIN n /\ m[i] = a[i] /\ n[i] = b[i]
    BY <1>1, <1>2, <1>3, <1>6
  <2> QED BY <2>1 DEF Zipped
<1>5. \A i \in 1 .. Len(x) : <<x[i], y[i]>> \in Zipped(m, n)
  <2> SUFFICES ASSUME NEW i \in 1 .. Len(x)
               PROVE  <<x[i], y[i]>> \in Zipped(m, n)
    OBVIOUS
  <2> DEFINE j == i + Len(a)
  <2>2. j \in 1 .. Len(a) + Len(x) /\ ~(j <= Len(a)) /\ j - Len(a) = i
    BY <1>1
  <2>3. m[j] = x[i] /\ j \in DOMAIN m
    BY <1>2, <1>3, <2>2
  <2>4. n[j] = y[i] /\ j \in DOMAIN n
    BY <1>3, <1>6, <2>2
  <2>1. j \in DOMAIN m \intersect DOMAIN n /\ m[j] = x[i] /\ n[j] = y[i]
    BY <2>3, <2>4
  <2> HIDE DEF j
  <2> QED BY <2>1 DEF Zipped
<1> QED BY <1>1, <1>2, <1>4, <1>5, <1>6

\* A stage adds these secrets, and as many environment keys where it adds any.
SecretsAdded(p, q, paths, files) ==
  /\ \A k \in SecretNames : q[k] = p[k] \o paths
  /\ \A k \in SecretFiles : q[k] = p[k] \o files
  /\ \A k \in SecretEnvs : p[k] = <<>> => q[k] = <<>>
  /\ \A k \in SecretEnvs : p[k] # <<>> =>
       \E e \in Seq(Strings) : Len(e) = Len(paths) /\ q[k] = p[k] \o e

LEMMA SecretsStay ==
  ASSUME NEW p \in Properties, NEW q \in Properties, SinksMatch(p),
         NEW paths \in Seq(Strings), NEW files \in Seq(Strings),
         Len(paths) = Len(files), SecretsAdded(p, q, paths, files)
  PROVE  /\ SinksMatch(q)
         /\ \A t \in TaskTypes :
              /\ Zipped(p[NamesOf[t]], p[FilesOf[t]])
                   \subseteq Zipped(q[NamesOf[t]], q[FilesOf[t]])
              /\ \A i \in 1 .. Len(paths) :
                   <<paths[i], files[i]>> \in Zipped(q[NamesOf[t]], q[FilesOf[t]])
<1>1. SUFFICES ASSUME NEW t \in TaskTypes
               PROVE  /\ Len(q[NamesOf[t]]) = Len(q[FilesOf[t]])
                      /\ q[EnvKeysOf[t]] # <<>> =>
                           Len(q[EnvKeysOf[t]]) = Len(q[NamesOf[t]])
                      /\ Zipped(p[NamesOf[t]], p[FilesOf[t]])
                           \subseteq Zipped(q[NamesOf[t]], q[FilesOf[t]])
                      /\ \A i \in 1 .. Len(paths) :
                           <<paths[i], files[i]>>
                             \in Zipped(q[NamesOf[t]], q[FilesOf[t]])
  BY DEF SinksMatch
<1> DEFINE a == p[NamesOf[t]]
           b == p[FilesOf[t]]
           e == p[EnvKeysOf[t]]
           x == q[NamesOf[t]]
           y == q[FilesOf[t]]
           z == q[EnvKeysOf[t]]
<1>2. NamesOf[t] \in SecretNames /\ FilesOf[t] \in SecretFiles /\ EnvKeysOf[t] \in SecretEnvs
  BY SecretKeys
<1>3. a \in Seq(Strings) /\ b \in Seq(Strings) /\ e \in Seq(Strings)
  BY <1>2, KeyPlaces DEF Properties
<1>4. Joined(a, paths, x) /\ Joined(b, files, y)
  BY <1>2 DEF SecretsAdded, Joined
<1>5. Len(a) = Len(b) /\ (e # <<>> => Len(e) = Len(a))
  BY DEF SinksMatch
<1>6. \/ e = <<>> /\ z = <<>>
      \/ e # <<>> /\ \E v \in Seq(Strings) : Len(v) = Len(paths) /\ z = e \o v
  BY <1>2 DEF SecretsAdded
<1> HIDE DEF a, b, e, x, y, z
<1>7. /\ Len(x) = Len(y) /\ Len(x) = Len(a) + Len(paths)
      /\ Zipped(a, b) \subseteq Zipped(x, y)
      /\ \A i \in 1 .. Len(paths) : <<paths[i], files[i]>> \in Zipped(x, y)
  BY <1>3, <1>4, <1>5, ZippedGrow
<1>8. z # <<>> => Len(z) = Len(x)
  BY <1>3, <1>5, <1>6, <1>7, ConcatProperties
<1> QED BY <1>7, <1>8 DEF a, b, e, x, y, z


SecretLists == SecretNames \union SecretFiles \union SecretEnvs

\* Changes of other keys before and after do not matter.
LEMMA SecretsAddedBetween ==
  ASSUME NEW p, NEW p1, NEW q1, NEW q, NEW paths, NEW files,
         \A k \in SecretLists : p1[k] = p[k],
         \A k \in SecretLists : q[k] = q1[k],
         SecretsAdded(p1, q1, paths, files)
  PROVE  SecretsAdded(p, q, paths, files)
BY DEF SecretsAdded, SecretLists

LEMMA AddedIsSecrets ==
  ASSUME NEW p \in Properties, NEW q, NEW paths \in Seq(Strings), NEW files \in Seq(Strings),
         NEW envs \in Seq(Strings), Added(p, q, paths, files, envs), Len(envs) = Len(paths)
  PROVE  /\ SecretsAdded(p, q, paths, files)
         /\ Later(p, q)
         /\ \A k \in Keys \ SecretLists : q[k] = p[k]
<1>1. SecretsAdded(p, q, paths, files)
  BY DEF Added, SecretsAdded
<1>2. Extends(p, q)
  BY AddSecretsExtends
<1>3. "spark.jars" \notin SecretLists /\ "spark.jars" \in Keys
  BY KeyPlaces DEF SecretLists, CoreKeys
<1>4. \A k \in Keys \ SecretLists : q[k] = p[k]
  BY DEF Added, SecretLists
<1> QED BY <1>1, <1>2, <1>3, <1>4 DEF Later, Added

\* The keys the security stages write, besides the lists of secrets.
LEMMA SecurityKeys ==
  /\ SecretLists \subseteq Keys /\ SecretLists \intersect Managed = {}
  /\ SecretLists \intersect Passwords = {} /\ SecretLists \intersect KdcKeys = {}
  /\ "spark.jars" \notin SecretLists \union Managed \union Passwords \union KdcKeys
  /\ Managed \subseteq Keys /\ Passwords \subseteq Keys /\ KdcKeys \subseteq Keys
  /\ Managed \intersect (Passwords \union KdcKeys) = {} /\ Passwords \intersect KdcKeys = {}
  /\ "spark.jars" \in Keys
<1>1. Passwords \intersect KdcKeys = {} /\ SecretLists \intersect Passwords = {}
  BY SecretKeys DEF Passwords, KdcKeys, SecretLists
<1>2. SecretLists \subseteq ListKeys
  BY DEF SecretLists, ListKeys
<1> QED BY <1>1, <1>2, KeyPlaces DEF CoreKeys, SecretLists

LEMMA OneItem ==
  ASSUME NEW x \in Strings
  PROVE  <<x>> \in Seq(Strings) /\ Len(<<x>>) = 1 /\ <<x>>[1] = x
BY OneText

LEMMA TicketStage ==
  ASSUME NEW p \in Properties, NEW path \in Strings, NEW key \in Managed
  PROVE  /\ Later(p, TicketSecret(p, path, key))
         /\ SecretsAdded(p, TicketSecret(p, path, key), <<path>>, <<SecretFile(path)>>)
         /\ TicketSecret(p, path, key)[key] = <<SecretFile(path)>>
         /\ \A k \in Keys \ (SecretLists \union {key}) : TicketSecret(p, path, key)[k] = p[k]
<1> DEFINE paths == <<path>>
           files == <<SecretFile(path)>>
           envs  == <<"DCOS_SPARK_KERBEROS_KEYTAB">>
           q == AddSecrets(p, paths, files, envs)
           r == Overwrite(q, To({key}, SecretFile(path)))
<1>1. SecretFile(path) \in Strings /\ "DCOS_SPARK_KERBEROS_KEYTAB" \in Strings
  BY SecretFileAssumption, LiteralsAssumption DEF Literals
<1>2. /\ paths \in Seq(Strings) /\ files \in Seq(Strings) /\ envs \in Seq(Strings)
      /\ Len(envs) = Len(paths)
  BY <1>1, OneItem
<1>3. TicketSecret(p, path, key) = r
  BY DEF TicketSecret
<1> HIDE DEF paths, envs
<1>4. SecretFile(path) \in Strings /\ files \in Seq(Strings) /\ files = <<SecretFile(path)>>
  BY <1>1, <1>2
<1> HIDE DEF files
<1>5. Added(p, q, paths, files, envs)
  BY <1>2, AddSecretsKeys
<1> HIDE DEF q
<1>6. /\ SecretsAdded(p, q, paths, files) /\ Later(p, q)
      /\ \A k \in Keys \ SecretLists : q[k] = p[k]
  BY <1>2, <1>5, AddedIsSecrets
<1>7. q \in Properties /\ {key} \in SUBSET Keys /\ {key} \subseteq Managed
  BY <1>6, SecurityKeys DEF Later
<1>8. /\ r \in Properties /\ r[key] = <<SecretFile(path)>> /\ Extends(q, r)
      /\ \A k \in Keys \ {key} : r[k] = q[k]
  BY <1>1, <1>7, OverwriteTo
<1> HIDE DEF r
<1>9. \A k \in SecretLists \union {"spark.jars"} : r[k] = q[k]
  BY <1>8, SecurityKeys
<1>10. Later(q, r)
  BY <1>8, <1>9 DEF Later
<1>11. Later(p, r)
  BY <1>6, <1>7, <1>8, <1>10, LaterTransitive
<1>12. SecretsAdded(p, r, paths, files)
  BY <1>6, <1>9 DEF SecretsAdded, SecretLists
<1>13. \A k \in Keys \ (SecretLists \union {key}) : r[k] = p[k]
  BY <1>6, <1>8
<1> QED BY <1>3, <1>8, <1>11, <1>12, <1>13 DEF paths, files


\* setupKerberosAuthArgs up to the secret: the principal, the KDC and the
\* containerizer.
WithKdc(p, c, d) ==
  LET q == Overwrite(p, To({"spark.yarn.principal"}, c.principal))
  IN  Mesos(IF d.krb5 = "" THEN q ELSE SetIfAbsent(q, To(KdcKeys, d.krb5)))

LEMMA KdcStage ==
  ASSUME NEW p \in Properties, NEW c \in CommandType, NEW d \in DispatcherType
  PROVE  /\ Later(p, WithKdc(p, c, d))
         /\ WithKdc(p, c, d)["spark.mesos.containerizer"] = <<"mesos">>
         /\ WithKdc(p, c, d)["spark.yarn.principal"] = <<c.principal>>
         /\ d.krb5 # "" => \A k \in KdcKeys : WithKdc(p, c, d)[k] # <<>>
         /\ \A k \in SecretLists \union Passwords : WithKdc(p, c, d)[k] = p[k]
<1> DEFINE q == Overwrite(p, To({"spark.yarn.principal"}, c.principal))
           s == SetIfAbsent(q, To(KdcKeys, d.krb5))
           r == IF d.krb5 = "" THEN q ELSE s
           m == Overwrite(r, To({"spark.mesos.containerizer"}, "mesos"))
<1>0. /\ c.principal \in Strings /\ d.krb5 \in Strings /\ "mesos" \in Strings
      /\ "spark.yarn.principal" \in Managed /\ "spark.mesos.containerizer" \in Managed
  BY CommandParts, DispatcherParts, LiteralsAssumption DEF Literals, Managed
<1>1. /\ {"spark.yarn.principal"} \in SUBSET Keys /\ {"spark.yarn.principal"} \subseteq Managed
      /\ {"spark.mesos.containerizer"} \in SUBSET Keys
      /\ {"spark.mesos.containerizer"} \subseteq Managed /\ KdcKeys \in SUBSET Keys
  BY <1>0, SecurityKeys
<1>2. /\ q \in Properties /\ Extends(p, q)
      /\ q["spark.yarn.principal"] = <<c.principal>>
      /\ \A k \in Keys \ {"spark.yarn.principal"} : q[k] = p[k]
  <2> DEFINE x  == c.principal
             ks == {"spark.yarn.principal"}
             o  == Overwrite(p, To(ks, x))
  <2>1. x \in Strings /\ ks \in SUBSET Keys /\ ks \subseteq Managed
    BY <1>0, <1>1
  <2>2. "spark.yarn.principal" \in ks
    OBVIOUS
  <2> HIDE DEF x, ks
  <2>3. /\ o \in Properties /\ Extends(p, o)
        /\ \A k \in ks : o[k] = <<x>>
        /\ \A k \in Keys \ ks : o[k] = p[k]
    BY <2>1, OverwriteTo
  <2>4. o["spark.yarn.principal"] = <<x>>
    BY <2>2, <2>3
  <2> QED BY <2>3, <2>4 DEF x, ks
<1> HIDE DEF q
<1>3. /\ s \in Properties /\ Extends(q, s) /\ \A k \in KdcKeys : s[k] # <<>>
      /\ \A k \in Keys \ KdcKeys : s[k] = q[k]
  BY <1>0, <1>1, <1>2, SetTo
<1> HIDE DEF s
<1>4. /\ r \in Properties /\ Extends(q, r)
      /\ d.krb5 # "" => \A k \in KdcKeys : r[k] # <<>>
      /\ \A k \in Keys \ KdcKeys : r[k] = q[k]
  BY <1>2, <1>3, ExtendsItself
<1> HIDE DEF r
<1>5. /\ m \in Properties /\ Extends(r, m)
      /\ m["spark.mesos.containerizer"] = <<"mesos">>
      /\ \A k \in Keys \ {"spark.mesos.containerizer"} : m[k] = r[k]
  BY <1>0, <1>1, <1>4, OverwriteTo
<1> HIDE DEF m
<1>6. Extends(p, m)
  BY <1>2, <1>4, <1>5, ExtendsTransitive
<1>7. \A k \in SecretLists \union Passwords \union {"spark.jars"} : m[k] = p[k]
  BY <1>0, <1>2, <1>4, <1>5, SecurityKeys
<1>8. d.krb5 # "" => \A k \in KdcKeys : m[k] # <<>>
  BY <1>0, <1>4, <1>5, SecurityKeys
<1>9. WithKdc(p, c, d) = m
  BY DEF WithKdc, Mesos, q, s, r, m
<1>10. m["spark.yarn.principal"] = q["spark.yarn.principal"]
  <2>1. /\ "spark.yarn.principal" \in Keys \ KdcKeys
        /\ "spark.yarn.principal" \in Keys \ {"spark.mesos.containerizer"}
    BY <1>0, SecurityKeys
  <2> QED BY <1>4, <1>5, <2>1
<1> QED BY <1>2, <1>5, <1>6, <1>7, <1>8, <1>9, <1>10 DEF Later

\* The ticket by value: a file name without the name of a secret.
LEMMA TicketByValue ==
  ASSUME NEW p \in Properties, NEW c \in CommandType
  PROVE  LET file == FilesOf["driver"]
             key  == "spark.mesos.driverEnv.KRB5CCNAME"
             a    == AppendAll(p, To({"spark.mesos.driver.secret.values"}, c.tgtValue))
             q    == Overwrite(AppendAll(a, To({file}, "tgt.base64")), To({key}, "tgt"))
         IN  /\ Later(p, q)
             /\ \A k \in Managed \ {key} : q[k] = p[k]
             /\ \A k \in KdcKeys \union Passwords : q[k] = p[k]
<1> DEFINE file  == FilesOf["driver"]
           value == "spark.mesos.driver.secret.values"
           key   == "spark.mesos.driverEnv.KRB5CCNAME"
           a == AppendAll(p, To({value}, c.tgtValue))
           b == AppendAll(a, To({file}, "tgt.base64"))
           q == Overwrite(b, To({key}, "tgt"))
<1>1. /\ c.tgtValue \in Strings /\ "tgt.base64" \in Strings /\ "tgt" \in Strings
      /\ value \in ListKeys /\ value # "spark.jars" /\ value \notin Passwords \union KdcKeys
      /\ key \in Managed /\ file \in SecretLists
  BY CommandParts, LiteralsAssumption, SecretKeys
     DEF Literals, ListKeys, Managed, SecretLists, Passwords, KdcKeys
<1>2. /\ {value} \in SUBSET Keys /\ {file} \in SUBSET Keys /\ {key} \in SUBSET Keys
      /\ {key} \subseteq Managed /\ value \notin Managed
  BY <1>1, SecurityKeys, KeyPlaces
<1> HIDE DEF file, value, key
<1>3. a \in Properties /\ Extends(p, a) /\ \A k \in Keys \ {value} : a[k] = p[k]
  BY <1>1, <1>2, AppendTo
<1> HIDE DEF a
<1>4. b \in Properties /\ Extends(a, b) /\ \A k \in Keys \ {file} : b[k] = a[k]
  BY <1>1, <1>2, <1>3, AppendTo
<1> HIDE DEF b
<1>5. q \in Properties /\ Extends(b, q) /\ \A k \in Keys \ {key} : q[k] = b[k]
  BY <1>1, <1>2, <1>4, OverwriteTo
<1> HIDE DEF q
<1>6. Extends(p, q)
  BY <1>3, <1>4, <1>5, ExtendsTransitive
<1>7. \A k \in {"spark.jars"} \union (Managed \ {key}) \union KdcKeys \union Passwords :
        q[k] = p[k]
  BY <1>1, <1>2, <1>3, <1>4, <1>5, SecurityKeys
<1> QED BY <1>5, <1>6, <1>7 DEF Later, file, value, key, a, b, q


\* A stage adds secrets, among them this one, and the key names its file.
SecretPut(p, q, path, key) ==
  \E paths \in Seq(Strings), files \in Seq(Strings) :
    /\ Len(paths) = Len(files) /\ SecretsAdded(p, q, paths, files)
    /\ \E i \in 1 .. Len(paths) : paths[i] = path /\ q[key] = <<files[i]>>

MountedIn(p, t) == Zipped(p[NamesOf[t]], p[FilesOf[t]])

Placed(p, path, key) == \A t \in TaskTypes : <<path, p[key][1]>> \in MountedIn(p, t)

LEMMA PutIsPlaced ==
  ASSUME NEW p \in Properties, NEW q \in Properties, SinksMatch(p),
         NEW path, NEW key, SecretPut(p, q, path, key)
  PROVE  /\ SinksMatch(q) /\ Placed(q, path, key)
         /\ \A t \in TaskTypes : MountedIn(p, t) \subseteq MountedIn(q, t)
<1>1. PICK paths \in Seq(Strings), files \in Seq(Strings) :
        /\ Len(paths) = Len(files) /\ SecretsAdded(p, q, paths, files)
        /\ \E i \in 1 .. Len(paths) : paths[i] = path /\ q[key] = <<files[i]>>
  BY DEF SecretPut
<1>2. PICK i \in 1 .. Len(paths) : paths[i] = path /\ q[key] = <<files[i]>>
  BY <1>1
<1>3. q[key][1] = files[i]
  BY <1>2
<1>4. /\ SinksMatch(q)
      /\ \A t \in TaskTypes :
           /\ Zipped(p[NamesOf[t]], p[FilesOf[t]])
                \subseteq Zipped(q[NamesOf[t]], q[FilesOf[t]])
           /\ \A j \in 1 .. Len(paths) :
                <<paths[j], files[j]>> \in Zipped(q[NamesOf[t]], q[FilesOf[t]])
  BY <1>1, SecretsStay
<1>5. \A t \in TaskTypes : <<path, files[i]>> \in Zipped(q[NamesOf[t]], q[FilesOf[t]])
  BY <1>2, <1>4
<1>6. Placed(q, path, key)
  BY <1>3, <1>5 DEF Placed, MountedIn
<1> QED BY <1>4, <1>6 DEF MountedIn

LEMMA StaysPlaced ==
  ASSUME NEW p, NEW q, NEW path, NEW key, Placed(p, path, key), q[key] = p[key],
         \A t \in TaskTypes : MountedIn(p, t) \subseteq MountedIn(q, t)
  PROVE  Placed(q, path, key)
BY DEF Placed

LEMMA OnePut ==
  ASSUME NEW p, NEW q, NEW path \in Strings, NEW file \in Strings, NEW key,
         SecretsAdded(p, q, <<path>>, <<file>>), q[key] = <<file>>
  PROVE  SecretPut(p, q, path, key)
<1> DEFINE paths == <<path>>
           files == <<file>>
<1>1. /\ paths \in Seq(Strings) /\ files \in Seq(Strings) /\ Len(paths) = 1 /\ Len(files) = 1
      /\ paths[1] = path /\ files[1] = file /\ SecretsAdded(p, q, paths, files)
  BY OneItem
<1> HIDE DEF paths, files
<1>2. \E i \in 1 .. Len(paths) : paths[i] = path /\ q[key] = <<files[i]>>
  BY <1>1
<1> QED BY <1>1, <1>2 DEF SecretPut

\* A flag that is given.
Named(x) == x # ""

\* One text as the value of a key.
Single(p, key, x) == p[key] = <<x>>

KerberosDone(p, q, c, d) ==
  /\ Later(p, q)
  /\ Single(q, "spark.mesos.containerizer", "mesos")
  /\ Single(q, "spark.yarn.principal", c.principal)
  /\ Named(d.krb5) => \A k \in KdcKeys : q[k] # <<>>
  /\ \A k \in Passwords : q[k] = p[k]
  /\ Named(c.keytab) => SecretPut(p, q, c.keytab, "spark.yarn.keytab")
  /\ ~Named(c.keytab) /\ Named(c.tgt) =>
       SecretPut(p, q, c.tgt, "spark.mesos.driverEnv.KRB5CCNAME")

LEMMA KerberosStage ==
  ASSUME NEW p \in Properties, NEW c \in CommandType, NEW d \in DispatcherType
  PROVE  KerberosDone(p, KerberosProps(p, c, d), c, d)
<1> DEFINE r    == WithKdc(p, c, d)
           home == "spark.mesos.driverEnv.KRB5CCNAME"
           name == "spark.yarn.principal"
           a    == AppendAll(r, To({"spark.mesos.driver.secret.values"}, c.tgtValue))
           b    == Overwrite(AppendAll(a, To({FilesOf["driver"]}, "tgt.base64")),
                             To({home}, "tgt"))
<1>1. /\ c.keytab \in Strings /\ c.tgt \in Strings
      /\ SecretFile(c.keytab) \in Strings /\ SecretFile(c.tgt) \in Strings
      /\ "spark.yarn.keytab" \in Managed /\ home \in Managed
      /\ "spark.mesos.containerizer" \in Managed \ {"spark.yarn.keytab", home}
      /\ name \in Managed \ {"spark.yarn.keytab", home}
  BY CommandParts, SecretFileAssumption DEF Managed
<1>2. /\ Later(p, r) /\ r \in Properties
      /\ r["spark.mesos.containerizer"] = <<"mesos">> /\ r[name] = <<c.principal>>
      /\ d.krb5 # "" => \A k \in KdcKeys : r[k] # <<>>
      /\ \A k \in SecretLists \union Passwords : r[k] = p[k]
  BY KdcStage DEF Later
<1>3. KerberosProps(p, c, d) =
        CASE c.keytab # "" -> TicketSecret(r, c.keytab, "spark.yarn.keytab")
          [] c.keytab = "" /\ c.tgt # "" -> TicketSecret(r, c.tgt, home)
          [] OTHER -> b
  BY DEF KerberosProps, WithKdc
<1> HIDE DEF r, name
\* A ticket in a file, whichever it is.
<1>4. ASSUME NEW path \in Strings, SecretFile(path) \in Strings,
             NEW key \in {"spark.yarn.keytab", home},
             NEW q, q = TicketSecret(r, path, key)
      PROVE  /\ Later(p, q) /\ q["spark.mesos.containerizer"] = <<"mesos">>
             /\ q[name] = r[name]
             /\ d.krb5 # "" => \A k \in KdcKeys : q[k] # <<>>
             /\ \A k \in Passwords : q[k] = p[k]
             /\ SecretPut(p, q, path, key)
  <2>1. key \in Managed
    BY <1>1
  <2>2. /\ Later(r, q) /\ SecretsAdded(r, q, <<path>>, <<SecretFile(path)>>)
        /\ q[key] = <<SecretFile(path)>>
        /\ \A k \in Keys \ (SecretLists \union {key}) : q[k] = r[k]
    BY <1>2, <1>4, <2>1, TicketStage
  <2>3. Later(p, q)
    BY <1>2, <2>2, LaterTransitive DEF Later
  <2>4. \A k \in {"spark.mesos.containerizer", name} \union KdcKeys \union Passwords : q[k] = r[k]
    BY <1>1, <2>1, <2>2, SecurityKeys
  <2>5. SecretsAdded(p, q, <<path>>, <<SecretFile(path)>>)
    BY <1>2, <2>2 DEF SecretsAdded, SecretLists
  <2>6. SecretPut(p, q, path, key)
    BY <1>4, <2>2, <2>5, OnePut
  <2> QED BY <1>2, <2>3, <2>4, <2>6, SecurityKeys
<1>5. CASE c.keytab # ""
  <2> DEFINE q == TicketSecret(r, c.keytab, "spark.yarn.keytab")
  <2>1. KerberosProps(p, c, d) = q
    BY <1>3, <1>5
  <2> HIDE DEF b
  <2>2. /\ Later(p, q) /\ q["spark.mesos.containerizer"] = <<"mesos">>
        /\ q[name] = r[name]
        /\ d.krb5 # "" => \A k \in KdcKeys : q[k] # <<>>
        /\ \A k \in Passwords : q[k] = p[k]
        /\ SecretPut(p, q, c.keytab, "spark.yarn.keytab")
    BY <1>1, <1>4
  <2> QED BY <1>2, <1>5, <2>1, <2>2 DEF KerberosDone, Named, Single, name
<1>6. CASE c.keytab = "" /\ c.tgt # ""
  <2> DEFINE q == TicketSecret(r, c.tgt, home)
  <2>1. KerberosProps(p, c, d) = q
    BY <1>3, <1>6
  <2> HIDE DEF b
  <2>2. /\ Later(p, q) /\ q["spark.mesos.containerizer"] = <<"mesos">>
        /\ q[name] = r[name]
        /\ d.krb5 # "" => \A k \in KdcKeys : q[k] # <<>>
        /\ \A k \in Passwords : q[k] = p[k]
        /\ SecretPut(p, q, c.tgt, home)
    BY <1>1, <1>4
  <2> QED BY <1>2, <1>6, <2>1, <2>2 DEF KerberosDone, Named, Single, name
<1>7. CASE c.keytab = "" /\ c.tgt = ""
  <2>1. /\ Later(r, b) /\ \A k \in Managed \ {home} : b[k] = r[k]
        /\ \A k \in KdcKeys \union Passwords : b[k] = r[k]
    BY <1>2, TicketByValue
  <2>2. Later(p, b)
    BY <1>2, <2>1, LaterTransitive DEF Later
  <2>3. b["spark.mesos.containerizer"] = <<"mesos">> /\ b[name] = <<c.principal>>
    BY <1>1, <1>2, <2>1
  <2> HIDE DEF b
  <2>4. KerberosProps(p, c, d) = b
    BY <1>3, <1>7
  <2> QED BY <1>2, <1>7, <2>1, <2>2, <2>3, <2>4 DEF KerberosDone, Named, Single, name
<1> QED BY <1>5, <1>6, <1>7


\* Not empty, unless it was given as the empty text before.
Filled(p, q, k) == q[k] # <<>> /\ (q[k] = <<"">> => p[k] = <<"">>)

LEMMA SetIsFilled ==
  ASSUME NEW p \in Properties, NEW k \in Keys, NEW x \in Strings, x # ""
  PROVE  Filled(p, SetIfAbsent(p, To({k}, x)), k)
<1> DEFINE ks == {k}
           q  == SetIfAbsent(p, To(ks, x))
<1>1. ks \in SUBSET Keys /\ k \in ks
  OBVIOUS
<1> HIDE DEF ks
<1>2. q[k] # <<>> /\ q[k] = IF p[k] = <<>> THEN <<x>> ELSE p[k]
  BY <1>1, SetTo
<1>3. <<x>> # <<"">>
  <2>1. <<x>>[1] = x /\ <<"">>[1] = ""
    OBVIOUS
  <2> QED BY <2>1
<1> HIDE DEF q
<1>4. Filled(p, q, k)
  BY <1>2, <1>3 DEF Filled
<1> QED BY <1>4 DEF q, ks

LEMMA FilledBetween ==
  ASSUME NEW p, NEW p1, NEW q1, NEW q, NEW k, p1[k] = p[k], q[k] = q1[k], Filled(p1, q1, k)
  PROVE  Filled(p, q, k)
BY DEF Filled

LEMMA OverwriteOne ==
  ASSUME NEW p \in Properties, NEW key \in Keys, NEW x \in Strings, key \in Managed
  PROVE  /\ Overwrite(p, To({key}, x)) \in Properties
         /\ Overwrite(p, To({key}, x))[key] = <<x>>
         /\ \A k \in Keys \ {key} : Overwrite(p, To({key}, x))[k] = p[k]
         /\ Extends(p, Overwrite(p, To({key}, x)))
<1> DEFINE ks == {key}
           q  == Overwrite(p, To(ks, x))
<1>1. ks \in SUBSET Keys /\ ks \subseteq Managed /\ key \in ks
  OBVIOUS
<1> HIDE DEF ks
<1>2. /\ q \in Properties
      /\ \A k \in ks : q[k] = <<x>>
      /\ \A k \in Keys \ ks : q[k] = p[k]
      /\ ks \subseteq Managed => Extends(p, q)
  BY <1>1, OverwriteTo
<1> HIDE DEF q
<1>3. q \in Properties /\ q[key] = <<x>> /\ Extends(p, q)
  BY <1>1, <1>2
<1>4. \A k \in Keys \ {key} : q[k] = p[k]
  BY <1>2 DEF ks
<1> QED BY <1>3, <1>4 DEF q, ks

\* setupTLSArgs up to the secrets.
WithStores(p, c) ==
  LET q == Overwrite(Overwrite(Mesos(p), To({"spark.ssl.enabled"}, "true")),
                     To({"spark.ssl.keystore"}, "server.jks"))
  IN  IF c.truststore # ""
      THEN SetIfAbsent(Overwrite(q, To({"spark.ssl.trustStore"}, "trust.jks")),
                       To({"spark.ssl.trustStorePassword"}, c.truststorePassword))
      ELSE q

\* What the Kerberos settings leave behind and nothing after them touches.
TicketKeys ==
  {"spark.yarn.principal", "spark.yarn.keytab", "spark.mesos.driverEnv.KRB5CCNAME"}
    \union KdcKeys

LEMMA TlsKeys ==
  /\ {"spark.mesos.containerizer"} \in SUBSET Keys /\ {"spark.ssl.enabled"} \in SUBSET Keys
  /\ {"spark.ssl.keystore"} \in SUBSET Keys /\ {"spark.ssl.trustStore"} \in SUBSET Keys
  /\ {"spark.mesos.containerizer", "spark.ssl.enabled", "spark.ssl.keystore",
      "spark.ssl.trustStore"} \subseteq Managed
  /\ Passwords \union {"spark.ssl.protocol"} \subseteq Keys \ (Managed \union SecretLists)
  /\ "spark.ssl.protocol" \notin Passwords
  /\ TicketKeys \intersect ({"spark.mesos.containerizer", "spark.ssl.enabled",
       "spark.ssl.keystore", "spark.ssl.trustStore", "spark.jars"} \union SecretLists
         \union Passwords \union {"spark.ssl.protocol"}) = {}
  /\ TicketKeys \subseteq Keys
  /\ "spark.jars" \notin SecretLists \union Managed \union Passwords \union {"spark.ssl.protocol"}
<1>1. /\ {"spark.mesos.containerizer", "spark.ssl.enabled", "spark.ssl.keystore",
          "spark.ssl.trustStore", "spark.yarn.principal", "spark.yarn.keytab",
          "spark.mesos.driverEnv.KRB5CCNAME"} \subseteq Managed
      /\ "spark.ssl.protocol" \notin Managed \union Passwords \union KdcKeys \union ListKeys
      /\ "spark.ssl.protocol" \in Keys
  BY SecretKeys DEF Managed, Passwords, SaslKeys, KdcKeys, ListKeys, Keys, ValueKeys
<1>2. SecretLists \subseteq ListKeys
  BY DEF SecretLists, ListKeys
<1>3. TicketKeys \intersect {"spark.mesos.containerizer", "spark.ssl.enabled",
       "spark.ssl.keystore", "spark.ssl.trustStore", "spark.jars", "spark.ssl.protocol"} = {}
  BY DEF TicketKeys, KdcKeys
<1> QED BY <1>1, <1>2, <1>3, SecurityKeys DEF TicketKeys

LEMMA StoresStage ==
  ASSUME NEW p \in Properties, NEW c \in CommandType, TlsValid(c)
  PROVE  /\ Later(p, WithStores(p, c))
         /\ WithStores(p, c)["spark.mesos.containerizer"] = <<"mesos">>
         /\ WithStores(p, c)["spark.ssl.keystore"] = <<"server.jks">>
         /\ c.truststore # "" =>
              /\ WithStores(p, c)["spark.ssl.trustStore"] = <<"trust.jks">>
              /\ Filled(p, WithStores(p, c), "spark.ssl.trustStorePassword")
         /\ \A k \in TicketKeys \union SecretLists
                       \union (Passwords \ {"spark.ssl.trustStorePassword"}) :
              WithStores(p, c)[k] = p[k]
<1> DEFINE box   == "spark.mesos.containerizer"
           on    == "spark.ssl.enabled"
           key   == "spark.ssl.keystore"
           trust == "spark.ssl.trustStore"
           pass  == "spark.ssl.trustStorePassword"
           m == Overwrite(p, To({box}, "mesos"))
           n == Overwrite(m, To({on}, "true"))
           q == Overwrite(n, To({key}, "server.jks"))
           s == Overwrite(q, To({trust}, "trust.jks"))
           t == SetIfAbsent(s, To({pass}, c.truststorePassword))
<1>0. WithStores(p, c) = IF c.truststore # "" THEN t ELSE q
  BY DEF WithStores, Mesos
<1>1. /\ {pass} \in SUBSET Keys /\ pass \in Passwords /\ pass \in Keys
      /\ box \in Keys /\ on \in Keys /\ key \in Keys /\ trust \in Keys
      /\ box \in Managed /\ on \in Managed /\ key \in Managed /\ trust \in Managed
      /\ box \notin {on, key, trust, pass} /\ on \notin {key, trust, pass}
      /\ key \notin {trust, pass} /\ trust # pass
  BY TlsKeys DEF Passwords
<1>2. /\ "mesos" \in Strings /\ "true" \in Strings /\ "server.jks" \in Strings
      /\ "trust.jks" \in Strings /\ c.truststorePassword \in Strings
      /\ c.truststore # "" => c.truststorePassword # ""
  BY LiteralsAssumption, CommandParts DEF Literals, TlsValid
<1> DEFINE Rest == TicketKeys \union SecretLists \union (Passwords \ {pass})
                     \union {"spark.jars"}
<1>11. Rest \subseteq Keys /\ Rest \intersect {box, on, key, trust, pass} = {}
  <2>1. TicketKeys \intersect {box, on, key, trust, pass} = {} /\ TicketKeys \subseteq Keys
    BY <1>1, TlsKeys
  <2>2. /\ SecretLists \intersect {box, on, key, trust, pass} = {} /\ SecretLists \subseteq Keys
        /\ (Passwords \ {pass}) \intersect {box, on, key, trust, pass} = {}
        /\ Passwords \subseteq Keys
        /\ "spark.jars" \in Keys \ {box, on, key, trust, pass}
    BY <1>1, SecurityKeys
  <2> QED BY <2>1, <2>2
<1>12. TicketKeys \union SecretLists \union (Passwords \ {pass}) \subseteq Rest
       /\ "spark.jars" \in Rest
  OBVIOUS
<1> HIDE DEF box, on, key, trust, pass, Rest
<1>3. /\ m \in Properties /\ Extends(p, m) /\ m[box] = <<"mesos">>
      /\ \A k \in Keys \ {box} : m[k] = p[k]
  BY <1>1, <1>2, OverwriteOne
<1> HIDE DEF m
<1>4. n \in Properties /\ Extends(m, n) /\ \A k \in Keys \ {on} : n[k] = m[k]
  BY <1>1, <1>2, <1>3, OverwriteOne
<1> HIDE DEF n
<1>5. /\ q \in Properties /\ Extends(n, q) /\ q[key] = <<"server.jks">>
      /\ \A k \in Keys \ {key} : q[k] = n[k]
  BY <1>1, <1>2, <1>4, OverwriteOne
<1> HIDE DEF q
<1>6. /\ s \in Properties /\ Extends(q, s) /\ s[trust] = <<"trust.jks">>
      /\ \A k \in Keys \ {trust} : s[k] = q[k]
  BY <1>1, <1>2, <1>5, OverwriteOne
<1> HIDE DEF s
<1>7. /\ t \in Properties /\ Extends(s, t) /\ \A k \in Keys \ {pass} : t[k] = s[k]
  BY <1>1, <1>2, <1>6, SetTo
<1>8. c.truststore # "" => Filled(s, t, pass)
  BY <1>1, <1>2, <1>6, SetIsFilled
<1> HIDE DEF t
<1>9. Extends(p, q) /\ Extends(p, t)
  BY <1>3, <1>4, <1>5, <1>6, <1>7, ExtendsTransitive
<1>10. /\ q[box] = <<"mesos">> /\ t[box] = <<"mesos">> /\ t[key] = <<"server.jks">>
       /\ t[trust] = <<"trust.jks">> /\ s[pass] = p[pass]
  BY <1>1, <1>3, <1>4, <1>5, <1>6, <1>7
<1>13. \A k \in Rest : q[k] = p[k] /\ t[k] = p[k]
  BY <1>3, <1>4, <1>5, <1>6, <1>7, <1>11
<1>14. Later(p, q) /\ Later(p, t)
  BY <1>5, <1>7, <1>9, <1>12, <1>13 DEF Later
<1>15. c.truststore # "" => Filled(p, t, pass)
  BY <1>8, <1>10, FilledBetween
<1>16. CASE c.truststore # ""
  <2>1. WithStores(p, c) = t
    BY <1>0, <1>16
  <2> QED BY <1>7, <1>10, <1>12, <1>13, <1>14, <1>15, <1>16, <2>1 DEF box, key, trust, pass
<1>17. CASE c.truststore = ""
  <2>1. WithStores(p, c) = q
    BY <1>0, <1>17
  <2> QED BY <1>5, <1>10, <1>12, <1>13, <1>14, <1>17, <2>1 DEF box, key, trust, pass
<1> QED BY <1>16, <1>17


Alone(a) == <<a>> \o <<>>

Both(a, b) == <<a>> \o <<b>>

LEMMA AloneItems ==
  ASSUME NEW a \in Strings
  PROVE  Alone(a) \in Seq(Strings) /\ Len(Alone(a)) = 1 /\ Alone(a)[1] = a
<1> DEFINE x == <<a>>
<1>1. x \in Seq(Strings) /\ Len(x) = 1 /\ x[1] = a
  BY OneItem
<1> HIDE DEF x
<1>2. x \o <<>> = x
  BY <1>1, ConcatEmptySeq
<1> QED BY <1>1, <1>2 DEF x, Alone

LEMMA BothItems ==
  ASSUME NEW a \in Strings, NEW b \in Strings
  PROVE  /\ Both(a, b) \in Seq(Strings) /\ Len(Both(a, b)) = 2
         /\ Both(a, b)[1] = a /\ Both(a, b)[2] = b
<1> DEFINE m == Both(a, b)
           x == <<a>>
           y == <<b>>
<1>1. /\ x \in Seq(Strings) /\ Len(x) = 1 /\ x[1] = a
      /\ y \in Seq(Strings) /\ Len(y) = 1 /\ y[1] = b
  BY OneItem
<1>2. Joined(x, y, m)
  BY DEF Joined, Both
<1> HIDE DEF x, y, m
<1>3. /\ m \in Seq(Strings) /\ Len(m) = Len(x) + Len(y)
      /\ \A i \in 1 .. Len(x) + Len(y) :
           m[i] = IF i <= Len(x) THEN x[i] ELSE y[i - Len(x)]
  BY <1>1, <1>2, JoinedItems
<1>4. m \in Seq(Strings) /\ Len(m) = 2 /\ m[1] = a /\ m[2] = b
  BY <1>1, <1>3
<1> QED BY <1>4 DEF m

\* Secrets whose files other keys name already.
LEMMA ListsPut ==
  ASSUME NEW r \in Properties, NEW paths \in Seq(Strings), NEW files \in Seq(Strings),
         NEW envs \in Seq(Strings), Len(files) = Len(paths), Len(envs) = Len(paths)
  PROVE  /\ Later(r, AddSecrets(r, paths, files, envs))
         /\ \A k \in Keys \ SecretLists : AddSecrets(r, paths, files, envs)[k] = r[k]
         /\ \A k \in Keys \ SecretLists, i \in 1 .. Len(paths) :
              r[k] = <<files[i]>> =>
                SecretPut(r, AddSecrets(r, paths, files, envs), paths[i], k)
<1> DEFINE s == AddSecrets(r, paths, files, envs)
<1>1. Added(r, s, paths, files, envs)
  BY AddSecretsKeys
<1> HIDE DEF s
<1>2. /\ SecretsAdded(r, s, paths, files) /\ Later(r, s)
      /\ \A k \in Keys \ SecretLists : s[k] = r[k]
  BY <1>1, AddedIsSecrets
<1>3. ASSUME NEW k \in Keys \ SecretLists, NEW i \in 1 .. Len(paths), r[k] = <<files[i]>>
      PROVE  SecretPut(r, s, paths[i], k)
  <2>1. s[k] = <<files[i]>>
    BY <1>2, <1>3
  <2>2. \E j \in 1 .. Len(paths) : paths[j] = paths[i] /\ s[k] = <<files[j]>>
    BY <2>1
  <2> QED BY <1>2, <2>2 DEF SecretPut
<1> QED BY <1>2, <1>3 DEF s

\* The two stores as secrets.
StoreSecrets(r, c) ==
  LET If(s) == IF c.truststore # "" THEN s ELSE <<>>
  IN  AddSecrets(r, <<c.keystore>> \o If(<<c.truststore>>),
                 <<"server.jks">> \o If(<<"trust.jks">>),
                 <<"DCOS_SPARK_KEYSTORE">> \o If(<<"DCOS_SPARK_TRUSTSTORE">>))

LEMMA StoreSecretsStage ==
  ASSUME NEW r \in Properties, NEW c \in CommandType,
         Single(r, "spark.ssl.keystore", "server.jks"),
         Named(c.truststore) => Single(r, "spark.ssl.trustStore", "trust.jks")
  PROVE  /\ Later(r, StoreSecrets(r, c))
         /\ SecretPut(r, StoreSecrets(r, c), c.keystore, "spark.ssl.keystore")
         /\ Named(c.truststore) =>
              SecretPut(r, StoreSecrets(r, c), c.truststore, "spark.ssl.trustStore")
         /\ \A k \in Keys \ SecretLists : StoreSecrets(r, c)[k] = r[k]
<1>1. /\ c.keystore \in Strings /\ c.truststore \in Strings /\ "server.jks" \in Strings
      /\ "trust.jks" \in Strings /\ "DCOS_SPARK_KEYSTORE" \in Strings
      /\ "DCOS_SPARK_TRUSTSTORE" \in Strings
  BY CommandParts, LiteralsAssumption DEF Literals
<1>2. {"spark.ssl.keystore", "spark.ssl.trustStore"} \subseteq Keys \ SecretLists
  BY TlsKeys, SecurityKeys
<1>3. CASE ~Named(c.truststore)
  <2> DEFINE paths == Alone(c.keystore)
             files == Alone("server.jks")
             envs  == Alone("DCOS_SPARK_KEYSTORE")
             s     == AddSecrets(r, paths, files, envs)
  <2>1. StoreSecrets(r, c) = s
    BY <1>3 DEF StoreSecrets, Alone, Named
  <2>2. /\ paths \in Seq(Strings) /\ files \in Seq(Strings) /\ envs \in Seq(Strings)
        /\ Len(paths) = 1 /\ Len(files) = 1 /\ Len(envs) = 1
        /\ paths[1] = c.keystore /\ files[1] = "server.jks"
    BY <1>1, AloneItems
  <2> HIDE DEF paths, files, envs
  <2>3. /\ Later(r, s) /\ \A k \in Keys \ SecretLists : s[k] = r[k]
        /\ \A k \in Keys \ SecretLists, i \in 1 .. Len(paths) :
             r[k] = <<files[i]>> => SecretPut(r, s, paths[i], k)
    BY <2>2, ListsPut
  <2> HIDE DEF s
  <2>4. SecretPut(r, s, paths[1], "spark.ssl.keystore")
    <3>1. r["spark.ssl.keystore"] = <<files[1]>>
      BY <2>2, Zenon DEF Single
    <3>2. 1 \in 1 .. Len(paths) /\ "spark.ssl.keystore" \in Keys \ SecretLists
      BY <1>2, <2>2
    <3> QED BY <2>3, <3>1, <3>2
  <2> QED BY <1>3, <2>1, <2>2, <2>3, <2>4
<1>4. CASE Named(c.truststore)
  <2> DEFINE paths == Both(c.keystore, c.truststore)
             files == Both("server.jks", "trust.jks")
             envs  == Both("DCOS_SPARK_KEYSTORE", "DCOS_SPARK_TRUSTSTORE")
             s     == AddSecrets(r, paths, files, envs)
  <2>1. StoreSecrets(r, c) = s
    BY <1>4 DEF StoreSecrets, Both, Named
  <2>6. /\ paths \in Seq(Strings) /\ Len(paths) = 2
        /\ paths[1] = c.keystore /\ paths[2] = c.truststore
    <3> DEFINE x == c.keystore
               y == c.truststore
    <3>1. x \in Strings /\ y \in Strings
      BY <1>1
    <3> HIDE DEF x, y
    <3>2. /\ Both(x, y) \in Seq(Strings) /\ Len(Both(x, y)) = 2
          /\ Both(x, y)[1] = x /\ Both(x, y)[2] = y
      BY <3>1, BothItems
    <3> QED BY <3>2 DEF x, y
  <2>7. /\ files \in Seq(Strings) /\ Len(files) = 2
        /\ files[1] = "server.jks" /\ files[2] = "trust.jks"
    BY <1>1, BothItems
  <2>8. envs \in Seq(Strings) /\ Len(envs) = 2
    BY <1>1, BothItems
  <2>2. /\ paths \in Seq(Strings) /\ files \in Seq(Strings) /\ envs \in Seq(Strings)
        /\ Len(paths) = 2 /\ Len(files) = 2 /\ Len(envs) = 2
        /\ paths[1] = c.keystore /\ files[1] = "server.jks"
        /\ paths[2] = c.truststore /\ files[2] = "trust.jks"
    BY <2>6, <2>7, <2>8, Zenon
  <2> HIDE DEF paths, files, envs
  <2>3. /\ Later(r, s) /\ \A k \in Keys \ SecretLists : s[k] = r[k]
        /\ \A k \in Keys \ SecretLists, i \in 1 .. Len(paths) :
             r[k] = <<files[i]>> => SecretPut(r, s, paths[i], k)
    BY <2>2, ListsPut
  <2> HIDE DEF s
  <2>4. SecretPut(r, s, paths[1], "spark.ssl.keystore")
    <3>1. r["spark.ssl.keystore"] = <<files[1]>>
      BY <2>2, Zenon DEF Single
    <3>2. 1 \in 1 .. Len(paths) /\ "spark.ssl.keystore" \in Keys \ SecretLists
      BY <1>2, <2>2
    <3> QED BY <2>3, <3>1, <3>2
  <2>5. SecretPut(r, s, paths[2], "spark.ssl.trustStore")
    <3>1. r["spark.ssl.trustStore"] = <<files[2]>>
      BY <1>4, <2>2, Zenon DEF Single
    <3>2. 2 \in 1 .. Len(paths) /\ "spark.ssl.trustStore" \in Keys \ SecretLists
      BY <1>2, <2>2
    <3> QED BY <2>3, <3>1, <3>2
  <2> QED BY <1>4, <2>1, <2>2, <2>3, <2>4, <2>5
<1> QED BY <1>3, <1>4

\* The passwords and the protocol, where the user has not set them.
WithPasswords(s, c) ==
  LET t == SetIfAbsent(s, To({"spark.ssl.keyStorePassword"}, c.keystorePassword))
      u == SetIfAbsent(t, To({"spark.ssl.keyPassword"}, c.keyPassword))
  IN  SetIfAbsent(u, To({"spark.ssl.protocol"}, "TLS"))

LEMMA PasswordsStage ==
  ASSUME NEW s \in Properties, NEW c \in CommandType, TlsValid(c)
  PROVE  /\ Later(s, WithPasswords(s, c))
         /\ Filled(s, WithPasswords(s, c), "spark.ssl.keyStorePassword")
         /\ Filled(s, WithPasswords(s, c), "spark.ssl.keyPassword")
         /\ \A k \in TicketKeys \union SecretLists \union Managed
                       \union {"spark.ssl.trustStorePassword"} :
              WithPasswords(s, c)[k] = s[k]
<1> DEFINE one   == "spark.ssl.keyStorePassword"
           two   == "spark.ssl.keyPassword"
           three == "spark.ssl.protocol"
           last  == "spark.ssl.trustStorePassword"
           t == SetIfAbsent(s, To({one}, c.keystorePassword))
           u == SetIfAbsent(t, To({two}, c.keyPassword))
           v == SetIfAbsent(u, To({three}, "TLS"))
           Rest == TicketKeys \union SecretLists \union Managed \union {last, "spark.jars"}
<1>1. /\ one \in Keys /\ two \in Keys /\ {one} \in SUBSET Keys /\ {two} \in SUBSET Keys
      /\ {three} \in SUBSET Keys /\ last \in Keys
      /\ one \notin {two, three, last} /\ two \notin {three, last} /\ three # last
      /\ one \in Passwords /\ two \in Passwords /\ last \in Passwords
  BY TlsKeys DEF Passwords
<1>2. /\ c.keystorePassword \in Strings /\ c.keystorePassword # "" /\ c.keyPassword \in Strings
      /\ c.keyPassword # "" /\ "TLS" \in Strings
  BY CommandParts, LiteralsAssumption DEF Literals, TlsValid
<1>3. Rest \subseteq Keys /\ Rest \intersect {one, two, three} = {}
  <2>1. TicketKeys \intersect {one, two, three} = {} /\ TicketKeys \subseteq Keys
    BY <1>1, TlsKeys
  <2>2. /\ (SecretLists \union Managed) \intersect {one, two, three} = {}
        /\ SecretLists \union Managed \subseteq Keys
    BY <1>1, TlsKeys, SecurityKeys
  <2>3. "spark.jars" \in Keys /\ "spark.jars" \notin {one, two, three}
    BY SecurityKeys
  <2> QED BY <1>1, <2>1, <2>2, <2>3
<1>4. /\ TicketKeys \union SecretLists \union Managed \union {last} \subseteq Rest
      /\ "spark.jars" \in Rest
  OBVIOUS
<1>5. WithPasswords(s, c) = v
  BY DEF WithPasswords
<1> HIDE DEF one, two, three, last, Rest
<1>6. /\ t \in Properties /\ Extends(s, t) /\ \A k \in Keys \ {one} : t[k] = s[k]
  BY <1>1, <1>2, SetTo
<1>7. Filled(s, t, one)
  BY <1>1, <1>2, SetIsFilled
<1> HIDE DEF t
<1>8. /\ u \in Properties /\ Extends(t, u) /\ \A k \in Keys \ {two} : u[k] = t[k]
  BY <1>1, <1>2, <1>6, SetTo
<1>9. Filled(t, u, two)
  BY <1>1, <1>2, <1>6, SetIsFilled
<1> HIDE DEF u
<1>10. /\ v \in Properties /\ Extends(u, v) /\ \A k \in Keys \ {three} : v[k] = u[k]
  BY <1>1, <1>2, <1>8, SetTo
<1> HIDE DEF v
<1>11. Extends(s, v)
  BY <1>6, <1>8, <1>10, ExtendsTransitive
<1>12. Filled(s, v, one)
  <2>1. v[one] = t[one]
    BY <1>1, <1>8, <1>10
  <2> QED BY <2>1, <1>7, FilledBetween
<1>13. Filled(s, v, two)
  <2>1. v[two] = u[two] /\ t[two] = s[two]
    BY <1>1, <1>6, <1>10
  <2> QED BY <2>1, <1>9, FilledBetween
<1>14. \A k \in Rest : v[k] = s[k]
  BY <1>3, <1>6, <1>8, <1>10
<1>15. Later(s, v)
  BY <1>4, <1>10, <1>11, <1>14 DEF Later
<1> QED BY <1>4, <1>5, <1>12, <1>13, <1>14, <1>15 DEF one, two, last


LEMMA PutBetween ==
  ASSUME NEW p, NEW p1, NEW q1, NEW q, NEW path, NEW key,
         \A k \in SecretLists : p1[k] = p[k],
         \A k \in SecretLists : q[k] = q1[k],
         q[key] = q1[key], SecretPut(p1, q1, path, key)
  PROVE  SecretPut(p, q, path, key)
<1>1. PICK paths \in Seq(Strings), files \in Seq(Strings) :
        /\ Len(paths) = Len(files) /\ SecretsAdded(p1, q1, paths, files)
        /\ \E i \in 1 .. Len(paths) : paths[i] = path /\ q1[key] = <<files[i]>>
  BY DEF SecretPut
<1>2. SecretsAdded(p, q, paths, files)
  BY <1>1, SecretsAddedBetween
<1> QED BY <1>1, <1>2 DEF SecretPut

TlsDone(p, q, c) ==
  /\ Later(p, q)
  /\ Single(q, "spark.mesos.containerizer", "mesos")
  /\ \A k \in TicketKeys : q[k] = p[k]
  /\ Filled(p, q, "spark.ssl.keyStorePassword") /\ Filled(p, q, "spark.ssl.keyPassword")
  /\ Named(c.truststore) => Filled(p, q, "spark.ssl.trustStorePassword")
  /\ SecretPut(p, q, c.keystore, "spark.ssl.keystore")
  /\ Named(c.truststore) => SecretPut(p, q, c.truststore, "spark.ssl.trustStore")

LEMMA TlsStage ==
  ASSUME NEW p \in Properties, NEW c \in CommandType, TlsValid(c)
  PROVE  TlsDone(p, TlsProps(p, c), c)
<1> DEFINE r == WithStores(p, c)
           s == StoreSecrets(r, c)
           q == WithPasswords(s, c)
           box   == "spark.mesos.containerizer"
           trust == "spark.ssl.trustStorePassword"
<1>1. TlsProps(p, c) = q
  BY DEF TlsProps, WithStores, StoreSecrets, WithPasswords
<1>2. /\ Later(p, r) /\ Single(r, box, "mesos")
      /\ Single(r, "spark.ssl.keystore", "server.jks")
      /\ Named(c.truststore) =>
           Single(r, "spark.ssl.trustStore", "trust.jks") /\ Filled(p, r, trust)
      /\ \A k \in TicketKeys \union SecretLists \union (Passwords \ {trust}) : r[k] = p[k]
  <2>1. /\ Later(p, r) /\ r[box] = <<"mesos">> /\ r["spark.ssl.keystore"] = <<"server.jks">>
        /\ c.truststore # "" => r["spark.ssl.trustStore"] = <<"trust.jks">>
                                /\ Filled(p, r, trust)
        /\ \A k \in TicketKeys \union SecretLists \union (Passwords \ {trust}) : r[k] = p[k]
    BY StoresStage
  <2> HIDE DEF r
  <2> QED BY <2>1, Zenon DEF Single, Named
<1> HIDE DEF r
<1>3. r \in Properties
  BY <1>2 DEF Later
<1>4. /\ Later(r, s) /\ SecretPut(r, s, c.keystore, "spark.ssl.keystore")
      /\ Named(c.truststore) => SecretPut(r, s, c.truststore, "spark.ssl.trustStore")
      /\ \A k \in Keys \ SecretLists : s[k] = r[k]
  BY <1>2, <1>3, StoreSecretsStage
<1> HIDE DEF s
<1>5. s \in Properties
  BY <1>4 DEF Later
<1>6. /\ Later(s, q)
      /\ Filled(s, q, "spark.ssl.keyStorePassword") /\ Filled(s, q, "spark.ssl.keyPassword")
      /\ \A k \in TicketKeys \union SecretLists \union Managed \union {trust} : q[k] = s[k]
  BY <1>5, PasswordsStage
<1> HIDE DEF q
<1>7. Later(p, q)
  <2>1. Later(p, s)
    BY <1>2, <1>3, <1>4, <1>5, LaterTransitive
  <2> QED BY <2>1, <1>5, <1>6, LaterTransitive DEF Later
<1>8. /\ box \in Managed \ SecretLists /\ box \in Keys
      /\ "spark.ssl.keystore" \in Managed /\ "spark.ssl.trustStore" \in Managed
      /\ TicketKeys \subseteq Keys \ SecretLists /\ trust \in Keys \ SecretLists
      /\ {"spark.ssl.keyStorePassword", "spark.ssl.keyPassword"}
           \subseteq (Passwords \ {trust}) \intersect (Keys \ SecretLists)
  BY TlsKeys, SecurityKeys DEF Passwords
<1>9. Single(q, box, "mesos")
  <2>1. q[box] = r[box]
    BY <1>4, <1>6, <1>8
  <2> QED BY <2>1, <1>2 DEF Single
<1>10. \A k \in TicketKeys : q[k] = p[k]
  BY <1>2, <1>4, <1>6, <1>8
<1>11. Filled(p, q, "spark.ssl.keyStorePassword") /\ Filled(p, q, "spark.ssl.keyPassword")
  <2>1. \A k \in {"spark.ssl.keyStorePassword", "spark.ssl.keyPassword"} : s[k] = p[k]
    BY <1>2, <1>4, <1>8
  <2> QED BY <2>1, <1>6 DEF Filled
<1>12. Named(c.truststore) => Filled(p, q, trust)
  <2>1. q[trust] = r[trust]
    BY <1>4, <1>6, <1>8
  <2> QED BY <2>1, <1>2 DEF Filled
<1>13. /\ \A k \in SecretLists : r[k] = p[k] /\ q[k] = s[k]
       /\ q["spark.ssl.keystore"] = s["spark.ssl.keystore"]
       /\ q["spark.ssl.trustStore"] = s["spark.ssl.trustStore"]
  BY <1>2, <1>6, <1>8
<1>14. SecretPut(p, q, c.keystore, "spark.ssl.keystore")
  BY <1>4, <1>13, PutBetween
<1>15. Named(c.truststore) => SecretPut(p, q, c.truststore, "spark.ssl.trustStore")
  BY <1>4, <1>13, PutBetween
<1> QED BY <1>1, <1>7, <1>9, <1>10, <1>11, <1>12, <1>14, <1>15 DEF TlsDone, box, trust


StoreKeys == {"spark.ssl.keystore", "spark.ssl.trustStore"}

\* What earlier stages leave behind and the SASL settings do not touch.
EarlierKeys == TicketKeys \union Passwords \union StoreKeys

LEMMA SaslKeyPlaces ==
  /\ "spark.mesos.containerizer" \in Managed /\ SaslKeys \subseteq Managed
  /\ {"spark.authenticate.secret", "spark.executorEnv._SPARK_AUTH_SECRET"} \subseteq Managed
  /\ {"spark.authenticate.secret.file",
      "spark.executorEnv._SPARK_AUTH_SECRET_FILE"} \subseteq Managed
  /\ EarlierKeys \subseteq Keys \ SecretLists
  /\ EarlierKeys \intersect ({"spark.mesos.containerizer"} \union SaslKeys
       \union {"spark.authenticate.secret", "spark.executorEnv._SPARK_AUTH_SECRET"}
       \union {"spark.authenticate.secret.file",
               "spark.executorEnv._SPARK_AUTH_SECRET_FILE"}) = {}
  /\ "spark.mesos.containerizer" \notin SaslKeys
  /\ "spark.mesos.containerizer" \notin
       {"spark.authenticate.secret", "spark.executorEnv._SPARK_AUTH_SECRET"}
  /\ "spark.mesos.containerizer" \notin
       {"spark.authenticate.secret.file", "spark.executorEnv._SPARK_AUTH_SECRET_FILE"}
<1>1. EarlierKeys \intersect ({"spark.mesos.containerizer"} \union SaslKeys
       \union {"spark.authenticate.secret", "spark.executorEnv._SPARK_AUTH_SECRET"}
       \union {"spark.authenticate.secret.file",
               "spark.executorEnv._SPARK_AUTH_SECRET_FILE"}) = {}
  BY DEF EarlierKeys, TicketKeys, Passwords, StoreKeys, KdcKeys, SaslKeys
<1>2. EarlierKeys \subseteq Keys \ SecretLists
  BY TlsKeys, SecurityKeys DEF EarlierKeys, StoreKeys
<1>3. "spark.mesos.containerizer" \notin SaslKeys
  BY DEF SaslKeys
<1> QED BY <1>1, <1>2, <1>3 DEF Managed

\* A text for several keys of the builder's own.
LEMMA OverwriteMany ==
  ASSUME NEW p \in Properties, NEW ks \in SUBSET Managed, NEW x \in Strings
  PROVE  /\ Later(p, Overwrite(p, To(ks, x)))
         /\ Overwrite(p, To(ks, x)) \in Properties
         /\ \A k \in ks : Single(Overwrite(p, To(ks, x)), k, x)
         /\ \A k \in Keys \ ks : Overwrite(p, To(ks, x))[k] = p[k]
<1> DEFINE q == Overwrite(p, To(ks, x))
<1>1. ks \in SUBSET Keys /\ "spark.jars" \in Keys \ ks
  BY SecurityKeys
<1>2. /\ q \in Properties /\ Extends(p, q)
      /\ \A k \in ks : q[k] = <<x>>
      /\ \A k \in Keys \ ks : q[k] = p[k]
  <2>1. ks \subseteq Managed
    OBVIOUS
  <2> HIDE DEF q
  <2>2. /\ q \in Properties /\ (ks \subseteq Managed => Extends(p, q))
        /\ \A k \in ks : q[k] = <<x>>
        /\ \A k \in Keys \ ks : q[k] = p[k]
    BY <1>1, OverwriteTo, Zenon DEF q
  <2> QED BY <2>1, <2>2
<1> HIDE DEF q
<1>3. Later(p, q) /\ q \in Properties
  BY <1>1, <1>2 DEF Later
<1>4. \A k \in ks : Single(q, k, x)
  BY <1>2 DEF Single
<1> QED BY <1>2, <1>3, <1>4 DEF q

\* The containerizer, authentication, and a text for two keys.
Authenticated(p, ks, x) ==
  Overwrite(Overwrite(Mesos(p), To(SaslKeys, "true")), To(ks, x))

LEMMA AuthenticatedKeys ==
  ASSUME NEW p \in Properties, NEW ks \in SUBSET Managed, NEW x \in Strings,
         ks \intersect EarlierKeys = {}, "spark.mesos.containerizer" \notin ks
  PROVE  /\ Later(p, Authenticated(p, ks, x)) /\ Authenticated(p, ks, x) \in Properties
         /\ Single(Authenticated(p, ks, x), "spark.mesos.containerizer", "mesos")
         /\ \A k \in ks : Single(Authenticated(p, ks, x), k, x)
         /\ \A k \in EarlierKeys \union SecretLists : Authenticated(p, ks, x)[k] = p[k]
<1> DEFINE box == "spark.mesos.containerizer"
           bs  == {box}
           m   == Overwrite(p, To(bs, "mesos"))
           n   == Overwrite(m, To(SaslKeys, "true"))
           q   == Overwrite(n, To(ks, x))
<1>1. "mesos" \in Strings /\ "true" \in Strings
  BY LiteralsAssumption DEF Literals
<1>2. /\ bs \in SUBSET Managed /\ SaslKeys \in SUBSET Managed /\ box \in bs
      /\ box \in Keys \ SaslKeys /\ box \in Keys \ ks
  BY SaslKeyPlaces, SecurityKeys
<1>3. /\ EarlierKeys \union SecretLists \subseteq Keys
      /\ (EarlierKeys \union SecretLists) \intersect (bs \union SaslKeys \union ks) = {}
  BY <1>2, SaslKeyPlaces, SecurityKeys
<1>4. Authenticated(p, ks, x) = q
  BY DEF Authenticated, Mesos
<1> HIDE DEF bs, box
<1>5. /\ Later(p, m) /\ m \in Properties /\ \A k \in bs : Single(m, k, "mesos")
      /\ \A k \in Keys \ bs : m[k] = p[k]
  BY <1>1, <1>2, OverwriteMany
<1> HIDE DEF m
<1>6. Later(m, n) /\ n \in Properties /\ \A k \in Keys \ SaslKeys : n[k] = m[k]
  BY <1>1, <1>2, <1>5, OverwriteMany
<1> HIDE DEF n
<1>7. /\ Later(n, q) /\ q \in Properties /\ \A k \in ks : Single(q, k, x)
      /\ \A k \in Keys \ ks : q[k] = n[k]
  BY <1>6, OverwriteMany
<1> HIDE DEF q
<1>8. Later(p, q)
  <2>1. Later(p, n)
    BY <1>5, <1>6, LaterTransitive
  <2> QED BY <2>1, <1>6, <1>7, LaterTransitive
<1>9. Single(q, box, "mesos")
  <2>1. q[box] = m[box]
    BY <1>2, <1>6, <1>7
  <2> QED BY <2>1, <1>2, <1>5 DEF Single
<1>10. \A k \in EarlierKeys \union SecretLists : q[k] = p[k]
  BY <1>3, <1>5, <1>6, <1>7
<1> QED BY <1>4, <1>7, <1>8, <1>9, <1>10 DEF box

LEMMA SaslByFileStage ==
  ASSUME NEW p \in Properties, NEW c \in CommandType
  PROVE  /\ Later(p, SaslByFile(p, c))
         /\ Single(SaslByFile(p, c), "spark.mesos.containerizer", "mesos")
         /\ \A k \in EarlierKeys : SaslByFile(p, c)[k] = p[k]
         /\ SecretPut(p, SaslByFile(p, c), c.saslPath, "spark.authenticate.secret.file")
<1> DEFINE path  == c.saslPath
           file  == SecretFile(path)
           key   == "spark.authenticate.secret.file"
           box   == "spark.mesos.containerizer"
           ks    == {key, "spark.executorEnv._SPARK_AUTH_SECRET_FILE"}
           r     == Authenticated(p, ks, file)
           paths == <<path>>
           files == <<file>>
           q     == AddSecrets(r, paths, files, files)
<1>1. path \in Strings /\ file \in Strings
  BY CommandParts, SecretFileAssumption
<1>2. /\ ks \in SUBSET Managed /\ ks \intersect EarlierKeys = {}
      /\ "spark.mesos.containerizer" \notin ks /\ key \in ks
  BY SaslKeyPlaces
<1>3. key \in Keys \ SecretLists /\ box \in Keys \ SecretLists
  BY SaslKeyPlaces, SecurityKeys
<1>4. SaslByFile(p, c) = q
  BY DEF SaslByFile, Authenticated
<1>5. /\ paths \in Seq(Strings) /\ Len(paths) = 1 /\ paths[1] = path
      /\ files \in Seq(Strings) /\ Len(files) = 1 /\ files[1] = file
  BY <1>1, OneItem
<1> HIDE DEF path, file, paths, files, ks
<1>6. /\ Later(p, r) /\ r \in Properties /\ Single(r, box, "mesos")
      /\ \A k \in ks : Single(r, k, file)
      /\ \A k \in EarlierKeys \union SecretLists : r[k] = p[k]
  BY <1>1, <1>2, AuthenticatedKeys
<1> HIDE DEF r
<1>7. /\ Later(r, q) /\ \A k \in Keys \ SecretLists : q[k] = r[k]
      /\ \A k \in Keys \ SecretLists, i \in 1 .. Len(paths) :
           r[k] = <<files[i]>> => SecretPut(r, q, paths[i], k)
  BY <1>5, <1>6, ListsPut
<1> HIDE DEF q
<1>8. SecretPut(r, q, path, key)
  <2>1. r[key] = <<files[1]>>
    BY <1>2, <1>5, <1>6 DEF Single
  <2>2. 1 \in 1 .. Len(paths)
    BY <1>5
  <2> QED BY <1>3, <1>5, <1>7, <2>1, <2>2
<1>9. SecretPut(p, q, path, key)
  BY <1>6, <1>8, PutBetween
<1>10. Later(p, q)
  BY <1>6, <1>7, LaterTransitive DEF Later
<1>11. Single(q, box, "mesos")
  BY <1>3, <1>6, <1>7 DEF Single
<1>12. \A k \in EarlierKeys : q[k] = p[k]
  BY <1>6, <1>7, SaslKeyPlaces
<1> QED BY <1>4, <1>9, <1>10, <1>11, <1>12 DEF path, key, box


SaslDone(p, q, c) ==
  /\ Later(p, q)
  /\ \A k \in EarlierKeys : q[k] = p[k]
  /\ Single(q, "spark.mesos.containerizer", "mesos")
     \/ q["spark.mesos.containerizer"] = p["spark.mesos.containerizer"]
  /\ ~Named(c.saslPath) => \A k \in SecretLists : q[k] = p[k]
  /\ Named(c.saslPath) =>
       /\ Single(q, "spark.mesos.containerizer", "mesos")
       /\ SecretPut(p, q, c.saslPath, "spark.authenticate.secret.file")

LEMMA SaslStage ==
  ASSUME NEW p \in Properties, NEW c \in CommandType
  PROVE  SaslDone(p, SaslProps(p, c), c)
<1> DEFINE box == "spark.mesos.containerizer"
           ks  == {"spark.authenticate.secret", "spark.executorEnv._SPARK_AUTH_SECRET"}
           v   == SaslByValue(p, c)
           r   == IF ~Named(c.saslSecret) THEN p ELSE v
           f   == SaslByFile(r, c)
           q   == IF ~Named(c.saslPath) THEN r ELSE f
<1>1. SaslProps(p, c) = q
  BY DEF SaslProps, Named
<1>2. ks \in SUBSET Managed /\ ks \intersect EarlierKeys = {} /\ box \notin ks
  BY SaslKeyPlaces
<1>3. v = Authenticated(p, ks, c.saslSecret) /\ c.saslSecret \in Strings
  BY CommandParts DEF SaslByValue, Authenticated
<1> HIDE DEF ks
<1>4. /\ Later(p, v) /\ Single(v, box, "mesos")
      /\ \A k \in EarlierKeys \union SecretLists : v[k] = p[k]
  BY <1>2, <1>3, AuthenticatedKeys
<1> HIDE DEF v
<1>5. /\ Later(p, r) /\ (Single(r, box, "mesos") \/ r[box] = p[box])
      /\ \A k \in EarlierKeys \union SecretLists : r[k] = p[k]
  BY <1>4, LaterItself
<1>6. r \in Properties
  BY <1>5 DEF Later
<1> HIDE DEF r
<1>7. /\ Later(r, f) /\ Single(f, box, "mesos") /\ \A k \in EarlierKeys : f[k] = r[k]
      /\ SecretPut(r, f, c.saslPath, "spark.authenticate.secret.file")
  BY <1>6, SaslByFileStage
<1> HIDE DEF f
<1>8. SecretPut(p, f, c.saslPath, "spark.authenticate.secret.file")
  BY <1>5, <1>7, PutBetween
<1>9. Later(p, f)
  BY <1>5, <1>6, <1>7, LaterTransitive DEF Later
<1>10. \A k \in EarlierKeys : f[k] = p[k]
  BY <1>5, <1>7
<1>11. CASE Named(c.saslPath)
  <2>1. SaslProps(p, c) = f
    BY <1>1, <1>11
  <2> QED BY <1>7, <1>8, <1>9, <1>10, <1>11, <2>1 DEF SaslDone
<1>12. CASE ~Named(c.saslPath)
  <2>1. SaslProps(p, c) = r
    BY <1>1, <1>12
  <2> QED BY <1>5, <1>12, <2>1 DEF SaslDone
<1> QED BY <1>11, <1>12


------------------------------------------------------------------------------
(* What holds after each stage, for a command, a dispatcher and properties. *)

\* The user's own lists are in step, and the ticket is not given by value.
Zippable(c) == SinksMatch(UserProps(c)) /\ ~(KerberosOn(c) /\ Named(c.tgtValue))

\* Secrets of the builder come with the Mesos containerizer.
MesosFacts(c, p) ==
  \/ Single(p, "spark.mesos.containerizer", "mesos")
  \/ \A k \in SecretFiles : p[k] = UserProps(c)[k]

TicketFacts(c, d, p) ==
  /\ KerberosOn(c) => KerberosValid(c)
  /\ KerberosOn(c) => Single(p, "spark.yarn.principal", c.principal)
  /\ KerberosOn(c) /\ Named(d.krb5) => \A k \in KdcKeys : p[k] # <<>>
  /\ Zippable(c) => SinksMatch(p)
  /\ Zippable(c) /\ KerberosOn(c) /\ Named(c.keytab) =>
       Placed(p, c.keytab, "spark.yarn.keytab")
  /\ Zippable(c) /\ KerberosOn(c) /\ Named(c.tgt) =>
       Placed(p, c.tgt, "spark.mesos.driverEnv.KRB5CCNAME")

StoreFacts(c, p) ==
  Named(c.keystore) =>
    /\ Filled(UserProps(c), p, "spark.ssl.keyStorePassword")
    /\ Filled(UserProps(c), p, "spark.ssl.keyPassword")
    /\ Named(c.truststore) => Filled(UserProps(c), p, "spark.ssl.trustStorePassword")
    /\ Zippable(c) => Placed(p, c.keystore, "spark.ssl.keystore")
    /\ Zippable(c) /\ Named(c.truststore) => Placed(p, c.truststore, "spark.ssl.trustStore")

SaslFacts(c, p) ==
  Zippable(c) /\ Named(c.saslPath) =>
    Placed(p, c.saslPath, "spark.authenticate.secret.file")

\* No list gets out of step, and what is mounted stays mounted.
Mounting(p, q) ==
  SinksMatch(p) =>
    /\ SinksMatch(q)
    /\ \A t \in TaskTypes : MountedIn(p, t) \subseteq MountedIn(q, t)

LEMMA SameMounts ==
  ASSUME NEW p, NEW q, \A k \in SecretLists : q[k] = p[k]
  PROVE  Mounting(p, q)
<1>1. \A t \in TaskTypes :
        /\ q[NamesOf[t]] = p[NamesOf[t]] /\ q[FilesOf[t]] = p[FilesOf[t]]
        /\ q[EnvKeysOf[t]] = p[EnvKeysOf[t]]
  BY SecretKeys DEF SecretLists
<1> QED BY <1>1 DEF Mounting, SinksMatch, MountedIn

LEMMA PutMounts ==
  ASSUME NEW p \in Properties, NEW q \in Properties, NEW path, NEW key,
         SecretPut(p, q, path, key)
  PROVE  Mounting(p, q) /\ (SinksMatch(p) => Placed(q, path, key))
BY PutIsPlaced DEF Mounting

LEMMA TicketFactsStay ==
  ASSUME NEW c, NEW d, NEW p, NEW q, TicketFacts(c, d, p), Mounting(p, q),
         \A k \in TicketKeys : q[k] = p[k]
  PROVE  TicketFacts(c, d, q)
<1>1. /\ q["spark.yarn.principal"] = p["spark.yarn.principal"]
      /\ q["spark.yarn.keytab"] = p["spark.yarn.keytab"]
      /\ q["spark.mesos.driverEnv.KRB5CCNAME"] = p["spark.mesos.driverEnv.KRB5CCNAME"]
      /\ \A k \in KdcKeys : q[k] = p[k]
  BY DEF TicketKeys
<1>2. Zippable(c) =>
        /\ SinksMatch(p) /\ SinksMatch(q)
        /\ \A t \in TaskTypes : MountedIn(p, t) \subseteq MountedIn(q, t)
  BY DEF TicketFacts, Mounting
<1>3. Zippable(c) /\ KerberosOn(c) /\ Named(c.keytab) =>
        Placed(q, c.keytab, "spark.yarn.keytab")
  BY <1>1, <1>2, StaysPlaced DEF TicketFacts
<1>4. Zippable(c) /\ KerberosOn(c) /\ Named(c.tgt) =>
        Placed(q, c.tgt, "spark.mesos.driverEnv.KRB5CCNAME")
  BY <1>1, <1>2, StaysPlaced DEF TicketFacts
<1> QED BY <1>1, <1>2, <1>3, <1>4 DEF TicketFacts, Single

LEMMA StoreFactsStay ==
  ASSUME NEW c, NEW d, NEW p, NEW q, StoreFacts(c, p), TicketFacts(c, d, p), Mounting(p, q),
         \A k \in EarlierKeys : q[k] = p[k]
  PROVE  StoreFacts(c, q)
<1>1. /\ q["spark.ssl.keystore"] = p["spark.ssl.keystore"]
      /\ q["spark.ssl.trustStore"] = p["spark.ssl.trustStore"]
      /\ \A k \in Passwords : q[k] = p[k]
  BY DEF EarlierKeys, StoreKeys
<1>2. /\ q["spark.ssl.keyStorePassword"] = p["spark.ssl.keyStorePassword"]
      /\ q["spark.ssl.keyPassword"] = p["spark.ssl.keyPassword"]
      /\ q["spark.ssl.trustStorePassword"] = p["spark.ssl.trustStorePassword"]
  BY <1>1 DEF Passwords
<1>3. Zippable(c) =>
        \A t \in TaskTypes : MountedIn(p, t) \subseteq MountedIn(q, t)
  BY DEF TicketFacts, Mounting
<1> SUFFICES ASSUME Named(c.keystore)
             PROVE  /\ Filled(UserProps(c), q, "spark.ssl.keyStorePassword")
                    /\ Filled(UserProps(c), q, "spark.ssl.keyPassword")
                    /\ Named(c.truststore) =>
                         Filled(UserProps(c), q, "spark.ssl.trustStorePassword")
                    /\ Zippable(c) => Placed(q, c.keystore, "spark.ssl.keystore")
                    /\ Zippable(c) /\ Named(c.truststore) =>
                         Placed(q, c.truststore, "spark.ssl.trustStore")
  BY DEF StoreFacts
<1>4. /\ Filled(UserProps(c), q, "spark.ssl.keyStorePassword")
      /\ Filled(UserProps(c), q, "spark.ssl.keyPassword")
      /\ Named(c.truststore) => Filled(UserProps(c), q, "spark.ssl.trustStorePassword")
  BY <1>2 DEF StoreFacts, Filled
<1>5. Zippable(c) => Placed(q, c.keystore, "spark.ssl.keystore")
  BY <1>1, <1>3, StaysPlaced DEF StoreFacts
<1>6. Zippable(c) /\ Named(c.truststore) => Placed(q, c.truststore, "spark.ssl.trustStore")
  BY <1>1, <1>3, StaysPlaced DEF StoreFacts
<1> QED BY <1>4, <1>5, <1>6

\* The principal the Kerberos settings see is the user's.
LEMMA SamePrincipal ==
  ASSUME NEW c, NEW p, Kept(UserProps(c), p)
  PROVE  PrincipalOf(p, c) # "" <=> KerberosOn(c)
<1>1. p["spark.yarn.principal"] = UserProps(c)["spark.yarn.principal"]
  BY DEF Kept, CoreKeys
<1> QED BY <1>1 DEF KerberosOn, PrincipalOf

LEMMA KerberosStep ==
  ASSUME NEW p \in Properties, NEW q, NEW c \in CommandType, NEW d \in DispatcherType,
         Kept(UserProps(c), p),
         \/ ~KerberosOn(c) /\ q = p
         \/ KerberosOn(c) /\ KerberosValid(c) /\ q = KerberosProps(p, c, d)
  PROVE  /\ Later(p, q) /\ MesosFacts(c, q) /\ TicketFacts(c, d, q)
         /\ \A k \in Passwords : q[k] = UserProps(c)[k]
<1>1. \A k \in SecretLists \union Passwords : p[k] = UserProps(c)[k]
  BY DEF Kept, CoreKeys, SecretLists
<1>2. SinksMatch(UserProps(c)) => SinksMatch(p)
  BY <1>1, SameMounts DEF Mounting
<1>3. CASE ~KerberosOn(c)
  <2>1. q = p
    BY <1>3
  <2>2. TicketFacts(c, d, p)
    BY <1>2, <1>3 DEF TicketFacts, Zippable
  <2>3. MesosFacts(c, p)
    BY <1>1 DEF MesosFacts, SecretLists
  <2> QED BY <1>1, <2>1, <2>2, <2>3, LaterItself
<1>4. CASE KerberosOn(c)
  <2>1. KerberosDone(p, q, c, d) /\ KerberosValid(c)
    BY <1>4, KerberosStage
  <2>2. Later(p, q) /\ q \in Properties /\ MesosFacts(c, q)
    BY <2>1 DEF KerberosDone, Later, MesosFacts
  <2>3. \A k \in Passwords : q[k] = UserProps(c)[k]
    BY <1>1, <2>1 DEF KerberosDone
  <2>4. Named(c.keytab) \/ Named(c.tgt) \/ Named(c.tgtValue)
    BY <2>1 DEF KerberosValid, Named
  <2>5. ~(Named(c.keytab) /\ Named(c.tgt))
    BY <2>1 DEF KerberosValid, Named
  <2>6. Zippable(c) => SinksMatch(p) /\ ~Named(c.tgtValue)
    BY <1>2, <1>4 DEF Zippable
  <2>7. CASE Named(c.keytab)
    <3>1. Mounting(p, q) /\ (SinksMatch(p) => Placed(q, c.keytab, "spark.yarn.keytab"))
      BY <2>1, <2>2, <2>7, PutMounts DEF KerberosDone
    <3> QED BY <2>1, <2>2, <2>3, <2>5, <2>6, <2>7, <3>1
            DEF TicketFacts, Mounting, KerberosDone
  <2>8. CASE ~Named(c.keytab) /\ Named(c.tgt)
    <3>1. /\ Mounting(p, q)
          /\ SinksMatch(p) => Placed(q, c.tgt, "spark.mesos.driverEnv.KRB5CCNAME")
      BY <2>1, <2>2, <2>8, PutMounts DEF KerberosDone
    <3> QED BY <2>1, <2>2, <2>3, <2>6, <2>8, <3>1
            DEF TicketFacts, Mounting, KerberosDone
  <2>9. CASE ~Named(c.keytab) /\ ~Named(c.tgt)
    <3>1. ~Zippable(c)
      BY <2>4, <2>6, <2>9
    <3> QED BY <2>1, <2>2, <2>3, <3>1 DEF TicketFacts, KerberosDone
  <2> QED BY <2>7, <2>8, <2>9
<1> QED BY <1>3, <1>4


LEMMA TlsStep ==
  ASSUME NEW p \in Properties, NEW q, NEW c \in CommandType, NEW d,
         MesosFacts(c, p), TicketFacts(c, d, p),
         \A k \in Passwords : p[k] = UserProps(c)[k],
         \/ ~Named(c.keystore) /\ q = p
         \/ Named(c.keystore) /\ TlsValid(c) /\ q = TlsProps(p, c)
  PROVE  Later(p, q) /\ MesosFacts(c, q) /\ TicketFacts(c, d, q) /\ StoreFacts(c, q)
<1>1. CASE ~Named(c.keystore)
  <2>1. q = p
    BY <1>1
  <2> QED BY <1>1, <2>1, LaterItself DEF StoreFacts
<1>2. CASE Named(c.keystore)
  <2>1. TlsDone(p, q, c)
    BY <1>2, TlsStage
  <2>2. Later(p, q) /\ q \in Properties /\ MesosFacts(c, q)
    BY <2>1 DEF TlsDone, Later, MesosFacts
  <2>3. Mounting(p, q) /\ (SinksMatch(p) => Placed(q, c.keystore, "spark.ssl.keystore"))
    BY <2>1, <2>2, PutMounts DEF TlsDone
  <2>4. Named(c.truststore) =>
          (SinksMatch(p) => Placed(q, c.truststore, "spark.ssl.trustStore"))
    BY <2>1, <2>2, PutMounts DEF TlsDone
  <2>5. TicketFacts(c, d, q)
    BY <2>1, <2>3, TicketFactsStay DEF TlsDone
  <2>6. Zippable(c) => SinksMatch(p)
    BY DEF TicketFacts
  <2>7. /\ UserProps(c)["spark.ssl.keyStorePassword"] = p["spark.ssl.keyStorePassword"]
        /\ UserProps(c)["spark.ssl.keyPassword"] = p["spark.ssl.keyPassword"]
        /\ UserProps(c)["spark.ssl.trustStorePassword"] = p["spark.ssl.trustStorePassword"]
    BY DEF Passwords
  <2>8. /\ Filled(UserProps(c), q, "spark.ssl.keyStorePassword")
        /\ Filled(UserProps(c), q, "spark.ssl.keyPassword")
        /\ Named(c.truststore) => Filled(UserProps(c), q, "spark.ssl.trustStorePassword")
    BY <2>1, <2>7 DEF TlsDone, Filled
  <2>9. StoreFacts(c, q)
    BY <2>3, <2>4, <2>6, <2>8 DEF StoreFacts
  <2> QED BY <2>2, <2>5, <2>9
<1> QED BY <1>1, <1>2

LEMMA SaslStep ==
  ASSUME NEW p \in Properties, NEW q, NEW c \in CommandType, NEW d,
         MesosFacts(c, p), TicketFacts(c, d, p), StoreFacts(c, p), q = SaslProps(p, c)
  PROVE  /\ Later(p, q) /\ MesosFacts(c, q) /\ TicketFacts(c, d, q) /\ StoreFacts(c, q)
         /\ SaslFacts(c, q)
<1>1. SaslDone(p, q, c)
  BY SaslStage
<1>2. Later(p, q) /\ q \in Properties
  BY <1>1 DEF SaslDone, Later
<1>3. Mounting(p, q)
  <2>1. CASE Named(c.saslPath)
    BY <1>1, <1>2, <2>1, PutMounts DEF SaslDone
  <2>2. CASE ~Named(c.saslPath)
    BY <1>1, <2>2, SameMounts DEF SaslDone
  <2> QED BY <2>1, <2>2
<1>4. MesosFacts(c, q)
  <2>1. CASE Named(c.saslPath)
    BY <1>1, <2>1 DEF SaslDone, MesosFacts
  <2>2. CASE ~Named(c.saslPath)
    <3>1. \A k \in SecretFiles : q[k] = p[k]
      BY <1>1, <2>2 DEF SaslDone, SecretLists
    <3>2. \/ Single(q, "spark.mesos.containerizer", "mesos")
          \/ q["spark.mesos.containerizer"] = p["spark.mesos.containerizer"]
      BY <1>1 DEF SaslDone
    <3> QED BY <3>1, <3>2 DEF MesosFacts, Single
  <2> QED BY <2>1, <2>2
<1>5. TicketFacts(c, d, q)
  BY <1>1, <1>3, TicketFactsStay DEF SaslDone, EarlierKeys
<1>6. StoreFacts(c, q)
  BY <1>1, <1>3, StoreFactsStay DEF SaslDone
<1>7. SaslFacts(c, q)
  <2> SUFFICES ASSUME Zippable(c), Named(c.saslPath)
               PROVE  Placed(q, c.saslPath, "spark.authenticate.secret.file")
    BY DEF SaslFacts
  <2>1. SinksMatch(p)
    BY DEF TicketFacts
  <2> QED BY <1>1, <1>2, <2>1, PutMounts DEF SaslDone
<1> QED BY <1>2, <1>4, <1>5, <1>6, <1>7

------------------------------------------------------------------------------
(* The inductive invariant. *)

LateStages == {"application", "image", "space", "hdfs", "kerberos", "tls", "built", "accepted"}

\* Until the file is read, the properties are a function of the command line.
EarlyFacts(c, s, p) ==
  /\ s \in {"start", "fetched"} => p = [k \in Keys |-> <<>>]
  /\ s = "parsed" => p = ConfProps(c)
  /\ s = "flagged" => p = SetIfAbsent(ConfProps(c), FlagProps(c))
  /\ s = "filed" => p = UserProps(c)

\* Then they only grow, and what the security settings look at stays.
LateFacts(c, s, p) ==
  /\ s \in LateStages => Grown(UserProps(c), p, c.app)
  /\ s \in {"application", "image", "space", "hdfs"} => Kept(UserProps(c), p)

\* What the security settings promise, from the stage that sets it up.
SecureFacts(c, d, s, p) ==
  /\ s \in {"kerberos", "tls", "built", "accepted"} => MesosFacts(c, p) /\ TicketFacts(c, d, p)
  /\ s = "kerberos" => \A k \in Passwords : p[k] = UserProps(c)[k]
  /\ s \in {"tls", "built", "accepted"} => StoreFacts(c, p)
  /\ s \in {"built", "accepted"} => SaslFacts(c, p)

Inv ==
  /\ TypeOK
  /\ EarlyFacts(cmd, stage, props)
  /\ LateFacts(cmd, stage, props)
  /\ SecureFacts(cmd, disp, stage, props)

LEMMA InitInv == Init => Inv
<1> SUFFICES ASSUME Init PROVE Inv
  OBVIOUS
<1>1. cmd \in CommandType /\ disp \in DispatcherType /\ stage = "start"
  BY CommandsAssumption, DispatchersAssumption DEF Init
<1>2. props = [k \in Keys |-> <<>>] /\ props \in Properties
  BY EmptySeq DEF Init, Properties
<1>3. TypeOK
  BY <1>1, <1>2 DEF TypeOK, Stages
<1>4. EarlyFacts(cmd, stage, props)
  BY <1>1, <1>2 DEF EarlyFacts
<1>5. LateFacts(cmd, stage, props) /\ SecureFacts(cmd, disp, stage, props)
  BY <1>1 DEF LateFacts, SecureFacts, LateStages
<1> QED BY <1>3, <1>4, <1>5 DEF Inv

\* What a step does to the stage and the properties.
LEMMA NextSteps ==
  ASSUME Next
  PROVE  /\ cmd' = cmd /\ disp' = disp
         /\ \/ stage' = "rejected" /\ props' = props
            \/ stage = "start" /\ stage' = "fetched" /\ props' = props
            \/ stage = "fetched" /\ stage' = "parsed" /\ props' = ConfProps(cmd)
            \/ /\ stage = "parsed" /\ stage' = "flagged"
               /\ props' = SetIfAbsent(props, FlagProps(cmd))
            \/ /\ stage = "flagged" /\ stage' = "filed"
               /\ props' = SetIfAbsent(props, FileProps(cmd))
            \/ /\ stage = "filed" /\ stage' = "application"
               /\ props' = ApplicationProps(props, cmd)
            \/ /\ stage = "application" /\ stage' = "image"
               /\ props' = ImageProps(props, cmd, disp)
            \/ stage = "image" /\ stage' = "space" /\ props' = SpaceProps(props, disp)
            \/ stage = "space" /\ stage' = "hdfs" /\ props' = HdfsProps(props, disp)
            \/ /\ stage = "hdfs" /\ stage' = "kerberos"
               /\ \/ PrincipalOf(props, cmd) = "" /\ props' = props
                  \/ /\ PrincipalOf(props, cmd) # "" /\ KerberosValid(cmd)
                     /\ props' = KerberosProps(props, cmd, disp)
            \/ /\ stage = "kerberos" /\ stage' = "tls"
               /\ \/ ~Named(cmd.keystore) /\ props' = props
                  \/ /\ Named(cmd.keystore) /\ TlsValid(cmd)
                     /\ props' = TlsProps(props, cmd)
            \/ stage = "tls" /\ stage' = "built" /\ props' = SaslProps(props, cmd)
            \/ stage = "built" /\ stage' = "accepted" /\ props' = props
BY Zenon DEF Next, FetchMarathonConfig, ParseArgs, ApplyFlags, ApplyFile, SetApplication,
   SetImage, LabelSpace, AddHdfs, SetupKerberos, SetupTLS, SetupSASL, Submit, Advance, Reject,
   Named


\* A step to a stage at which everything else is asked for anew.
LEMMA InvAfter ==
  ASSUME cmd' = cmd, disp' = disp, TypeOK, stage' \in Stages, props' \in Properties,
         EarlyFacts(cmd, stage', props'), LateFacts(cmd, stage', props'),
         SecureFacts(cmd, disp, stage', props')
  PROVE  Inv'
<1>1. TypeOK'
  BY DEF TypeOK
<1>2. /\ EarlyFacts(cmd, stage, props)' /\ LateFacts(cmd, stage, props)'
      /\ SecureFacts(cmd, disp, stage, props)'
  OBVIOUS
<1> QED BY <1>1, <1>2 DEF Inv

LEMMA EarlySteps ==
  ASSUME Inv, cmd' = cmd, disp' = disp,
         \/ stage' = "rejected" /\ props' = props
         \/ stage = "start" /\ stage' = "fetched" /\ props' = props
         \/ stage = "fetched" /\ stage' = "parsed" /\ props' = ConfProps(cmd)
         \/ /\ stage = "parsed" /\ stage' = "flagged"
            /\ props' = SetIfAbsent(props, FlagProps(cmd))
         \/ /\ stage = "flagged" /\ stage' = "filed"
            /\ props' = SetIfAbsent(props, FileProps(cmd))
  PROVE  Inv'
<1>1. cmd \in CommandType /\ disp \in DispatcherType /\ props \in Properties /\ TypeOK
  BY DEF Inv, TypeOK
<1>2. CASE stage' = "rejected" /\ props' = props
  <2>1. /\ EarlyFacts(cmd, stage', props') /\ LateFacts(cmd, stage', props')
        /\ SecureFacts(cmd, disp, stage', props') /\ stage' \in Stages
    BY <1>2 DEF EarlyFacts, LateFacts, SecureFacts, LateStages, Stages
  <2> QED BY <1>1, <1>2, <2>1, InvAfter
<1>3. CASE stage = "start" /\ stage' = "fetched" /\ props' = props
  <2>1. EarlyFacts(cmd, stage', props')
    BY <1>3 DEF EarlyFacts, Inv
  <2>2. /\ LateFacts(cmd, stage', props')
        /\ SecureFacts(cmd, disp, stage', props') /\ stage' \in Stages
    BY <1>3 DEF LateFacts, SecureFacts, LateStages, Stages
  <2> QED BY <1>1, <1>3, <2>1, <2>2, InvAfter
<1>4. CASE stage = "fetched" /\ stage' = "parsed" /\ props' = ConfProps(cmd)
  <2>1. props' \in Properties
    BY <1>1, <1>4, ConfPropsKeys
  <2>2. /\ EarlyFacts(cmd, stage', props') /\ LateFacts(cmd, stage', props')
        /\ SecureFacts(cmd, disp, stage', props') /\ stage' \in Stages
    BY <1>4 DEF EarlyFacts, LateFacts, SecureFacts, LateStages, Stages
  <2> QED BY <1>1, <2>1, <2>2, InvAfter
<1>5. CASE /\ stage = "parsed" /\ stage' = "flagged"
           /\ props' = SetIfAbsent(props, FlagProps(cmd))
  <2>1. props' = SetIfAbsent(ConfProps(cmd), FlagProps(cmd))
    BY <1>5 DEF Inv, EarlyFacts
  <2>2. props' \in Properties
    BY <1>1, <2>1, UserPropsType
  <2>3. /\ EarlyFacts(cmd, stage', props') /\ LateFacts(cmd, stage', props')
        /\ SecureFacts(cmd, disp, stage', props') /\ stage' \in Stages
    BY <1>5, <2>1 DEF EarlyFacts, LateFacts, SecureFacts, LateStages, Stages
  <2> QED BY <1>1, <2>2, <2>3, InvAfter
<1>6. CASE /\ stage = "flagged" /\ stage' = "filed"
           /\ props' = SetIfAbsent(props, FileProps(cmd))
  <2>1. props' = UserProps(cmd)
    BY <1>6 DEF Inv, EarlyFacts, UserProps
  <2>2. props' \in Properties
    BY <1>1, <2>1, UserPropsType
  <2>3. /\ EarlyFacts(cmd, stage', props') /\ LateFacts(cmd, stage', props')
        /\ SecureFacts(cmd, disp, stage', props') /\ stage' \in Stages
    BY <1>6, <2>1 DEF EarlyFacts, LateFacts, SecureFacts, LateStages, Stages
  <2> QED BY <1>1, <2>2, <2>3, InvAfter
<1> QED BY <1>2, <1>3, <1>4, <1>5, <1>6

\* Application, image, labels and HDFS.
LEMMA MiddleSteps ==
  ASSUME Inv, cmd' = cmd, disp' = disp,
         \/ /\ stage = "filed" /\ stage' = "application"
            /\ props' = ApplicationProps(props, cmd)
         \/ /\ stage = "application" /\ stage' = "image"
            /\ props' = ImageProps(props, cmd, disp)
         \/ stage = "image" /\ stage' = "space" /\ props' = SpaceProps(props, disp)
         \/ stage = "space" /\ stage' = "hdfs" /\ props' = HdfsProps(props, disp)
  PROVE  Inv'
<1> DEFINE u == UserProps(cmd)
<1>1. cmd \in CommandType /\ disp \in DispatcherType /\ props \in Properties /\ TypeOK
  BY DEF Inv, TypeOK
<1>2. u \in Properties
  BY <1>1, UserPropsType
<1>3. Grown(u, props', cmd.app) /\ Kept(u, props')
  <2>1. CASE stage = "filed" /\ props' = ApplicationProps(props, cmd)
    <3>1. props = u
      BY <2>1 DEF Inv, EarlyFacts
    <3> QED BY <1>1, <2>1, <3>1, ApplicationStage
  <2>2. CASE stage \in {"application", "image", "space"}
    <3>1. Grown(u, props, cmd.app) /\ Kept(u, props)
      BY <2>2 DEF Inv, LateFacts, LateStages
    <3>2. Later(props, props') /\ Kept(props, props')
      BY <1>1, <2>2, ImageStage, SpaceStage, HdfsStage
    <3>3. props' \in Properties
      BY <3>2 DEF Later
    <3>4. Kept(u, props')
      BY <3>1, <3>2 DEF Kept
    <3> HIDE DEF u
    <3> QED BY <1>1, <1>2, <3>1, <3>2, <3>3, <3>4, GrownLater
  <2> QED BY <2>1, <2>2
<1>4. props' \in Properties
  BY <1>3 DEF Grown
<1>5. stage' \in {"application", "image", "space", "hdfs"}
  OBVIOUS
<1>6. /\ EarlyFacts(cmd, stage', props') /\ LateFacts(cmd, stage', props')
      /\ SecureFacts(cmd, disp, stage', props') /\ stage' \in Stages
  BY <1>3, <1>5 DEF EarlyFacts, LateFacts, SecureFacts, LateStages, Stages
<1> QED BY <1>1, <1>4, <1>6, InvAfter

\* Kerberos, TLS, SASL, and the answer of the dispatcher.
LEMMA SecuritySteps ==
  ASSUME Inv, cmd' = cmd, disp' = disp,
         \/ /\ stage = "hdfs" /\ stage' = "kerberos"
            /\ \/ PrincipalOf(props, cmd) = "" /\ props' = props
               \/ /\ PrincipalOf(props, cmd) # "" /\ KerberosValid(cmd)
                  /\ props' = KerberosProps(props, cmd, disp)
         \/ /\ stage = "kerberos" /\ stage' = "tls"
            /\ \/ ~Named(cmd.keystore) /\ props' = props
               \/ /\ Named(cmd.keystore) /\ TlsValid(cmd)
                  /\ props' = TlsProps(props, cmd)
         \/ stage = "tls" /\ stage' = "built" /\ props' = SaslProps(props, cmd)
         \/ stage = "built" /\ stage' = "accepted" /\ props' = props
  PROVE  Inv'
<1> DEFINE u == UserProps(cmd)
           q == props'
<1>1. cmd \in CommandType /\ disp \in DispatcherType /\ props \in Properties /\ TypeOK
  BY DEF Inv, TypeOK
<1>2. u \in Properties
  BY <1>1, UserPropsType
<1>3. Later(props, q) /\ SecureFacts(cmd, disp, stage', q)
  <2>1. CASE /\ stage = "hdfs" /\ stage' = "kerberos"
             /\ \/ PrincipalOf(props, cmd) = "" /\ props' = props
                \/ /\ PrincipalOf(props, cmd) # "" /\ KerberosValid(cmd)
                   /\ props' = KerberosProps(props, cmd, disp)
    <3>1. Kept(u, props)
      BY <2>1 DEF Inv, LateFacts
    <3>2. PrincipalOf(props, cmd) # "" <=> KerberosOn(cmd)
      BY <3>1, SamePrincipal
    <3>3. \/ ~KerberosOn(cmd) /\ q = props
          \/ KerberosOn(cmd) /\ KerberosValid(cmd) /\ q = KerberosProps(props, cmd, disp)
      BY <2>1, <3>2
    <3> HIDE DEF q
    <3>4. /\ Later(props, q) /\ MesosFacts(cmd, q) /\ TicketFacts(cmd, disp, q)
          /\ \A k \in Passwords : q[k] = UserProps(cmd)[k]
      BY <1>1, <3>1, <3>3, KerberosStep
    <3> QED BY <2>1, <3>4 DEF SecureFacts
  <2>2. CASE /\ stage = "kerberos" /\ stage' = "tls"
             /\ \/ ~Named(cmd.keystore) /\ props' = props
                \/ /\ Named(cmd.keystore) /\ TlsValid(cmd)
                   /\ props' = TlsProps(props, cmd)
    <3>1. /\ MesosFacts(cmd, props) /\ TicketFacts(cmd, disp, props)
          /\ \A k \in Passwords : props[k] = UserProps(cmd)[k]
      BY <2>2 DEF Inv, SecureFacts
    <3>2. \/ ~Named(cmd.keystore) /\ q = props
          \/ Named(cmd.keystore) /\ TlsValid(cmd) /\ q = TlsProps(props, cmd)
      BY <2>2
    <3> HIDE DEF q
    <3>3. /\ Later(props, q) /\ MesosFacts(cmd, q) /\ TicketFacts(cmd, disp, q)
          /\ StoreFacts(cmd, q)
      BY <1>1, <3>1, <3>2, TlsStep
    <3> QED BY <2>2, <3>3 DEF SecureFacts
  <2>3. CASE stage = "tls" /\ stage' = "built" /\ props' = SaslProps(props, cmd)
    <3>1. MesosFacts(cmd, props) /\ TicketFacts(cmd, disp, props) /\ StoreFacts(cmd, props)
      BY <2>3 DEF Inv, SecureFacts
    <3>2. q = SaslProps(props, cmd)
      BY <2>3
    <3> HIDE DEF q
    <3>3. /\ Later(props, q) /\ MesosFacts(cmd, q) /\ TicketFacts(cmd, disp, q)
          /\ StoreFacts(cmd, q) /\ SaslFacts(cmd, q)
      BY <1>1, <3>1, <3>2, SaslStep
    <3> QED BY <2>3, <3>3 DEF SecureFacts
  <2>4. CASE stage = "built" /\ stage' = "accepted" /\ props' = props
    <3>1. /\ MesosFacts(cmd, props) /\ TicketFacts(cmd, disp, props) /\ StoreFacts(cmd, props)
          /\ SaslFacts(cmd, props)
      BY <2>4 DEF Inv, SecureFacts
    <3>2. Later(props, props) /\ q = props
      BY <1>1, <2>4, LaterItself
    <3> QED BY <2>4, <3>1, <3>2 DEF SecureFacts
  <2> QED BY <2>1, <2>2, <2>3, <2>4
<1>4. q \in Properties
  BY <1>3 DEF Later
<1>5. Grown(u, q, cmd.app)
  <2>1. Grown(u, props, cmd.app)
    BY DEF Inv, LateFacts, LateStages
  <2> HIDE DEF u, q
  <2> QED BY <1>1, <1>2, <1>3, <1>4, <2>1, GrownLater
<1>6. stage' \in {"kerberos", "tls", "built", "accepted"}
  OBVIOUS
<1>7. EarlyFacts(cmd, stage', q) /\ LateFacts(cmd, stage', q) /\ stage' \in Stages
  BY <1>5, <1>6 DEF EarlyFacts, LateFacts, LateStages, Stages
<1> QED BY <1>1, <1>3, <1>4, <1>7, InvAfter

LEMMA NextInv == Inv /\ [Next]_vars => Inv'
<1> SUFFICES ASSUME Inv, [Next]_vars PROVE Inv'
  OBVIOUS
<1>1. CASE Next
  BY <1>1, NextSteps, EarlySteps, MiddleSteps, SecuritySteps
<1>2. CASE UNCHANGED vars
  <2>1. cmd' = cmd /\ disp' = disp /\ stage' = stage /\ props' = props
    BY <1>2 DEF vars
  <2> QED BY <2>1 DEF Inv, TypeOK
<1> QED BY <1>1, <1>2

LEMMA AlwaysInv == Spec => []Inv
<1> QED BY InitInv, NextInv, PTL DEF Spec


------------------------------------------------------------------------------
(* Theorems. *)

\* TypeOK: whatever is typed and whatever Marathon answers, the properties stay
\* lists of texts, one for every key.
THEOREM TypeCorrect == Spec => []TypeOK
<1>1. Inv => TypeOK
  BY DEF Inv
<1> QED BY <1>1, AlwaysInv, PTL

\* SecretsDelivered: in a submission that is built, the lists of secrets are in
\* step, and each credential is mounted, in driver and executors, under the
\* file name another property refers to.
LEMMA DeliveredWhenBuilt == Inv => SecretsDelivered
<1> SUFFICES ASSUME Inv, Built, SinksMatch(UserProps(cmd)),
                    ~(KerberosOn(cmd) /\ cmd.tgtValue # "")
             PROVE  /\ SinksMatch(props)
                    /\ \A t \in TaskTypes : Credentials(cmd) \subseteq Mounted(t)
  BY DEF SecretsDelivered
<1>1. Zippable(cmd)
  BY Zenon DEF Zippable, Named
<1>2. TicketFacts(cmd, disp, props) /\ StoreFacts(cmd, props) /\ SaslFacts(cmd, props)
  BY DEF Inv, SecureFacts, Built
<1>3. SinksMatch(props)
  BY <1>1, <1>2 DEF TicketFacts
<1>4. ASSUME NEW t \in TaskTypes, NEW x \in Credentials(cmd)
      PROVE  x \in MountedIn(props, t)
  <2>1. \/ /\ KerberosOn(cmd) /\ Named(cmd.keytab)
           /\ x = <<cmd.keytab, props["spark.yarn.keytab"][1]>>
        \/ /\ KerberosOn(cmd) /\ Named(cmd.tgt)
           /\ x = <<cmd.tgt, props["spark.mesos.driverEnv.KRB5CCNAME"][1]>>
        \/ Named(cmd.keystore) /\ x = <<cmd.keystore, props["spark.ssl.keystore"][1]>>
        \/ /\ Named(cmd.keystore) /\ Named(cmd.truststore)
           /\ x = <<cmd.truststore, props["spark.ssl.trustStore"][1]>>
        \/ /\ Named(cmd.saslPath)
           /\ x = <<cmd.saslPath, props["spark.authenticate.secret.file"][1]>>
    BY <1>4, Zenon DEF Credentials, Named
  <2>2. CASE /\ KerberosOn(cmd) /\ Named(cmd.keytab)
             /\ x = <<cmd.keytab, props["spark.yarn.keytab"][1]>>
    BY <1>1, <1>2, <2>2 DEF TicketFacts, Placed
  <2>3. CASE /\ KerberosOn(cmd) /\ Named(cmd.tgt)
             /\ x = <<cmd.tgt, props["spark.mesos.driverEnv.KRB5CCNAME"][1]>>
    BY <1>1, <1>2, <2>3 DEF TicketFacts, Placed
  <2>4. CASE Named(cmd.keystore) /\ x = <<cmd.keystore, props["spark.ssl.keystore"][1]>>
    BY <1>1, <1>2, <2>4 DEF StoreFacts, Placed
  <2>5. CASE /\ Named(cmd.keystore) /\ Named(cmd.truststore)
             /\ x = <<cmd.truststore, props["spark.ssl.trustStore"][1]>>
    BY <1>1, <1>2, <2>5 DEF StoreFacts, Placed
  <2>6. CASE /\ Named(cmd.saslPath)
             /\ x = <<cmd.saslPath, props["spark.authenticate.secret.file"][1]>>
    BY <1>1, <1>2, <2>6 DEF SaslFacts, Placed
  <2> QED BY <2>1, <2>2, <2>3, <2>4, <2>5, <2>6
<1>5. \A t \in TaskTypes : MountedIn(props, t) = Mounted(t)
  BY DEF MountedIn, Mounted, Zipped
<1> QED BY <1>3, <1>4, <1>5

THEOREM SecretsReachTheirFiles == Spec => []SecretsDelivered
BY DeliveredWhenBuilt, AlwaysInv, PTL

\* SecretsNeedMesos: in a submission that is built, secrets beyond the user's
\* own come with the Mesos containerizer, which alone supports them.
LEMMA MesosWhenBuilt == Inv => SecretsNeedMesos
<1> SUFFICES ASSUME Inv, Built,
                    NEW t \in TaskTypes,
                    Len(props[FilesOf[t]]) > Len(UserProps(cmd)[FilesOf[t]])
             PROVE  props["spark.mesos.containerizer"] = <<"mesos">>
  BY DEF SecretsNeedMesos
<1>1. MesosFacts(cmd, props)
  BY DEF Inv, SecureFacts, Built
<1>2. FilesOf[t] \in SecretFiles
  BY SecretKeys
<1>3. props[FilesOf[t]] # UserProps(cmd)[FilesOf[t]]
  <2>1. cmd \in CommandType
    BY DEF Inv, TypeOK
  <2>2. UserProps(cmd)[FilesOf[t]] \in Seq(Strings)
    BY <1>2, <2>1, UserPropsType, KeyPlaces DEF Properties
  <2>3. Len(UserProps(cmd)[FilesOf[t]]) \in Nat
    BY <2>2, LenProperties
  <2> QED BY <2>3
<1> QED BY <1>1, <1>2, <1>3 DEF MesosFacts, Single

THEOREM SecretsUseMesos == Spec => []SecretsNeedMesos
BY MesosWhenBuilt, AlwaysInv, PTL


\* SecurityComplete: a submission that is built has one source of the Kerberos
\* ticket, the principal of its flag, the KDC's description, and every password its stores need.
LEMMA CompleteWhenBuilt == Inv => SecurityComplete
<1> SUFFICES ASSUME Inv, Built
             PROVE  SecurityComplete
  BY DEF SecurityComplete
<1>1. TicketFacts(cmd, disp, props) /\ StoreFacts(cmd, props) /\ cmd \in CommandType
  BY DEF Inv, SecureFacts, Built, TypeOK
<1>2. KerberosOn(cmd) =>
        /\ \E s \in {"keytab", "tgt", "tgtValue"} :
             \A r \in {"keytab", "tgt", "tgtValue"} : (cmd[r] # "") <=> (r = s)
        /\ cmd.principal # "" => props["spark.yarn.principal"] = <<cmd.principal>>
        /\ disp.krb5 # "" => \A k \in KdcKeys : props[k] # <<>>
  <2> SUFFICES ASSUME KerberosOn(cmd)
               PROVE  /\ \E s \in {"keytab", "tgt", "tgtValue"} :
                           \A r \in {"keytab", "tgt", "tgtValue"} : (cmd[r] # "") <=> (r = s)
                      /\ cmd.principal # "" =>
                           props["spark.yarn.principal"] = <<cmd.principal>>
                      /\ disp.krb5 # "" => \A k \in KdcKeys : props[k] # <<>>
    OBVIOUS
  <2>1. KerberosValid(cmd)
    BY <1>1 DEF TicketFacts
  <2>2. \E s \in {"keytab", "tgt", "tgtValue"} :
          \A r \in {"keytab", "tgt", "tgtValue"} : (cmd[r] # "") <=> (r = s)
    <3>1. CASE cmd.keytab # "" /\ cmd.tgt = "" /\ cmd.tgtValue = ""
      <4>1. \A r \in {"keytab", "tgt", "tgtValue"} : (cmd[r] # "") <=> (r = "keytab")
        BY <3>1
      <4> QED BY <4>1
    <3>2. CASE cmd.keytab = "" /\ cmd.tgt # "" /\ cmd.tgtValue = ""
      <4>1. \A r \in {"keytab", "tgt", "tgtValue"} : (cmd[r] # "") <=> (r = "tgt")
        BY <3>2
      <4> QED BY <4>1
    <3>3. CASE cmd.keytab = "" /\ cmd.tgt = "" /\ cmd.tgtValue # ""
      <4>1. \A r \in {"keytab", "tgt", "tgtValue"} : (cmd[r] # "") <=> (r = "tgtValue")
        BY <3>3
      <4> QED BY <4>1
    <3> QED BY <2>1, <3>1, <3>2, <3>3 DEF KerberosValid
  <2>3. disp.krb5 # "" => \A k \in KdcKeys : props[k] # <<>>
    BY <1>1, Zenon DEF TicketFacts, Named
  <2>4. props["spark.yarn.principal"] = <<cmd.principal>>
    BY <1>1, Zenon DEF TicketFacts, Single
  <2> QED BY <2>2, <2>3, <2>4, Zenon
<1>3. cmd.keystore # "" =>
        /\ Filled(UserProps(cmd), props, "spark.ssl.keyStorePassword")
        /\ Filled(UserProps(cmd), props, "spark.ssl.keyPassword")
        /\ cmd.truststore # "" =>
             Filled(UserProps(cmd), props, "spark.ssl.trustStorePassword")
  BY <1>1, Zenon DEF StoreFacts, Named
<1> QED BY <1>2, <1>3, Zenon DEF SecurityComplete, Filled

THEOREM SecurityIsComplete == Spec => []SecurityComplete
BY CompleteWhenBuilt, AlwaysInv, PTL

\* Beginnings and ends of a list that grew.
LEMMA BeginsWith ==
  ASSUME NEW v \in Seq(Strings), NEW w \in Seq(Strings)
  PROVE  IsPrefix(v, v \o w)
<1> DEFINE m == v \o w
<1>1. Joined(v, w, m)
  BY DEF Joined
<1> HIDE DEF m
<1>2. /\ m \in Seq(Strings) /\ Len(m) = Len(v) + Len(w)
      /\ \A i \in 1 .. Len(v) + Len(w) :
           m[i] = IF i <= Len(v) THEN v[i] ELSE w[i - Len(v)]
  BY <1>1, JoinedItems
<1>3. Len(v) \in Nat /\ Len(w) \in Nat /\ Len(m) \in Nat
  BY <1>2, LenProperties
<1>4. \A i \in 1 .. Len(v) : m[i] = v[i]
  BY <1>2, <1>3
<1>5. SubSeq(v, 1, Len(v)) = SubSeq(m, 1, Len(v))
  BY <1>3, <1>4
<1>6. Len(v) <= Len(m)
  BY <1>2, <1>3
<1> QED BY <1>5, <1>6 DEF IsPrefix, m

LEMMA ReverseItems ==
  ASSUME NEW v \in Seq(Strings)
  PROVE  /\ Reverse(v) \in Seq(Strings) /\ Len(Reverse(v)) = Len(v)
         /\ \A i \in 1 .. Len(v) : Reverse(v)[i] = v[Len(v) - i + 1]
<1>1. Len(v) \in Nat /\ \A i \in 1 .. Len(v) : v[i] \in Strings
  BY LenProperties, ElementOfSeq
<1>2. \A i \in 1 .. Len(v) : Len(v) - i + 1 \in 1 .. Len(v)
  BY <1>1
<1>3. Reverse(v) = [i \in 1 .. Len(v) |-> v[Len(v) - i + 1]]
  BY DEF Reverse
<1> QED BY <1>1, <1>2, <1>3

LEMMA EndsWith ==
  ASSUME NEW v \in Seq(Strings), NEW w \in Seq(Strings)
  PROVE  IsSuffix(v, w \o v)
<1> DEFINE m == w \o v
           x == Reverse(v)
           y == Reverse(m)
<1>1. Joined(w, v, m)
  BY DEF Joined
<1> HIDE DEF m
<1>2. /\ m \in Seq(Strings) /\ Len(m) = Len(w) + Len(v)
      /\ \A i \in 1 .. Len(w) + Len(v) :
           m[i] = IF i <= Len(w) THEN w[i] ELSE v[i - Len(w)]
  BY <1>1, JoinedItems
<1>3. /\ x \in Seq(Strings) /\ Len(x) = Len(v)
      /\ \A i \in 1 .. Len(v) : x[i] = v[Len(v) - i + 1]
  BY ReverseItems
<1>4. /\ y \in Seq(Strings) /\ Len(y) = Len(m)
      /\ \A i \in 1 .. Len(m) : y[i] = m[Len(m) - i + 1]
  BY <1>2, ReverseItems
<1> HIDE DEF x, y
<1>5. Len(v) \in Nat /\ Len(w) \in Nat /\ Len(m) \in Nat
  BY <1>2, LenProperties
<1>6. \A i \in 1 .. Len(x) : y[i] = x[i]
  <2> SUFFICES ASSUME NEW i \in 1 .. Len(v) PROVE y[i] = x[i]
    BY <1>3
  <2> DEFINE j == Len(m) - i + 1
  <2>1. i \in 1 .. Len(m) /\ j \in 1 .. Len(w) + Len(v) /\ ~(j <= Len(w))
        /\ j - Len(w) = Len(v) - i + 1
    BY <1>2, <1>5
  <2>2. y[i] = m[j]
    BY <1>4, <2>1
  <2> HIDE DEF j
  <2>3. m[j] = v[j - Len(w)]
    BY <1>2, <2>1
  <2>4. x[i] = v[Len(v) - i + 1]
    BY <1>3
  <2> QED BY <2>1, <2>2, <2>3, <2>4
<1>7. SubSeq(x, 1, Len(x)) = SubSeq(y, 1, Len(x))
  BY <1>3, <1>5, <1>6
<1>8. Len(x) <= Len(y)
  BY <1>2, <1>3, <1>4, <1>5
<1> QED BY <1>7, <1>8 DEF IsSuffix, IsPrefix, m, x, y


\* Text of a --conf is there when the flags and the file are read, and stays.
LEMMA ConfInUser ==
  ASSUME NEW c \in CommandType, NEW k \in Keys, k \notin Overruled(c),
         NEW v, v = LastTyped(c, k), v # <<>>
  PROVE  /\ ConfProps(c)[k] = v
         /\ SetIfAbsent(ConfProps(c), FlagProps(c))[k] = v
         /\ UserProps(c)[k] = v
<1> DEFINE p == ConfProps(c)
           f == FlagProps(c)
           q == SetIfAbsent(p, f)
           g == FileProps(c)
           r == SetIfAbsent(q, g)
<1>1. p \in Properties /\ p[k] = v
  BY ConfPropsKeys
<1>2. Update(f) /\ Update(g)
  BY FlagPropsType, FilePropsType
<1>3. UserProps(c) = r
  BY DEF UserProps
<1> HIDE DEF p, f, g
<1>4. q \in Properties /\ q[k] = IF k \in DOMAIN f /\ p[k] = <<>> THEN f[k] ELSE p[k]
  BY <1>1, <1>2, SetIfAbsentKeys
<1>5. q[k] = v
  BY <1>1, <1>4
<1> HIDE DEF q
<1>6. r[k] = IF k \in DOMAIN g /\ q[k] = <<>> THEN g[k] ELSE q[k]
  BY <1>2, <1>4, SetIfAbsentKeys
<1> HIDE DEF r
<1> QED BY <1>1, <1>3, <1>5, <1>6 DEF p, f, q

\* ConfWins: text typed for --conf is the beginning or the end of the value,
\* from the parser to the submission.
LEMMA ConfStays == Inv => ConfWins
<1> SUFFICES ASSUME Inv, stage \notin {"start", "fetched", "rejected"},
                    NEW k \in Keys \ Overruled(cmd),
                    NEW v, v = LastTyped(cmd, k), v # <<>>, ~(k = "spark.jars" /\ v = <<"">>)
             PROVE  IsPrefix(v, props[k]) \/ IsSuffix(v, props[k])
  BY DEF ConfWins
<1> DEFINE u == UserProps(cmd)
<1>1. cmd \in CommandType /\ props \in Properties /\ stage \in Stages
  BY DEF Inv, TypeOK
<1>2. k \notin Managed
  BY DEF Overruled
<1>3. /\ ConfProps(cmd)[k] = v
      /\ SetIfAbsent(ConfProps(cmd), FlagProps(cmd))[k] = v
      /\ u[k] = v
  BY <1>1, ConfInUser
<1>4. v \in Seq(Strings)
  BY <1>1, <1>3, ConfPropsKeys DEF Properties
<1> HIDE DEF u
<1>5. IsPrefix(v, props[k]) \/ IsSuffix(v, props[k])
  <2>1. CASE stage \in {"parsed", "flagged", "filed"}
    <3>1. props[k] = v
      BY <1>3, <2>1 DEF Inv, EarlyFacts, u
    <3>2. v = v \o <<>>
      BY <1>4, ConcatEmptySeq
    <3> QED BY <1>4, <3>1, <3>2, BeginsWith, EmptySeq
  <2>2. CASE stage \in LateStages
    <3>1. Grown(u, props, cmd.app)
      BY <2>2 DEF Inv, LateFacts, u
    <3>2. CASE k # "spark.jars"
      <4>1. PICK w \in Seq(Strings) : props[k] = v \o w
        BY <1>4, <1>2, <1>3, <3>1, <3>2 DEF Grown
      <4> QED BY <1>4, <4>1, BeginsWith
    <3>3. CASE k = "spark.jars"
      <4> DEFINE a == <<cmd.app>>
      <4>1. a \in Seq(Strings)
        BY <1>1, CommandParts, OneText
      <4>2. v \notin Blank
        BY <1>4, <1>2, <3>3, Zenon DEF Blank
      <4>3. props[k] = v \/ props[k] = a \o v
        BY <1>3, <3>1, <3>3, <4>2 DEF Grown
      <4> HIDE DEF a
      <4>4. v = v \o <<>>
        BY <1>4, ConcatEmptySeq
      <4>5. IsPrefix(v, v)
        BY <1>4, <4>4, BeginsWith, EmptySeq
      <4>6. IsSuffix(v, a \o v)
        BY <1>4, <4>1, EndsWith
      <4> QED BY <4>3, <4>5, <4>6
    <3> QED BY <3>2, <3>3
  <2>3. stage \in {"parsed", "flagged", "filed"} \union LateStages
    BY <1>1 DEF Stages, LateStages
  <2> QED BY <2>1, <2>2, <2>3
<1> QED BY <1>5

THEOREM ConfIsKept == Spec => []ConfWins
BY ConfStays, AlwaysInv, PTL

------------------------------------------------------------------------------
(* No step takes an item out of a list. *)

Grows(p, q) ==
  \A k \in ListKeys \union ClassPathKeys : ToSet(p[k]) \ {""} \subseteq ToSet(q[k])

LEMMA LongerHasMore ==
  ASSUME NEW v \in Seq(Strings), NEW w \in Seq(Strings)
  PROVE  ToSet(v) \subseteq ToSet(v \o w) /\ ToSet(v) \subseteq ToSet(w \o v)
<1>1. ASSUME NEW a \in Seq(Strings), NEW b \in Seq(Strings), NEW m, Joined(a, b, m)
      PROVE  ToSet(a) \subseteq ToSet(m) /\ ToSet(b) \subseteq ToSet(m)
  <2>1. /\ m \in Seq(Strings) /\ Len(m) = Len(a) + Len(b)
        /\ \A i \in 1 .. Len(a) + Len(b) :
             m[i] = IF i <= Len(a) THEN a[i] ELSE b[i - Len(a)]
    BY <1>1, JoinedItems
  <2>2. /\ Len(a) \in Nat /\ Len(b) \in Nat /\ DOMAIN a = 1 .. Len(a)
        /\ DOMAIN b = 1 .. Len(b) /\ DOMAIN m = 1 .. Len(m)
    BY <2>1, LenProperties
  <2>3. \A i \in DOMAIN a : i \in DOMAIN m /\ m[i] = a[i]
    BY <2>1, <2>2
  <2>4. \A i \in DOMAIN b : i + Len(a) \in DOMAIN m /\ m[i + Len(a)] = b[i]
    BY <2>1, <2>2
  <2>5. ToSet(a) \subseteq ToSet(m)
    BY <2>3 DEF ToSet
  <2>6. ToSet(b) \subseteq ToSet(m)
    BY <2>4 DEF ToSet
  <2> QED BY <2>5, <2>6
<1>2. Joined(v, w, v \o w) /\ Joined(w, v, w \o v)
  BY DEF Joined
<1> QED BY <1>1, <1>2

LEMMA ExtendsGrows ==
  ASSUME NEW p \in Properties, NEW q \in Properties, Extends(p, q)
  PROVE  Grows(p, q)
<1> SUFFICES ASSUME NEW k \in ListKeys \union ClassPathKeys
             PROVE  ToSet(p[k]) \subseteq ToSet(q[k])
  BY DEF Grows
<1>1. k \in Keys \ Managed
  BY KeyPlaces
<1>2. PICK w \in Seq(Strings) : q[k] = p[k] \o w
  BY <1>1 DEF Extends
<1> DEFINE v == p[k]
<1>3. v \in Seq(Strings)
  BY <1>1 DEF Properties
<1> HIDE DEF v
<1>4. ToSet(v) \subseteq ToSet(v \o w)
  BY <1>3, LongerHasMore
<1> QED BY <1>2, <1>4 DEF v

LEMMA BlankHasNothing ==
  ASSUME NEW v \in Blank
  PROVE  \A x \in ToSet(v) : x = ""
<1>1. v = <<>> \/ v = <<"">>
  BY DEF Blank
<1>2. CASE v = <<>>
  <2>1. DOMAIN v = {}
    BY <1>2
  <2> QED BY <2>1 DEF ToSet
<1>3. CASE v = <<"">>
  <2>1. ASSUME NEW e, NEW w, w = <<e>>
        PROVE  \A i \in DOMAIN w : w[i] = e
    BY <2>1
  <2>2. \A i \in DOMAIN v : v[i] = ""
    BY <1>3, <2>1, Zenon
  <2> QED BY <2>2 DEF ToSet
<1> QED BY <1>1, <1>2, <1>3

LEMMA GrownGrows ==
  ASSUME NEW p \in Properties, NEW q \in Properties, NEW app \in Strings, Grown(p, q, app)
  PROVE  Grows(p, q)
<1> SUFFICES ASSUME NEW k \in ListKeys \union ClassPathKeys
             PROVE  ToSet(p[k]) \ {""} \subseteq ToSet(q[k])
  BY DEF Grows
<1> DEFINE v == p[k]
           a == <<app>>
<1>1. k \in Keys \ Managed
  BY KeyPlaces
<1>2. v \in Seq(Strings) /\ a \in Seq(Strings)
  BY <1>1, OneText DEF Properties
<1> HIDE DEF v
<1>3. CASE k # "spark.jars"
  <2>1. PICK w \in Seq(Strings) : q[k] = v \o w
    BY <1>1, <1>3 DEF Grown, v
  <2> QED BY <1>2, <2>1, LongerHasMore DEF v
<1>4. CASE k = "spark.jars" /\ v \in Blank
  <2>1. \A x \in ToSet(v) : x = ""
    BY <1>4, BlankHasNothing
  <2> QED BY <2>1 DEF v
<1>5. CASE k = "spark.jars" /\ v \notin Blank
  <2>1. q[k] = v \/ q[k] = a \o v
    BY <1>5 DEF Grown, v
  <2> HIDE DEF a
  <2>2. ToSet(v) \subseteq ToSet(a \o v)
    BY <1>2, LongerHasMore
  <2> QED BY <2>1, <2>2 DEF v
<1> QED BY <1>3, <1>4, <1>5

\* Before anything is parsed there is nothing to lose.
LEMMA NothingGrows ==
  ASSUME NEW p, NEW q, p = [k \in Keys |-> <<>>]
  PROVE  Grows(p, q)
<1> SUFFICES ASSUME NEW k \in ListKeys \union ClassPathKeys
             PROVE  ToSet(p[k]) \subseteq ToSet(q[k])
  BY DEF Grows
<1>1. p[k] = <<>>
  BY KeyPlaces
<1>2. DOMAIN p[k] = {}
  BY <1>1
<1> QED BY <1>2 DEF ToSet

LEMMA StepGrows == Inv /\ [Next]_vars => Grows(props, props')
<1> SUFFICES ASSUME Inv, [Next]_vars PROVE Grows(props, props')
  OBVIOUS
<1> DEFINE q == props'
<1>1. cmd \in CommandType /\ disp \in DispatcherType /\ props \in Properties
  BY DEF Inv, TypeOK
<1>2. CASE q = props
  BY <1>2 DEF Grows
<1>3. CASE stage = "fetched"
  <2>1. props = [k \in Keys |-> <<>>]
    BY <1>3 DEF Inv, EarlyFacts
  <2> HIDE DEF q
  <2>2. Grows(props, q)
    BY <2>1, NothingGrows
  <2> QED BY <2>2 DEF q
<1>4. CASE q = SetIfAbsent(props, FlagProps(cmd)) \/ q = SetIfAbsent(props, FileProps(cmd))
  <2>1. Update(FlagProps(cmd)) /\ Update(FileProps(cmd))
    BY <1>1, FlagPropsType, FilePropsType
  <2> HIDE DEF q
  <2>2. Extends(props, q) /\ q \in Properties
    BY <1>1, <1>4, <2>1, SetIfAbsentExtends, SetIfAbsentKeys
  <2>3. Grows(props, q)
    BY <1>1, <2>2, ExtendsGrows
  <2> QED BY <2>3 DEF q
<1>5. CASE q = ApplicationProps(props, cmd)
  <2> HIDE DEF q
  <2>1. Grown(props, q, cmd.app) /\ cmd.app \in Strings
    BY <1>1, <1>5, ApplicationStage, CommandParts
  <2>2. q \in Properties
    BY <2>1 DEF Grown
  <2>3. Grows(props, q)
    BY <1>1, <2>1, <2>2, GrownGrows
  <2> QED BY <2>3 DEF q
<1>6. CASE \/ q = ImageProps(props, cmd, disp) \/ q = SpaceProps(props, disp)
           \/ q = HdfsProps(props, disp) \/ q = KerberosProps(props, cmd, disp)
           \/ TlsValid(cmd) /\ q = TlsProps(props, cmd)
           \/ q = SaslProps(props, cmd)
  <2> HIDE DEF q
  <2>1. Later(props, q)
    BY <1>1, <1>6, ImageStage, SpaceStage, HdfsStage, KerberosStage, TlsStage, SaslStage
       DEF KerberosDone, TlsDone, SaslDone
  <2>2. Grows(props, q)
    BY <1>1, <2>1, ExtendsGrows DEF Later
  <2> QED BY <2>2 DEF q
<1>7. CASE Next
  BY <1>2, <1>3, <1>4, <1>5, <1>6, <1>7, NextSteps
<1>8. CASE UNCHANGED vars
  BY <1>2, <1>8 DEF vars
<1> QED BY <1>7, <1>8

\* ListsGrow: from the parsed command line to the submission no stage, and no
\* combination of security settings, takes an item out of a list.
THEOREM ListsOnlyGrow == Spec => ListsGrow
<1>1. Inv /\ [Next]_vars => [Grows(props, props')]_vars
  BY StepGrows
<1>2. Spec => [][Grows(props, props')]_vars
  BY <1>1, AlwaysInv, PTL DEF Spec
<1> QED BY <1>2 DEF ListsGrow, Grows

=============================================================================
