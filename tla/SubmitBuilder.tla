---------------------------- MODULE SubmitBuilder ----------------------------
(***************************************************************************)
(* `dcos spark run': the command line turns --submit-args, an optional     *)
(* properties file and the dispatcher's Marathon definition into the       *)
(* properties of a CreateSubmissionRequest, in the fixed order of          *)
(* buildSubmitJson, and posts it (cli/dcos-spark).                         *)
(*                                                                         *)
(* A property is the sequence of the items of its value, <<>> when it is   *)
(* absent: single values have one item, comma and colon lists have many.   *)
(* A value that is given may be the empty text, <<"">>.  Paths, file names,*)
(* passwords and URLs are opaque strings, "" when the flag is not given.   *)
(***************************************************************************)
EXTENDS Naturals, Sequences, SequencesExt

CONSTANTS
  Strings,          \* the texts that occur, "" for a flag not given
  Commands,         \* command lines a user may type
  Dispatchers,      \* what Marathon may answer about the dispatcher
  BaseName(_),      \* last component of a URL; jars land there in the sandbox
  SecretFile(_)     \* prepareBase64Secret: file name of a secret, from its path

TaskTypes == {"driver", "executor"}
NamesOf == [driver   |-> "spark.mesos.driver.secret.names",
            executor |-> "spark.mesos.executor.secret.names"]
FilesOf == [driver   |-> "spark.mesos.driver.secret.filenames",
            executor |-> "spark.mesos.executor.secret.filenames"]
EnvKeysOf == [driver   |-> "spark.mesos.driver.secret.envkeys",
              executor |-> "spark.mesos.executor.secret.envkeys"]

SecretNames == {NamesOf[t] : t \in TaskTypes}
SecretFiles == {FilesOf[t] : t \in TaskTypes}
SecretEnvs  == {EnvKeysOf[t] : t \in TaskTypes}

\* Lists the builder appends to; the last two are the class paths of --jars.
ListKeys ==
  SecretNames \union SecretFiles \union SecretEnvs \union
  {"spark.mesos.driver.secret.values", "spark.jars", "spark.mesos.uris",
   "spark.mesos.driver.labels", "spark.mesos.task.labels"}
ClassPathKeys == {"spark.driver.extraClassPath", "spark.executor.extraClassPath"}

\* spark.driver.memory stands for the three settings whose flag has a default;
\* the KRB5 variables stand for the four that describe the KDC.
KdcKeys  == {"spark.mesos.driverEnv.KRB5", "spark.executorEnv.KRB5"}
SaslKeys == {"spark.authenticate", "spark.authenticate.enableSaslEncryption"}
ValueKeys ==
  {"spark.driver.memory", "spark.driver.supervise", "spark.app.name",
   "spark.jars.packages", "spark.jars.ivy", "spark.master",
   "spark.submit.deployMode", "spark.mesos.executor.docker.image",
   "spark.mesos.executor.docker.forcePullImage", "spark.mesos.containerizer",
   "spark.yarn.principal", "spark.yarn.keytab",
   "spark.mesos.driverEnv.KRB5CCNAME", "spark.ssl.enabled",
   "spark.ssl.keystore", "spark.ssl.keyStorePassword", "spark.ssl.keyPassword",
   "spark.ssl.protocol", "spark.ssl.trustStore",
   "spark.ssl.trustStorePassword", "spark.authenticate.secret",
   "spark.authenticate.secret.file", "spark.executorEnv._SPARK_AUTH_SECRET",
   "spark.executorEnv._SPARK_AUTH_SECRET_FILE"}
Keys == ListKeys \union ClassPathKeys \union ValueKeys \union KdcKeys \union SaslKeys

\* Set by the builder whatever the user asked for.
Managed ==
  SaslKeys \union
  {"spark.master", "spark.submit.deployMode", "spark.mesos.containerizer",
   "spark.yarn.principal", "spark.yarn.keytab",
   "spark.mesos.driverEnv.KRB5CCNAME", "spark.ssl.enabled",
   "spark.ssl.keystore", "spark.ssl.trustStore", "spark.authenticate.secret",
   "spark.authenticate.secret.file", "spark.executorEnv._SPARK_AUTH_SECRET",
   "spark.executorEnv._SPARK_AUTH_SECRET_FILE"}

Properties == [Keys -> Seq(Strings)]

Values == Seq(Strings) \ {<<>>}

\* Not given, or given as the empty text.
Blank == {<<>>, <<"">>}

\* --conf key=val, or the flag of that key
TokenType == [opt : {"conf", "flag"}, key : Keys, val : Values]

LineType == [key : Keys, val : Values]

CommandType ==
  [tokens     : Seq(TokenType),      \* in the order typed, up to the application
   file       : Seq(LineType),       \* the properties file
   env        : Seq(Strings),        \* SPARK_DRIVER_MEMORY
   lang       : {"scala", "python", "r"},
   app        : Strings, class : Strings, image : Strings,
   principal  : Strings, keytab : Strings, tgt : Strings, tgtValue : Strings,
   keystore   : Strings, keystorePassword : Strings, keyPassword : Strings,
   truststore : Strings, truststorePassword : Strings,
   saslSecret : Strings, saslPath : Strings]

\* "" for what the answer lacks: an error page lacks everything.
DispatcherType == [image : Strings, id : Strings, hdfs : Strings, krb5 : Strings]

\* Texts the builder writes by itself.
Literals == {"", "1G", "true", "cluster", "mesos", "sandbox/.ivy2", "tgt",
             "tgt.base64", "hdfs-site.xml", "core-site.xml", "server.jks",
             "trust.jks", "TLS", "DCOS_SPARK_KERBEROS_KEYTAB",
             "DCOS_SPARK_KEYSTORE", "DCOS_SPARK_TRUSTSTORE"}

ASSUME LiteralsAssumption    == Literals \subseteq Strings
ASSUME CommandsAssumption    == Commands \subseteq CommandType
ASSUME DispatchersAssumption == Dispatchers \subseteq DispatcherType
ASSUME BaseNameAssumption    == \A s \in Strings : BaseName(s) \in Strings
ASSUME SecretFileAssumption  == \A s \in Strings : SecretFile(s) \in Strings

VARIABLES
  cmd,      \* the command line
  disp,     \* the dispatcher's definition
  stage,    \* the last stage of buildSubmitJson that is done
  props     \* args.properties

vars == <<cmd, disp, stage, props>>

Stages == {"start", "fetched", "parsed", "flagged", "filed", "application",
           "image", "space", "hdfs", "kerberos", "tls", "built",
           "accepted", "rejected"}

TypeOK ==
  /\ cmd \in CommandType
  /\ disp \in DispatcherType
  /\ stage \in Stages
  /\ props \in Properties

------------------------------------------------------------------------------
(* Updates of args.properties (utils.go). *)

Overwrite(p, f) == [k \in Keys |-> IF k \in DOMAIN f THEN f[k] ELSE p[k]]

SetIfAbsent(p, f) ==
  [k \in Keys |-> IF k \in DOMAIN f /\ p[k] = <<>> THEN f[k] ELSE p[k]]

\* Mutants of AppendAll: only the appended properties are left; the old value
\* of the appended ones is lost.
AppendAllFresh(p, f) == [k \in DOMAIN f |-> p[k] \o f[k]]

AppendAllReplaced(p, f) == [k \in Keys |-> IF k \in DOMAIN f THEN f[k] ELSE p[k]]

AppendAll(p, f) == [k \in Keys |-> IF k \in DOMAIN f THEN p[k] \o f[k] ELSE p[k]]

\* Mutant of AddSecrets: the environment keys are always appended.
AddSecretsAlways(p, paths, files, envs) ==
  [k \in Keys |-> CASE k \in SecretNames -> p[k] \o paths
                    [] k \in SecretFiles -> p[k] \o files
                    [] k \in SecretEnvs  -> p[k] \o envs
                    [] OTHER -> p[k]]

\* Secrets for drivers and executors: paths and file names are appended; the
\* environment keys too, but only to a list that is there already.
AddSecrets(p, paths, files, envs) ==
  [k \in Keys |-> CASE k \in SecretNames -> p[k] \o paths
                    [] k \in SecretFiles -> p[k] \o files
                    [] k \in SecretEnvs /\ p[k] # <<>> -> p[k] \o envs
                    [] OTHER -> p[k]]

To(keys, item) == [k \in keys |-> <<item>>]

------------------------------------------------------------------------------
(* Command line, environment and properties file. *)

FlagKeys == {"spark.driver.memory", "spark.driver.supervise", "spark.app.name",
             "spark.driver.extraClassPath", "spark.jars", "spark.jars.packages"}

Token(opt, key, val) == [opt |-> opt, key |-> key, val |-> val]

FlagOf(tokens, key) ==
  SelectInSeq(tokens, LAMBDA t : t.opt = "flag" /\ t.key = key)

\* The first --key of the tokens is followed by further --conf settings.
FollowedBy(tokens, key, confs) ==
  LET i == FlagOf(tokens, key)
  IN  IF i = 0 THEN tokens
      ELSE SubSeq(tokens, 1, i) \o confs \o SubSeq(tokens, i + 1, Len(tokens))

\* processJarsFlag: the sandbox fetches the jars, the class paths name them.
WithJars(tokens) ==
  LET i    == FlagOf(tokens, "spark.jars")
      jars == tokens[i].val
      path == [j \in DOMAIN jars |-> BaseName(jars[j])]
  IN  FollowedBy(tokens, "spark.jars",
        <<Token("conf", "spark.mesos.uris", jars),
          Token("conf", "spark.driver.extraClassPath", path),
          Token("conf", "spark.executor.extraClassPath", path)>>)

\* processPackagesFlag
WithPackages(tokens) ==
  FollowedBy(tokens, "spark.jars.packages",
             <<Token("conf", "spark.jars.ivy", <<"sandbox/.ivy2">>)>>)

Transformed(c) == WithPackages(WithJars(c.tokens))

\* The parser refuses a flag given twice; of two --conf the later one counts.
Repeated(c) ==
  \E i, j \in DOMAIN c.tokens :
    /\ i # j /\ c.tokens[i].opt = "flag" /\ c.tokens[j].opt = "flag"
    /\ c.tokens[i].key = c.tokens[j].key

ConfOf(tokens, key) ==
  SelectLastInSeq(tokens, LAMBDA t : t.opt = "conf" /\ t.key = key)

ConfProps(c) ==
  LET ts == Transformed(c)
  IN  [k \in Keys |-> IF ConfOf(ts, k) = 0 THEN <<>> ELSE ts[ConfOf(ts, k)].val]

\* getValsFromPropertiesFile: the later of two lines counts.
LineOf(lines, key) == SelectLastInSeq(lines, LAMBDA l : l.key = key)

FileProps(c) ==
  [k \in {c.file[i].key : i \in DOMAIN c.file} |-> c.file[LineOf(c.file, k)].val]

\* A flag, else its environment variable, else its default.
FlagValue(c, key) ==
  LET ts == Transformed(c)
  IN  IF FlagOf(ts, key) # 0 THEN ts[FlagOf(ts, key)].val
      ELSE IF key # "spark.driver.memory" THEN <<>>
      ELSE IF c.env \notin Blank THEN c.env ELSE <<"1G">>

\* A flag with an empty text does not count.
FlagProps(c) ==
  [k \in FlagKeys |-> IF FlagValue(c, k) \in Blank THEN <<>> ELSE FlagValue(c, k)]

------------------------------------------------------------------------------
(* Application, image, labels and HDFS. *)

\* parseApplicationFile; its error for a class with an R or Python application
\* is not looked at, and the class stays.
MainClass(c) == IF c.lang # "scala" /\ c.class = "" THEN BaseName(c.app) ELSE c.class

ApplicationProps(p, c) ==
  LET q == Overwrite(p, [k \in {"spark.submit.deployMode"} |-> <<"cluster">>])
      r == Overwrite(q, [k \in {"spark.master"} |-> <<"mesos">>])
      s == IF c.lang = "scala"
           THEN [r EXCEPT !["spark.jars"] = IF @ \in Blank THEN <<c.app>> ELSE <<c.app>> \o @]
           ELSE r
  IN  SetIfAbsent(s, To({"spark.app.name"}, MainClass(c)))

ImageKey == "spark.mesos.executor.docker.image"

ChosenImage(c, d) == IF c.image # "" THEN c.image ELSE d.image

ImageProps(p, c, d) ==
  SetIfAbsent(SetIfAbsent(p, To({ImageKey}, ChosenImage(c, d))),
              To({"spark.mesos.executor.docker.forcePullImage"}, "true"))

SpaceProps(p, d) ==
  AppendAll(p, To({"spark.mesos.driver.labels", "spark.mesos.task.labels"}, d.id))

HdfsProps(p, d) ==
  IF d.hdfs = "" THEN p
  ELSE AppendAll(p, [k \in {"spark.mesos.uris"} |-> <<"hdfs-site.xml", "core-site.xml">>])

------------------------------------------------------------------------------
(* security.go *)

Mesos(p) == Overwrite(p, To({"spark.mesos.containerizer"}, "mesos"))

PrincipalOf(p, c) ==
  IF p["spark.yarn.principal"] # <<>> THEN p["spark.yarn.principal"][1]
  ELSE c.principal

KerberosValid(c) ==
  /\ c.keytab # "" \/ c.tgt # "" \/ c.tgtValue # ""
  /\ c.keytab # "" => c.tgtValue = "" /\ c.tgt = ""
  /\ c.tgt # "" => c.tgtValue = ""

\* addConfigForKerberosKeytabs
TicketSecret(p, path, key) ==
  Overwrite(AddSecrets(p, <<path>>, <<SecretFile(path)>>, <<"DCOS_SPARK_KERBEROS_KEYTAB">>),
            To({key}, SecretFile(path)))

KerberosProps(p, c, d) ==
  LET q == Overwrite(p, To({"spark.yarn.principal"}, c.principal))
      r == Mesos(IF d.krb5 = "" THEN q ELSE SetIfAbsent(q, To(KdcKeys, d.krb5)))
  IN  CASE c.keytab # "" -> TicketSecret(r, c.keytab, "spark.yarn.keytab")
        [] c.keytab = "" /\ c.tgt # "" ->
             TicketSecret(r, c.tgt, "spark.mesos.driverEnv.KRB5CCNAME")
        [] OTHER ->
             Overwrite(
               AppendAll(AppendAll(r, To({"spark.mesos.driver.secret.values"}, c.tgtValue)),
                         To({FilesOf["driver"]}, "tgt.base64")),
               To({"spark.mesos.driverEnv.KRB5CCNAME"}, "tgt"))

\* Mutant of TlsValid: the truststore's password is not asked for.
TlsValidKeystoreOnly(c) == c.keystorePassword # "" /\ c.keyPassword # ""

TlsValid(c) ==
  /\ c.keystorePassword # "" /\ c.keyPassword # ""
  /\ c.truststore # "" => c.truststorePassword # ""

\* setupTLSArgs.  The truststore secret follows the keystore secret.
TlsProps(p, c) ==
  LET more == c.truststore # ""
      If(s) == IF more THEN s ELSE <<>>
      q == Overwrite(Overwrite(Mesos(p), To({"spark.ssl.enabled"}, "true")),
                     To({"spark.ssl.keystore"}, "server.jks"))
      r == IF more
           THEN SetIfAbsent(Overwrite(q, To({"spark.ssl.trustStore"}, "trust.jks")),
                            To({"spark.ssl.trustStorePassword"}, c.truststorePassword))
           ELSE q
      s == AddSecrets(r, <<c.keystore>> \o If(<<c.truststore>>),
                      <<"server.jks">> \o If(<<"trust.jks">>),
                      <<"DCOS_SPARK_KEYSTORE">> \o If(<<"DCOS_SPARK_TRUSTSTORE">>))
      t == SetIfAbsent(s, To({"spark.ssl.keyStorePassword"}, c.keystorePassword))
      u == SetIfAbsent(t, To({"spark.ssl.keyPassword"}, c.keyPassword))
  IN  SetIfAbsent(u, To({"spark.ssl.protocol"}, "TLS"))

\* setupSaslProperties
SaslByValue(p, c) ==
  Overwrite(Overwrite(Mesos(p), To(SaslKeys, "true")),
            To({"spark.authenticate.secret",
                "spark.executorEnv._SPARK_AUTH_SECRET"}, c.saslSecret))

\* Mutant of SaslByFile: the containerizer is left as it is.
SaslByFileAnyContainer(p, c) ==
  LET file == SecretFile(c.saslPath)
  IN  AddSecrets(
        Overwrite(Overwrite(p, To(SaslKeys, "true")),
                  To({"spark.authenticate.secret.file",
                      "spark.executorEnv._SPARK_AUTH_SECRET_FILE"}, file)),
        <<c.saslPath>>, <<file>>, <<file>>)

\* setupFileBasedSaslProperties
SaslByFile(p, c) ==
  LET file == SecretFile(c.saslPath)
  IN  AddSecrets(
        Overwrite(Overwrite(Mesos(p), To(SaslKeys, "true")),
                  To({"spark.authenticate.secret.file",
                      "spark.executorEnv._SPARK_AUTH_SECRET_FILE"}, file)),
        <<c.saslPath>>, <<file>>, <<file>>)

SaslProps(p, c) ==
  LET q == IF c.saslSecret = "" THEN p ELSE SaslByValue(p, c)
  IN  IF c.saslPath = "" THEN q ELSE SaslByFile(q, c)

------------------------------------------------------------------------------

Init ==
  /\ cmd \in Commands
  /\ disp \in Dispatchers
  /\ stage = "start"
  /\ props = [k \in Keys |-> <<>>]

\* A stage of buildSubmitJson: from, to, and the properties after it.
Advance(from, to, p) ==
  /\ stage = from
  /\ stage' = to
  /\ props' = p
  /\ UNCHANGED <<cmd, disp>>

Reject(from) == Advance(from, "rejected", props)

\* fetchMarathonConfig: Marathon is asked first; the answer may be no JSON.
FetchMarathonConfig == Advance("start", "fetched", props) \/ Reject("start")

ParseArgs ==
  \/ ~Repeated(cmd) /\ Advance("fetched", "parsed", ConfProps(cmd))
  \/ Repeated(cmd) /\ Reject("fetched")

ApplyFlags == Advance("parsed", "flagged", SetIfAbsent(props, FlagProps(cmd)))

\* Mutant of ApplyFile: the file replaces what is set already.
ApplyFileOver == Advance("flagged", "filed", Overwrite(props, FileProps(cmd)))

ApplyFile == Advance("flagged", "filed", SetIfAbsent(props, FileProps(cmd)))

SetApplication == Advance("filed", "application", ApplicationProps(props, cmd))

SetImage ==
  \/ /\ props[ImageKey] # <<>> \/ ChosenImage(cmd, disp) # ""
     /\ Advance("application", "image", ImageProps(props, cmd, disp))
  \/ /\ props[ImageKey] = <<>> /\ ChosenImage(cmd, disp) = ""
     /\ Reject("application")

LabelSpace ==
  \/ disp.id # "" /\ Advance("image", "space", SpaceProps(props, disp))
  \/ disp.id = "" /\ Reject("image")

AddHdfs == Advance("space", "hdfs", HdfsProps(props, disp))

SetupKerberos ==
  \/ PrincipalOf(props, cmd) = "" /\ Advance("hdfs", "kerberos", props)
  \/ /\ PrincipalOf(props, cmd) # "" /\ KerberosValid(cmd)
     /\ Advance("hdfs", "kerberos", KerberosProps(props, cmd, disp))
  \/ /\ PrincipalOf(props, cmd) # "" /\ ~KerberosValid(cmd)
     /\ Reject("hdfs")

SetupTLS ==
  \/ cmd.keystore = "" /\ Advance("kerberos", "tls", props)
  \/ /\ cmd.keystore # "" /\ TlsValid(cmd)
     /\ Advance("kerberos", "tls", TlsProps(props, cmd))
  \/ cmd.keystore # "" /\ ~TlsValid(cmd) /\ Reject("kerberos")

SetupSASL == Advance("tls", "built", SaslProps(props, cmd))

\* The dispatcher takes the submission, or the command line gives up.
Submit == Advance("built", "accepted", props) \/ Reject("built")

Next ==
  \/ FetchMarathonConfig \/ ParseArgs \/ ApplyFlags \/ ApplyFile
  \/ SetApplication \/ SetImage \/ LabelSpace \/ AddHdfs
  \/ SetupKerberos \/ SetupTLS \/ SetupSASL \/ Submit

Spec == Init /\ [][Next]_vars

------------------------------------------------------------------------------
(* Properties. *)

Built == stage \in {"built", "accepted"}

\* What the user's own settings amount to, before the builder adds its own.
UserProps(c) ==
  SetIfAbsent(SetIfAbsent(ConfProps(c), FlagProps(c)), FileProps(c))

KerberosOn(c) == PrincipalOf(UserProps(c), c) # ""

\* The secret lists are zipped: the secret mounted as each file of a task.
Mounted(t) ==
  {<<props[NamesOf[t]][i], props[FilesOf[t]][i]>> :
     i \in DOMAIN props[NamesOf[t]] \intersect DOMAIN props[FilesOf[t]]}

\* Each secret with the file where another property tells Spark to look.
Credentials(c) ==
  LET At(on, path, key) == IF on /\ path # "" THEN {<<path, props[key][1]>>} ELSE {}
  IN  At(KerberosOn(c), c.keytab, "spark.yarn.keytab")
        \union At(KerberosOn(c), c.tgt, "spark.mesos.driverEnv.KRB5CCNAME")
        \union At(TRUE, c.keystore, "spark.ssl.keystore")
        \union At(c.keystore # "", c.truststore, "spark.ssl.trustStore")
        \union At(TRUE, c.saslPath, "spark.authenticate.secret.file")

\* "there needs to be an equal number of sinks and secret sources"
SinksMatch(p) ==
  \A t \in TaskTypes :
    /\ Len(p[NamesOf[t]]) = Len(p[FilesOf[t]])
    /\ p[EnvKeysOf[t]] # <<>> => Len(p[EnvKeysOf[t]]) = Len(p[NamesOf[t]])

\* A user's secrets, a keytab or a ticket, the stores and the SASL secret end
\* up in three lists that Spark zips: each credential is mounted, in driver and
\* executors, under the very file name another property refers to, and the
\* lists stay in step.  A ticket given by value takes a file name without a
\* secret name and is not meant for such company.
SecretsDelivered ==
  Built /\ SinksMatch(UserProps(cmd)) /\ ~(KerberosOn(cmd) /\ cmd.tgtValue # "")
    => /\ SinksMatch(props)
       /\ \A t \in TaskTypes : Credentials(cmd) \subseteq Mounted(t)

\* "Secrets are only supported for Mesos containerizer": whoever adds a secret
\* sets the containerizer, over a user's choice of another one.
SecretsNeedMesos ==
  Built /\ (\E t \in TaskTypes : Len(props[FilesOf[t]]) > Len(UserProps(cmd)[FilesOf[t]]))
    => props["spark.mesos.containerizer"] = <<"mesos">>

\* The text that is typed last for a key: by --conf, or by --jars, which asks
\* for the download of its jars and names them on the class paths.
LastTyped(c, k) ==
  LET ts   == c.tokens
      i    == FlagOf(ts, "spark.jars")
      jars == ts[i].val
      last == ConfOf(ts, k)
  IN  CASE k = "spark.mesos.uris" /\ last < i -> jars
        [] k \in ClassPathKeys /\ last < i -> [j \in DOMAIN jars |-> BaseName(jars[j])]
        [] OTHER -> IF last = 0 THEN <<>> ELSE ts[last].val

\* Keys that the builder manages, and the one --packages writes to.
Overruled(c) ==
  Managed
    \union (IF FlagOf(c.tokens, "spark.jars.packages") = 0 THEN {} ELSE {"spark.jars.ivy"})

\* Of the texts typed for a key the last one counts, those of --jars included,
\* whatever is put in and taken out of the command line on its way to the
\* parser: flags and the properties file do not replace it, the builder adds in
\* front of or behind a list.  An empty list of jars is the one text that is not
\* kept.
ConfWins ==
  stage \notin {"start", "fetched", "rejected"} =>
    \A k \in Keys \ Overruled(cmd) :
      LET text == LastTyped(cmd, k)
      IN  text # <<>> /\ ~(k = "spark.jars" /\ text = <<"">>)
          => IsPrefix(text, props[k]) \/ IsSuffix(text, props[k])

\* A submission that passed validation carries everything its security needs:
\* one source of the Kerberos ticket, the principal given with its flag, over one
\* set as a property, and the KDC's description for drivers and for executors,
\* both passwords of a keystore, the password of a truststore.  No password is
\* empty unless the user set it so.  PrincipalSubmitted is about a principal
\* without the flag.
SecurityComplete ==
  LET Given(k) == /\ props[k] # <<>>
                  /\ props[k] = <<"">> => UserProps(cmd)[k] = <<"">>
  IN
  Built =>
    /\ KerberosOn(cmd) =>
         /\ \E s \in {"keytab", "tgt", "tgtValue"} :
              \A r \in {"keytab", "tgt", "tgtValue"} : (cmd[r] # "") <=> (r = s)
         /\ cmd.principal # "" => props["spark.yarn.principal"] = <<cmd.principal>>
         /\ disp.krb5 # "" => \A k \in KdcKeys : props[k] # <<>>
    /\ cmd.keystore # "" =>
         /\ Given("spark.ssl.keyStorePassword") /\ Given("spark.ssl.keyPassword")
         /\ cmd.truststore # "" => Given("spark.ssl.trustStorePassword")

\* "Using Kerberos principal '%s'": a submission set up for Kerberos goes out
\* with a principal, whichever way the user named it.
PrincipalSubmitted == Built /\ KerberosOn(cmd) => props["spark.yarn.principal"] # <<"">>

\* appendToProperty and the copy of the application to the front of spark.jars:
\* no step takes an item out of a list once the list is there.
ListsGrow ==
  [][\A k \in ListKeys \union ClassPathKeys :
       ToSet(props[k]) \ {""} \subseteq ToSet(props'[k])]_vars

\* "If you specify environment-based secrets ... the keystore and truststore
\* secrets will also show up as environment-based secrets": besides, they are
\* mounted as the files they are configured as.
StoresDelivered ==
  Built /\ cmd.keystore # "" =>
    \A t \in TaskTypes : <<cmd.keystore, props["spark.ssl.keystore"][1]>> \in Mounted(t)

=============================================================================
