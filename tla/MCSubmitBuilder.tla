--------------------------- MODULE MCSubmitBuilder ---------------------------
(***************************************************************************)
(* Command lines and dispatchers for TLC.  Every part of a command line    *)
(* comes from a small set that holds each branch of buildSubmitJson, and   *)
(* the parts that meet in one property are combined with each other.       *)
(***************************************************************************)
EXTENDS SubmitBuilder

\* Directories, and the prefix of binary secrets, are gone from file names.
MCSecretFile(s) ==
  CASE s = "/spark/__dcos_base64__keytab" -> "keytab"
    [] s = "/spark/tgt" -> "tgt"
    [] s = "/spark/sasl" -> "sasl"
    [] OTHER -> s

MCBaseName(s) ==
  CASE s = "http://host/a.jar" -> "a.jar"
    [] s = "http://host/app.jar" -> "app.jar"
    [] s = "http://host/app.py" -> "app.py"
    [] OTHER -> s

MCStrings ==
  Literals \union
  {"http://host/a.jar", "http://host/app.jar", "http://host/app.py",
   "http://host/data", "http://host/file", "http://host/hdfs", "a.jar",
   "app.jar", "app.py", "/user/a", "/user/b", "a", "b", "A", "B", "bob",
   "alice", "docker", "TLSv1.2", "own", "2G", "3G", "4G", "5G", "6G", "p", "q",
   "t", "n", "m", "mine", "flagged", "Main", "spark", "/spark", "kdc", "extra",
   "/spark/__dcos_base64__keytab", "/spark/tgt", "/spark/sasl", "keytab",
   "sasl", "ticket", "cookie", "/spark/store", "/spark/trust"}

Conf(key, val) == Token("conf", key, val)
Flag(key, val) == Token("flag", key, val)

Plain ==
  [tokens |-> <<>>, file |-> <<>>, env |-> <<>>, lang |-> "scala",
   app |-> "http://host/app.jar", class |-> "Main", image |-> "",
   principal |-> "", keytab |-> "", tgt |-> "", tgtValue |-> "",
   keystore |-> "", keystorePassword |-> "", keyPassword |-> "",
   truststore |-> "", truststorePassword |-> "",
   saslSecret |-> "", saslPath |-> ""]

\* The user's own secrets: as files, as files and environment, as environment.
FileSecrets ==
  <<Conf(NamesOf["driver"], <<"/user/a", "/user/b">>),
    Conf(FilesOf["driver"], <<"a", "b">>)>>
EnvSecrets ==
  <<Conf(NamesOf["driver"], <<"/user/a", "/user/b">>),
    Conf(EnvKeysOf["driver"], <<"A", "B">>)>>

TokenChoices ==
  {<<>>, FileSecrets, EnvSecrets,
   FileSecrets \o <<Conf(EnvKeysOf["driver"], <<"A", "B">>)>>,
   <<Conf("spark.yarn.principal", <<"bob">>),
     Conf("spark.mesos.containerizer", <<"docker">>),
     Conf("spark.ssl.protocol", <<"TLSv1.2">>),
     Conf("spark.mesos.driverEnv.KRB5", <<"own">>)>>,
   <<Flag("spark.jars", <<"http://host/a.jar">>),
     Conf("spark.mesos.uris", <<"http://host/data">>),
     Flag("spark.driver.memory", <<"2G">>)>>,
   <<Conf("spark.mesos.uris", <<"http://host/data">>),
     Flag("spark.jars", <<"http://host/a.jar">>)>>,
   <<Conf("spark.mesos.uris", <<"http://host/data">>),
     Conf("spark.driver.memory", <<"3G">>), Conf("spark.driver.memory", <<"4G">>),
     Flag("spark.driver.memory", <<"2G">>), Flag("spark.jars.packages", <<"p">>)>>,
   <<Flag("spark.driver.supervise", <<"true">>), Flag("spark.app.name", <<"n">>),
     Conf(ImageKey, <<"mine">>)>>,
   <<Flag("spark.app.name", <<"n">>), Flag("spark.app.name", <<"m">>)>>,
   <<Conf("spark.jars.ivy", <<"own">>), Flag("spark.jars.packages", <<"p">>),
     Conf("spark.ssl.keyPassword", <<"">>), Conf("spark.jars", <<"">>),
     Conf(FilesOf["driver"], <<"">>), Flag("spark.app.name", <<"">>)>>}

FileChoices ==
  {<<>>,
   <<[key |-> "spark.mesos.uris",    val |-> <<"http://host/data">>],
     [key |-> "spark.mesos.uris",    val |-> <<"http://host/file">>],
     [key |-> "spark.driver.memory", val |-> <<"5G">>],
     [key |-> "spark.jars",          val |-> <<"http://host/a.jar">>]>>}

KerberosChoices ==
  {Plain,
   [Plain EXCEPT !.principal = "alice"],
   [Plain EXCEPT !.principal = "alice", !.keytab = "/spark/__dcos_base64__keytab"],
   [Plain EXCEPT !.keytab = "/spark/__dcos_base64__keytab"],
   [Plain EXCEPT !.principal = "alice", !.tgt = "/spark/tgt"],
   [Plain EXCEPT !.principal = "alice", !.tgtValue = "ticket"],
   [Plain EXCEPT !.principal = "alice", !.tgt = "/spark/tgt", !.tgtValue = "ticket"],
   [Plain EXCEPT !.principal = "alice", !.tgt = "/spark/tgt",
                 !.keytab = "/spark/__dcos_base64__keytab"]}

WithStore(c) ==
  [c EXCEPT !.keystore = "/spark/store", !.keystorePassword = "p", !.keyPassword = "q"]

TlsChoices(c) ==
  {c, [WithStore(c) EXCEPT !.keyPassword = ""], WithStore(c),
   [WithStore(c) EXCEPT !.truststore = "/spark/trust"],
   [WithStore(c) EXCEPT !.truststore = "/spark/trust", !.truststorePassword = "t"]}

SaslChoices(c) ==
  {c, [c EXCEPT !.saslSecret = "cookie"], [c EXCEPT !.saslPath = "/spark/sasl"],
   [c EXCEPT !.saslSecret = "cookie", !.saslPath = "/spark/sasl"]}

Secured == UNION {SaslChoices(d) : d \in UNION {TlsChoices(c) : c \in KerberosChoices}}

Typed(c) ==
  {[c EXCEPT !.tokens = ts, !.file = f] : ts \in TokenChoices, f \in FileChoices}

\* Applications, images and the environment do not meet the security settings.
Applications ==
  {[Plain EXCEPT !.lang = l, !.app = IF l = "scala" THEN "http://host/app.jar"
                                      ELSE "http://host/app.py",
                 !.class = k, !.image = i, !.env = e] :
     l \in {"scala", "python"}, k \in {"", "Main"}, i \in {"", "flagged"}, e \in {<<>>, <<"">>, <<"6G">>}}

\* Extra class path entries, with and without jars.
ClassPathCommands ==
  {[c EXCEPT !.tokens = ts] : c \in Applications, ts \in
     {<<Flag("spark.driver.extraClassPath", <<"extra">>)>>,
      <<Flag("spark.driver.extraClassPath", <<"extra">>),
        Flag("spark.jars", <<"http://host/a.jar">>)>>}}

MCCommands == UNION {Typed(c) : c \in Secured \union Applications} \union ClassPathCommands

\* A dispatcher with everything, one without extras, and an error page.
MCDispatchers ==
  {[image |-> "spark", id |-> "/spark", hdfs |-> "http://host/hdfs", krb5 |-> "kdc"],
   [image |-> "spark", id |-> "/spark", hdfs |-> "", krb5 |-> ""],
   [image |-> "", id |-> "", hdfs |-> "", krb5 |-> ""]}

\* The walkthrough for environment secrets, with a keystore.
StoreCommands == {[c EXCEPT !.tokens = ts] :
                    c \in UNION {SaslChoices(WithStore(d)) : d \in {Plain}},
                    ts \in {<<>>, FileSecrets, EnvSecrets}}

=============================================================================
