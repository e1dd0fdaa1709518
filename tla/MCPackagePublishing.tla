------------------------- MODULE MCPackagePublishing -------------------------
(* Two runs that meet: uploads to random and to chosen directories, bundles, *)
(* and local servers, with inputs the builder accepts and others it refuses. *)
EXTENDS PackagePublishing

CONSTANTS r1, r2, d1, d2, darwin, linux

MCRuns      == {r1, r2}
MCDirs      == {d1, d2}
MCArtifacts == {darwin, linux}
MCPorts     == {1, 2}

Plain == [method |-> "aws", dir |-> d1, base |-> d1, named |-> FALSE, dry |-> FALSE,
          provided |-> <<darwin, linux>>, refs |-> {darwin, linux}, remote |-> {}, online |-> TRUE,
          files |-> <<"resource", "package">>, growing |-> FALSE, jenkins |-> FALSE, port |-> 0, cli |-> TRUE]

Chosen == [Plain EXCEPT !.named = TRUE]
Refused == [Chosen EXCEPT !.refs = {linux}, !.remote = {linux}]   \* no row in the manifest
Bundle == [Chosen EXCEPT !.method = "dcos"]
Local  == [Plain EXCEPT !.method = "http", !.online = FALSE, !.provided = <<darwin>>, !.refs = {darwin}]
Fixed  == [Local EXCEPT !.port = 1]

Universe == [name |-> "universe", uri |-> 0]
Bare   == {Universe}
Stale  == {[name |-> "local", uri |-> 2], Universe}
Shared == {Universe, [name |-> "other", uri |-> 1]}

\* Pairs of runs, with the repositories the cluster has.
Pairs ==
  {<<Chosen, [Chosen EXCEPT !.files = <<"package", "resource">>, !.online = FALSE], Bare>>,
   <<[Plain EXCEPT !.online = FALSE], [Chosen EXCEPT !.dir = d2, !.base = d2], Bare>>,
   <<[Chosen EXCEPT !.online = FALSE], [Chosen EXCEPT !.base = d2, !.provided = <<linux>>, !.refs = {linux}], Bare>>,
   <<[Chosen EXCEPT !.online = FALSE], Bundle, Bare>>, <<Bundle, Bundle, Bare>>,
   <<[Chosen EXCEPT !.dry = TRUE], [Plain EXCEPT !.remote = {darwin}], Bare>>,
   <<Refused, [Plain EXCEPT !.provided = <<linux>>], Bare>>,
   <<[Chosen EXCEPT !.provided = <<darwin, darwin>>], [Chosen EXCEPT !.files = <<"resource">>], Bare>>,
   <<[Bundle EXCEPT !.files = <<"resource">>], [Chosen EXCEPT !.files = <<"package">>, !.growing = TRUE], Bare>>,
   <<Local, Fixed, Stale>>, <<Fixed, Fixed, Shared>>,
   <<[Fixed EXCEPT !.jenkins = TRUE], [Local EXCEPT !.cli = FALSE], Bare>>}

MCWorkloads ==
  {[cfg |-> [r \in MCRuns |-> IF r = r1 THEN p[1] ELSE p[2]], repos |-> p[3]] : p \in Pairs}
==============================================================================
