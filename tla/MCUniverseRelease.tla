-------------------------- MODULE MCUniverseRelease --------------------------
(***************************************************************************)
(* Values of the constants of UniverseRelease for TLC: one version of the  *)
(* service, a build with two artifacts, one with one and one with none.    *)
(***************************************************************************)
EXTENDS UniverseRelease, TLC

MCCount == ("full" :> 2) @@ ("thin" :> 1) @@ ("bare" :> 0)

\* The Universe already holds a release and a hotfix of the GA package.
MCExisting == (FALSE :> {0, 5}) @@ (TRUE :> {})

Plain ==
  [op |-> "release", build |-> "full", version |-> "v1", suffixed |-> FALSE,
   beta |-> FALSE, force |-> FALSE, dry |-> FALSE, image |-> NoImage,
   index |-> NoIndex, waits |-> FALSE, renames |-> FALSE]

Waiting == [Plain EXCEPT !.waits = TRUE]

\* Runs that end up in one directory, one of them forced, and a beta release
\* typed with and without its suffix.
SequentialConfigs ==
  {Waiting,
   [Waiting EXCEPT !.op = "move", !.build = "thin"],
   [Waiting EXCEPT !.build = "thin", !.force = TRUE],
   [Waiting EXCEPT !.beta = TRUE, !.suffixed = TRUE, !.renames = TRUE]}

\* Runs that share the Universe package and the image as well: hotfixes with a
\* chosen index, a build without artifacts, dry runs and rejected versions.
OverlapConfigs ==
  {[Plain EXCEPT !.build = "thin", !.image = "img", !.renames = TRUE],
   [Plain EXCEPT !.build = "bare", !.index = 7],
   [Plain EXCEPT !.build = "bare", !.index = 100],
   [Plain EXCEPT !.build = "thin", !.op = "move", !.force = TRUE],
   [Plain EXCEPT !.build = "thin", !.dry = TRUE, !.image = "img"],
   [Plain EXCEPT !.build = "bare", !.suffixed = TRUE],
   [Plain EXCEPT !.build = "thin", !.beta = TRUE, !.renames = TRUE]}

\* One unforced release and its retry, pushing one image.
RetryWorkloads == {[r \in Runs |-> [Plain EXCEPT !.build = "thin", !.image = "img"]]}

MCWorkloads == [Runs -> SequentialConfigs] \union [Runs -> OverlapConfigs]

RunSymmetry == Permutations(Runs)

=============================================================================
