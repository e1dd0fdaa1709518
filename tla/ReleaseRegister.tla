--------------------------- MODULE ReleaseRegister ---------------------------
(***************************************************************************)
(* What release_builder.py promises about release directories, without the *)
(* uploads, checks and failures that keep the promise: a directory is      *)
(* announced by one run; another run announces it again only when it was   *)
(* told to force the upload; an announcement is never taken back.          *)
(***************************************************************************)
CONSTANTS Runs, Dirs

VARIABLES
  forced,      \* [Runs -> BOOLEAN]: was the run told to overwrite?
  announced    \* [Dirs -> SUBSET Runs]: the runs that announced a directory

registerVars == <<forced, announced>>

Init ==
  /\ forced \in [Runs -> BOOLEAN]
  /\ announced = [d \in Dirs |-> {}]

Announce(r, d) ==
  /\ announced[d] = {} \/ forced[r]
  /\ announced' = [announced EXCEPT ![d] = @ \union {r}]
  /\ UNCHANGED forced

Next == \E r \in Runs, d \in Dirs : Announce(r, d)

Spec == Init /\ [][Next]_registerVars

=============================================================================
