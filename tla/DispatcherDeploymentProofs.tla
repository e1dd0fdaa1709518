---------------------- MODULE DispatcherDeploymentProofs ----------------------
(***************************************************************************)
(* Proofs about DispatcherDeployment for any number of services, workers   *)
(* and runs: types, no dispatcher starts unprepared, and the files list    *)
(* what was installed.                                                     *)
(***************************************************************************)
EXTENDS DispatcherDeployment, TLAPS

LEMMA RoleCases ==
  /\ "drivers" \in Roles /\ "executors" \in Roles
  /\ \A role \in Roles : role = "drivers" \/ role = "executors"
  BY DEF Roles

\* The names of the steps of a quota are different from each other and from
\* the names of all other steps.
LEMMA QuotaSteps ==
  /\ Clearing["drivers"] = "clear drivers quota"
  /\ Clearing["executors"] = "clear executors quota"
  /\ Creating["drivers"] = "create drivers quota"
  /\ Creating["executors"] = "create executors quota"
  /\ AfterQuota["drivers"] = "clear executors quota"
  /\ AfterQuota["executors"] = "grant"
  BY DEF Clearing, Creating, AfterQuota

LEMMA BusySteps ==
  Busy = {"security", "grant", "check", "install", "wait",
          "clear drivers quota", "create drivers quota",
          "clear executors quota", "create executors quota"}
  BY QuotaSteps DEF Busy, Roles

------------------------------------------------------------------------------
(* Types. *)

\* Goto, Finish and Retry keep the types of what they change.
LEMMA MovesTyped ==
  ASSUME TypeOK, NEW s \in Services
  PROVE  /\ \A to \in Steps : Goto(s, to) => step' \in [Services -> Steps]
         /\ \A to \in Steps : Finish(s, to) =>
              step' \in [Services -> Steps] /\ tries' \in [Services -> 0 .. MaxTries]
         /\ Retry(s) => step' \in [Services -> Steps] /\ tries' \in [Services -> 0 .. MaxTries]
<1>1. "failed" \in Steps /\ "install" \in Steps
  BY BusySteps DEF Steps
<1>2. ASSUME NEW to \in Steps, Goto(s, to)  PROVE step' \in [Services -> Steps]
  BY <1>2 DEF TypeOK, Goto
<1>3. ASSUME NEW to \in Steps, Finish(s, to)
      PROVE  step' \in [Services -> Steps] /\ tries' \in [Services -> 0 .. MaxTries]
  BY <1>2, <1>3 DEF TypeOK, Finish, MaxTries
<1>4. ASSUME Retry(s)
      PROVE  step' \in [Services -> Steps] /\ tries' \in [Services -> 0 .. MaxTries]
  <2>1. CASE tries[s] = MaxTries
    BY <1>1, <1>3, <1>4, <2>1 DEF Retry
  <2>2. CASE tries[s] # MaxTries
    <3>1. tries[s] + 1 \in 0 .. MaxTries
      BY <2>2 DEF TypeOK, MaxTries
    <3>2. QED
      BY <1>1, <1>2, <1>4, <2>2, <3>1 DEF Retry, TypeOK
  <2>3. QED
    BY <2>1, <2>2
<1>5. QED
  BY <1>2, <1>3, <1>4

LEMMA QuotaTyped ==
  ASSUME TypeOK, NEW s \in Services, NEW role \in Roles, NEW a \in 0 .. MaxAttempts
  PROVE  [quota EXCEPT ![s][role] = a] \in [Services -> [Roles -> 0 .. MaxAttempts]]
<1>1. quota[s] \in [Roles -> 0 .. MaxAttempts]
  BY DEF TypeOK
<1>2. [quota[s] EXCEPT ![role] = a] \in [Roles -> 0 .. MaxAttempts]
  BY <1>1
<1>3. QED
  BY <1>2 DEF TypeOK

LEMMA WorkTyped ==
  ASSUME TypeOK, attempt \in Attempts, NEW s \in Services, Work(s)
  PROVE  TypeOK'
<1>1. Busy \union {"done", "failed"} \subseteq Steps
  BY DEF Steps
<1>2. CASE SetUpSecurity(s)
  BY <1>1, <1>2, MovesTyped, BusySteps, QuotaSteps DEF SetUpSecurity, TypeOK, mainVars, fileVars
<1>3. ASSUME NEW role \in Roles, ClearQuota(s, role)  PROVE TypeOK'
  <2>1. {AfterQuota[role], Creating[role], "failed"} \subseteq Steps
    BY <1>1, RoleCases, BusySteps, QuotaSteps
  <2>2. quota' \in [Services -> [Roles -> 0 .. MaxAttempts]]
    <3>1. 0 \in 0 .. MaxAttempts
      BY AttemptsAssumption
    <3>2. [quota EXCEPT ![s][role] = 0] \in [Services -> [Roles -> 0 .. MaxAttempts]]
      BY <3>1, QuotaTyped
    <3>3. QED
      BY <1>3, <3>2 DEF ClearQuota, TypeOK
  <2>3. QED
    BY <1>3, <2>1, <2>2, MovesTyped DEF ClearQuota, TypeOK, mainVars, fileVars
<1>4. ASSUME NEW role \in Roles, CreateQuota(s, role)  PROVE TypeOK'
  <2>1. {AfterQuota[role], "failed"} \subseteq Steps
    BY <1>1, RoleCases, BusySteps, QuotaSteps
  <2>2. quota' \in [Services -> [Roles -> 0 .. MaxAttempts]]
    <3>1. quota' = quota \/ quota' = [quota EXCEPT ![s][role] = attempt]
      BY <1>4 DEF CreateQuota
    <3>2. attempt \in 0 .. MaxAttempts /\ quota \in [Services -> [Roles -> 0 .. MaxAttempts]]
      BY DEF TypeOK
    <3>3. [quota EXCEPT ![s][role] = attempt] \in [Services -> [Roles -> 0 .. MaxAttempts]]
      BY <3>2, QuotaTyped
    <3>4. QED
      BY <3>1, <3>2, <3>3
  <2>3. step' \in [Services -> Steps]
    <3>1. Goto(s, AfterQuota[role]) \/ Goto(s, "failed")
      BY <1>4 DEF CreateQuota
    <3>2. QED
      BY <2>1, <3>1, MovesTyped
  <2>4. QED
    BY <1>4, <2>2, <2>3 DEF CreateQuota, TypeOK, mainVars, fileVars
<1>5. CASE Grant(s)
  BY <1>1, <1>5, MovesTyped, BusySteps DEF Grant, TypeOK, mainVars, fileVars
<1>6. CASE CheckInstalled(s)
  <2>1. "failed" \in Steps /\ "install" \in Steps
    BY <1>1, BusySteps
  <2>2. step' \in [Services -> Steps] /\ tries' \in [Services -> 0 .. MaxTries]
    <3>1. step' \in [Services -> Steps]
      BY <1>6, <2>1, MovesTyped DEF CheckInstalled
    <3>2. tries' = tries \/ tries' = [tries EXCEPT ![s] = 1]
      BY <1>6 DEF CheckInstalled
    <3>3. QED
      BY <3>1, <3>2 DEF TypeOK, MaxTries
  <2>3. missed' \in SUBSET (Services \X Attempts)
    BY <1>6 DEF CheckInstalled, TypeOK
  <2>4. QED
    BY <1>6, <2>2, <2>3 DEF CheckInstalled, TypeOK, mainVars, fileVars
<1>7. CASE TryInstall(s)
  <2>1. "failed" \in Steps /\ "wait" \in Steps
    BY <1>1, BusySteps
  <2>2. step' \in [Services -> Steps] /\ tries' \in [Services -> 0 .. MaxTries]
    <3>1. CASE Goto(s, "wait") /\ tries' = tries
      BY <2>1, <3>1, MovesTyped DEF TypeOK
    <3>2. CASE Retry(s) \/ Finish(s, "failed")
      BY <2>1, <3>2, MovesTyped
    <3>3. \/ Goto(s, "wait") /\ tries' = tries
          \/ Retry(s) \/ Finish(s, "failed")
      BY <1>7 DEF TryInstall, Install
    <3>4. QED
      BY <3>1, <3>2, <3>3
  <2>3. apps' \in SUBSET Services /\ installs' \in SUBSET (Services \X Attempts)
    <3>1. /\ apps' = apps \/ apps' = apps \union {s}
          /\ installs' = installs \/ installs' = installs \union {<<s, attempt>>}
      BY <1>7 DEF TryInstall, Install
    <3>2. QED
      BY <3>1 DEF TypeOK
  <2>4. QED
    BY <1>7, <2>2, <2>3 DEF TryInstall, TypeOK, mainVars, fileVars
<1>8. CASE Wait(s)
  BY <1>1, <1>8, MovesTyped DEF Wait, TypeOK, mainVars, clusterVars, fileVars
<1>9. QED
  BY <1>2, <1>3, <1>4, <1>5, <1>6, <1>7, <1>8 DEF Work

LEMMA NextTyped ==
  ASSUME TypeOK, ~Idle => attempt \in Attempts,
         \A s \in Services : step[s] \in Busy \union {"pending"} => ~Idle, [Next]_vars
  PROVE  TypeOK'
<1>1. ASSUME NEW n \in 1 .. MaxServices, NEW quotas \in BOOLEAN, Begin(n, quotas)
      PROVE  TypeOK'
  <2>1. attempt + 1 \in Attempts /\ n \in 0 .. MaxServices /\ 1 \in 1 .. MaxServices + 1
    BY <1>1, AttemptsAssumption, ServicesAssumption DEF Begin, TypeOK, Attempts
  <2>2. attempt' \in 0 .. MaxAttempts /\ size' \in 0 .. MaxServices
        /\ wants' \in [Attempts -> BOOLEAN] /\ awaited' \in 1 .. MaxServices + 1
    BY <1>1, <2>1, AttemptsAssumption DEF Begin, TypeOK, Attempts
  <2>3. step' \in [Services -> Steps]
    BY <1>1 DEF Begin, Steps
  <2>4. QED
    BY <1>1, <2>2, <2>3 DEF Begin, TypeOK, clusterVars, fileVars
<1>2. CASE Main
  <2>1. awaited' \in 1 .. MaxServices + 1
    BY <1>2, ServicesAssumption DEF Main, Collect, Raise, Drained, OpenFile, WriteLine, WriteJson, TypeOK
  <2>2. step' \in [Services -> Steps]
    BY <1>2 DEF Main, Collect, Raise, Drained, OpenFile, WriteLine, WriteJson, TypeOK, Steps
  <2>3. outfile' \in SUBSET (Services \X Attempts)
    <3>1. CASE WriteLine
      <4>1. awaited \in Services /\ attempt \in Attempts
        BY <3>1, ServicesAssumption DEF WriteLine, TypeOK, Services, Idle
      <4>2. QED
        BY <3>1, <4>1 DEF WriteLine, TypeOK
    <3>2. CASE ~WriteLine
      BY <1>2, <3>2 DEF Main, Collect, Raise, Drained, OpenFile, WriteJson, TypeOK, fileVars
    <3>3. QED
      BY <3>1, <3>2
  <2>4. jsonfile' \in SUBSET (Services \X Attempts)
    <3>1. CASE WriteJson
      <4>1. 1 .. size \subseteq Services /\ attempt \in Attempts
        BY <3>1, ServicesAssumption DEF WriteJson, TypeOK, Services, Idle
      <4>2. QED
        BY <3>1, <4>1 DEF WriteJson, TypeOK
    <3>2. CASE ~WriteJson
      BY <1>2, <3>2 DEF Main, Collect, Raise, Drained, OpenFile, WriteLine, TypeOK, fileVars
    <3>3. QED
      BY <3>1, <3>2
  <2>5. QED
    BY <1>2, <2>1, <2>2, <2>3, <2>4
    DEF Main, Collect, Raise, Drained, OpenFile, WriteLine, WriteJson, TypeOK, clusterVars, fileVars
<1>3. CASE Kill
  BY <1>3 DEF Kill, TypeOK, Steps, MaxTries, clusterVars, fileVars
<1>4. ASSUME NEW s \in Services, Take(s)  PROVE TypeOK'
  <2>1. "security" \in Steps
    BY BusySteps DEF Steps
  <2>2. QED
    BY <1>4, <2>1, MovesTyped DEF Take, TypeOK, mainVars, clusterVars, fileVars
<1>5. ASSUME NEW s \in Services, Work(s)  PROVE TypeOK'
  <2>1. step[s] \in Busy
    BY <1>5, BusySteps, QuotaSteps, RoleCases
    DEF Work, SetUpSecurity, ClearQuota, CreateQuota, Grant, CheckInstalled, TryInstall, Wait
  <2>2. QED
    BY <1>5, <2>1, WorkTyped
<1>6. ASSUME NEW s \in Services, TearDown(s)  PROVE TypeOK'
  <2>1. 0 \in 0 .. MaxAttempts
    BY AttemptsAssumption
  <2>2. PICK gone \in SUBSET Roles :
          quota' = [quota EXCEPT ![s] = [r \in Roles |-> IF r \in gone THEN 0 ELSE @[r]]]
    BY <1>6 DEF TearDown
  <2>3. [r \in Roles |-> IF r \in gone THEN 0 ELSE quota[s][r]] \in [Roles -> 0 .. MaxAttempts]
    BY <2>1 DEF TypeOK
  <2>4. quota' \in [Services -> [Roles -> 0 .. MaxAttempts]]
    BY <2>2, <2>3 DEF TypeOK
  <2>5. touched' \in [Services -> 0 .. MaxAttempts] /\ apps' \in SUBSET Services
    BY <1>6, <2>1 DEF TearDown, TypeOK
  <2>6. QED
    BY <1>6, <2>4, <2>5 DEF TearDown, TypeOK, mainVars, fileVars
<1>7. CASE UNCHANGED vars
  BY <1>7 DEF TypeOK, vars, mainVars, clusterVars, fileVars
<1>8. QED
  BY <1>1, <1>2, <1>3, <1>4, <1>5, <1>6, <1>7 DEF Next

------------------------------------------------------------------------------
(* Who is at work, on what, and how far. *)

\* Steps at which the quota of a role, and the permissions, are settled.
QuotaSettled ==
  [drivers   |-> {"clear executors quota", "create executors quota",
                  "grant", "check", "install", "wait"},
   executors |-> {"grant", "check", "install", "wait"}]
GrantSettled == {"check", "install", "wait"}

\* Steps a service may have once its run has installed it.
InstalledSteps == {"install", "wait", "done", "failed", "cancelled"}

\* Threads work only while the script runs, for the current run, on services
\* that this run has not worked on before.
PoolOf(s) ==
  /\ step[s] \in Busy \union {"pending"} => ~Idle
  /\ touched[s] <= attempt
  /\ step[s] \in Busy => touched[s] = attempt
  /\ step[s] = "pending" => touched[s] < attempt
  /\ \A a \in Attempts : <<s, a>> \in installs =>
       a <= attempt /\ (a = attempt => step[s] \in InstalledSteps)

\* What install_package has prepared so far.
PreparedOf(s) ==
  /\ \A r \in Roles : step[s] \in QuotaSettled[r] /\ wants[attempt] => quota[s][r] = attempt
  /\ step[s] \in GrantSettled /\ Strict => s \in granted

ReadyOf(s) ==
  \A a \in Attempts :
    s \in apps /\ touched[s] = a /\ <<s, a>> \in installs => Ready(s, a)

\* An application found while installing is the one this run installed, or one
\* that it overlooked before.
OwnOf(s) ==
  /\ step[s] = "install" /\ s \in apps => <<s, attempt>> \in installs \union missed
  /\ step[s] \in {"wait", "done"} => <<s, attempt>> \in installs \union missed

Local(s) == PoolOf(s) /\ PreparedOf(s) /\ ReadyOf(s) /\ OwnOf(s)

\* How far a service is, seen from the main thread: results are taken in order,
\* and the files are written when all are there.
FollowedOf(s) ==
  /\ s > size => step[s] = "unused"
  /\ main = "collecting" /\ s < awaited => step[s] = "done"
  /\ main = "writing" /\ s <= size => step[s] = "done"
  /\ main = "draining" => step[s] # "pending"

Inv ==
  /\ TypeOK
  /\ ~Idle => attempt \in Attempts
  /\ \A s \in Services : Local(s) /\ FollowedOf(s)

\* The sets of QuotaSettled, by name.
LEMMA SettledCases ==
  /\ QuotaSettled["drivers"] = {"clear executors quota", "create executors quota",
                                "grant", "check", "install", "wait"}
  /\ QuotaSettled["executors"] = {"grant", "check", "install", "wait"}
  BY DEF QuotaSettled

\* A step that leaves a service alone, or only cancels its call, keeps what is
\* known of it.
LEMMA LocalKept ==
  ASSUME NEW s \in Services, Local(s),
         step'[s] = step[s] \/ step'[s] = "cancelled",
         step'[s] \in Busy \union {"pending"} => ~Idle',
         attempt' = attempt, wants' = wants,
         touched'[s] = touched[s], quota'[s] = quota[s],
         s \in apps' <=> s \in apps, s \in granted' <=> s \in granted,
         \A a \in Attempts : <<s, a>> \in installs' <=> <<s, a>> \in installs,
         <<s, attempt>> \in installs' <=> <<s, attempt>> \in installs,
         <<s, attempt>> \in missed' <=> <<s, attempt>> \in missed
  PROVE  Local(s)'
<1>1. "cancelled" \notin Busy
  BY BusySteps
<1>2. PoolOf(s)'
  BY <1>1 DEF Local, PoolOf, InstalledSteps
<1>3. PreparedOf(s)'
  <2>1. "cancelled" \notin GrantSettled /\ \A r \in Roles : "cancelled" \notin QuotaSettled[r]
    BY RoleCases, SettledCases DEF GrantSettled
  <2>2. QED
    BY <2>1 DEF Local, PreparedOf
<1>4. ReadyOf(s)'
  BY DEF Local, ReadyOf, Ready
<1>5. OwnOf(s)'
  BY DEF Local, OwnOf
<1>6. QED
  BY <1>2, <1>3, <1>4, <1>5 DEF Local

\* What is known of a service whose worker is about to take a step.
LEMMA WorkingOn ==
  ASSUME Inv, NEW s \in Services, step[s] \in Busy
  PROVE  /\ ~Idle /\ attempt \in Attempts /\ touched[s] = attempt
         /\ step[s] \notin InstalledSteps => <<s, attempt>> \notin installs
  BY DEF Inv, Local, PoolOf

LEMMA WorkBusy ==
  ASSUME NEW s \in Services, Work(s)
  PROVE  step[s] \in Busy
  BY BusySteps, QuotaSteps, RoleCases
  DEF Work, SetUpSecurity, ClearQuota, CreateQuota, Grant, CheckInstalled, TryInstall, Wait

\* Where a step of a worker leads.
LEMMA WorkLeads ==
  ASSUME TypeOK, NEW s \in Services, Work(s)
  PROVE  /\ step'[s] \in Busy \union {"done", "failed"}
         /\ step[s] \in InstalledSteps => step'[s] \in InstalledSteps
         /\ <<mainVars, touched>>' = <<mainVars, touched>>
<1>1. /\ \A to : Goto(s, to) => step'[s] = to
      /\ \A to : Finish(s, to) => step'[s] = to
      /\ Retry(s) => step'[s] \in {"install", "failed"}
  BY DEF TypeOK, Goto, Finish, Retry
<1>2. CASE SetUpSecurity(s)
  BY <1>1, <1>2, BusySteps, QuotaSteps DEF SetUpSecurity, InstalledSteps
<1>3. ASSUME NEW role \in Roles, ClearQuota(s, role) \/ CreateQuota(s, role)
      PROVE  /\ step'[s] \in Busy \union {"done", "failed"}
             /\ step[s] \in InstalledSteps => step'[s] \in InstalledSteps
             /\ <<mainVars, touched>>' = <<mainVars, touched>>
  BY <1>1, <1>3, BusySteps, QuotaSteps, RoleCases DEF ClearQuota, CreateQuota, InstalledSteps
<1>4. CASE Grant(s) \/ CheckInstalled(s)
  BY <1>1, <1>4, BusySteps DEF Grant, CheckInstalled, InstalledSteps
<1>5. CASE TryInstall(s) \/ Wait(s)
  BY <1>1, <1>5, BusySteps DEF TryInstall, Install, Wait, InstalledSteps
<1>6. QED
  BY <1>2, <1>3, <1>4, <1>5 DEF Work

\* A step of a worker leaves all other services alone.
LEMMA WorkElsewhere ==
  ASSUME Inv, NEW s \in Services, Work(s), NEW q \in Services, q # s
  PROVE  Local(q)'
<1>1. /\ \A to : Goto(s, to) => step'[q] = step[q]
      /\ \A to : Finish(s, to) => step'[q] = step[q]
      /\ Retry(s) => step'[q] = step[q]
  BY DEF Inv, TypeOK, Goto, Finish, Retry
<1>2. step'[q] = step[q]
  BY <1>1 DEF Work, SetUpSecurity, ClearQuota, CreateQuota, Grant, CheckInstalled, TryInstall,
              Install, Wait
<1>3. quota'[q] = quota[q]
  BY DEF Inv, TypeOK, Work, SetUpSecurity, ClearQuota, CreateQuota, Grant, CheckInstalled,
         TryInstall, Wait, clusterVars
<1>4. q \in granted' <=> q \in granted
  BY DEF Work, SetUpSecurity, ClearQuota, CreateQuota, Grant, CheckInstalled,
         TryInstall, Wait, clusterVars
<1>5. /\ q \in apps' <=> q \in apps
      /\ \A a : <<q, a>> \in installs' <=> <<q, a>> \in installs
      /\ \A a : <<q, a>> \in missed' <=> <<q, a>> \in missed
  BY DEF Work, SetUpSecurity, ClearQuota, CreateQuota, Grant, CheckInstalled,
         TryInstall, Install, Wait, clusterVars
<1>6. Local(q) /\ <<mainVars, touched>>' = <<mainVars, touched>>
  BY WorkLeads DEF Inv
<1>7. step'[q] \in Busy \union {"pending"} => ~Idle'
  BY <1>2, <1>6 DEF Local, PoolOf, mainVars, Idle
<1>8. QED
  BY <1>2, <1>3, <1>4, <1>5, <1>6, <1>7, LocalKept DEF mainVars

LEMMA WorkHere ==
  ASSUME Inv, NEW s \in Services, Work(s)
  PROVE  Local(s)'
<1> TypeOK /\ Local(s) /\ step[s] \in Busy
  BY WorkBusy DEF Inv
<1>1. /\ ~Idle /\ attempt \in Attempts /\ touched[s] = attempt
      /\ step[s] \notin InstalledSteps => <<s, attempt>> \notin installs
  BY WorkingOn
<1>2. /\ step'[s] \in Busy \union {"done", "failed"}
      /\ step[s] \in InstalledSteps => step'[s] \in InstalledSteps
      /\ <<mainVars, touched>>' = <<mainVars, touched>>
  BY WorkLeads
<1>3. ~Idle' /\ attempt' = attempt /\ wants' = wants /\ touched' = touched
  BY <1>1, <1>2 DEF mainVars, Idle
<1>4. /\ step[s] # "install" => UNCHANGED <<apps, installs>>
      /\ installs' = installs \/ installs' = installs \union {<<s, attempt>>}
  BY QuotaSteps, RoleCases
  DEF Work, SetUpSecurity, ClearQuota, CreateQuota, Grant, CheckInstalled, TryInstall, Install,
      Wait, clusterVars
<1>5. PoolOf(s)'
  <2>1. "pending" \notin Busy \union {"done", "failed"}
    BY BusySteps
  <2>2. ASSUME NEW a \in Attempts, <<s, a>> \in installs'
        PROVE  a <= attempt /\ (a = attempt => step'[s] \in InstalledSteps)
    <3>1. CASE <<s, a>> \in installs
      BY <1>2, <3>1 DEF Local, PoolOf
    <3>2. CASE <<s, a>> \notin installs
      <4>1. a = attempt /\ step[s] = "install"
        BY <1>4, <2>2, <3>2
      <4>2. QED
        BY <1>2, <4>1 DEF InstalledSteps, Attempts
    <3>3. QED
      BY <3>1, <3>2
  <2>3. QED
    BY <1>1, <1>2, <1>3, <2>1, <2>2 DEF PoolOf, Attempts
<1>6. PreparedOf(s)'
  <2>1. /\ \A to : Goto(s, to) => step'[s] = to
        /\ \A to : Finish(s, to) => step'[s] = to
        /\ Retry(s) => step'[s] \in {"install", "failed"}
    BY DEF TypeOK, Goto, Finish, Retry
  <2>2. /\ \A r \in Roles : step[s] \in QuotaSettled[r] /\ wants[attempt] => quota[s][r] = attempt
        /\ step[s] \in GrantSettled /\ Strict => s \in granted
    BY DEF Local, PreparedOf
  <2>3. quota \in [Services -> [Roles -> 0 .. MaxAttempts]]
    BY DEF TypeOK
  <2>4. SUFFICES /\ \A r \in Roles :
                      step'[s] \in QuotaSettled[r] /\ wants[attempt] => quota'[s][r] = attempt
                 /\ step'[s] \in GrantSettled /\ Strict => s \in granted'
    BY <1>3 DEF PreparedOf
  <2>5. CASE SetUpSecurity(s)
    <3>1. step'[s] \in {"clear drivers quota", "failed"}
      BY <2>1, <2>5, QuotaSteps DEF SetUpSecurity
    <3>2. QED
      BY <3>1, RoleCases, SettledCases DEF GrantSettled
  <2>6. ASSUME NEW role \in Roles, ClearQuota(s, role)
        PROVE  /\ \A r \in Roles : r # role => quota'[s][r] = quota[s][r]
               /\ step'[s] \in {Creating[role], AfterQuota[role], "failed"}
               /\ step'[s] = AfterQuota[role] => ~wants[attempt]
    <3>1. quota' = quota \/ quota' = [quota EXCEPT ![s][role] = 0]
      BY <2>6 DEF ClearQuota
    <3>2. \A r \in Roles : r # role => quota'[s][r] = quota[s][r]
      BY <2>3, <3>1
    <3>3. AfterQuota[role] \notin {Creating[role], "failed"}
      BY QuotaSteps, RoleCases
    <3>4. QED
      BY <2>1, <2>6, <3>2, <3>3 DEF ClearQuota
  <2>7. ASSUME NEW role \in Roles, CreateQuota(s, role)
        PROVE  /\ \A r \in Roles : r # role => quota'[s][r] = quota[s][r]
               /\ step'[s] = "failed" \/ (step'[s] = AfterQuota[role] /\ quota'[s][role] = attempt)
    <3>1. \/ quota' = [quota EXCEPT ![s][role] = attempt] /\ step'[s] = AfterQuota[role]
          \/ quota' = quota /\ step'[s] = "failed"
      BY <2>1, <2>7 DEF CreateQuota
    <3>2. QED
      BY <2>3, <3>1
  <2>8. CASE ClearQuota(s, "drivers") \/ CreateQuota(s, "drivers")
    BY <2>6, <2>7, <2>8, QuotaSteps, RoleCases, SettledCases DEF GrantSettled
  <2>9. CASE ClearQuota(s, "executors") \/ CreateQuota(s, "executors")
    <3>1. step[s] \in QuotaSettled["drivers"]
      BY <2>9, QuotaSteps, SettledCases DEF ClearQuota, CreateQuota
    <3>2. quota'[s]["drivers"] = quota[s]["drivers"]
      BY <2>6, <2>7, <2>9, RoleCases
    <3>3. QED
      BY <2>2, <2>6, <2>7, <2>9, <3>1, <3>2, QuotaSteps, RoleCases, SettledCases DEF GrantSettled
  <2>10. CASE Grant(s)
    <3>1. /\ step'[s] \in {"check", "failed"} /\ quota' = quota
          /\ step'[s] = "check" /\ Strict => s \in granted'
      BY <2>1, <2>10 DEF Grant
    <3>2. \A r \in Roles : step[s] \in QuotaSettled[r]
      BY <2>10, RoleCases, SettledCases DEF Grant
    <3>3. QED
      BY <2>2, <3>1, <3>2, RoleCases, SettledCases DEF GrantSettled
  <2>11. CASE CheckInstalled(s) \/ TryInstall(s) \/ Wait(s)
    <3>1. /\ \A r \in Roles : step[s] \in QuotaSettled[r]
          /\ step[s] \in GrantSettled
      BY <2>11, RoleCases, SettledCases DEF CheckInstalled, TryInstall, Wait, GrantSettled
    <3>2. UNCHANGED <<quota, granted>>
      BY <2>11 DEF CheckInstalled, TryInstall, Wait, clusterVars
    <3>3. QED
      BY <2>2, <3>1, <3>2
  <2>12. QED
    BY <2>5, <2>8, <2>9, <2>10, <2>11, RoleCases DEF Work
<1>7. ReadyOf(s)'
  <2>1. CASE step[s] \in InstalledSteps
    <3>1. step[s] \in {"install", "wait"}
      BY <2>1, BusySteps DEF InstalledSteps
    <3>2. UNCHANGED <<quota, granted>>
      BY <3>1, QuotaSteps, RoleCases
      DEF Work, SetUpSecurity, ClearQuota, CreateQuota, Grant, CheckInstalled, TryInstall, Wait,
          clusterVars
    <3>3. /\ wants[attempt] => \A r \in Roles : quota[s][r] = attempt
          /\ Strict => s \in granted
      <4>1. \A r \in Roles : step[s] \in QuotaSettled[r]
        BY <3>1, RoleCases, SettledCases
      <4>2. QED
        BY <3>1, <4>1 DEF Local, PreparedOf, GrantSettled
    <3>4. QED
      BY <1>1, <1>3, <3>2, <3>3 DEF ReadyOf, Ready
  <2>2. CASE step[s] \notin InstalledSteps
    <3>1. <<s, attempt>> \notin installs'
      BY <1>1, <1>4, <2>2 DEF InstalledSteps
    <3>2. QED
      BY <1>1, <1>3, <3>1 DEF ReadyOf
  <2>3. QED
    BY <2>1, <2>2
<1>8. OwnOf(s)'
  <2> DEFINE known == <<s, attempt>> \in installs \union missed
  <2>1. SUFFICES /\ step'[s] = "install" /\ s \in apps' => known'
                 /\ step'[s] \in {"wait", "done"} => known'
    BY <1>3 DEF OwnOf
  <2>2. /\ step[s] = "install" /\ s \in apps => known
        /\ step[s] \in {"wait", "done"} => known
        /\ TRUE \in Answers(s) => s \in apps
    BY DEF Local, OwnOf, Answers
  <2>3. /\ \A to : Goto(s, to) => step'[s] = to
        /\ \A to : Finish(s, to) => step'[s] = to
        /\ Retry(s) => step'[s] \in {"install", "failed"}
    BY DEF TypeOK, Goto, Finish, Retry
  <2>4. CASE CheckInstalled(s)
    <3>1. CASE Goto(s, "failed")
      BY <2>3, <3>1
    <3>2. CASE Goto(s, "install")
      <4>1. missed' = missed \union ({s} \intersect apps) \X {attempt} /\ apps' = apps
        BY <1>3, <2>3, <2>4, <3>2 DEF CheckInstalled
      <4>2. s \in apps => <<s, attempt>> \in missed'
        BY <4>1
      <4>3. QED
        BY <1>3, <2>3, <3>2, <4>1, <4>2
    <3>3. QED
      BY <2>4, <3>1, <3>2 DEF CheckInstalled
  <2>5. CASE TryInstall(s)
    <3>1. CASE s \in apps
      <4>1. apps' = apps /\ known'
        BY <1>3, <1>4, <2>2, <2>5, <3>1 DEF TryInstall, Install
      <4>2. QED
        BY <4>1
    <3>2. CASE s \notin apps
      <4>1. CASE Install(s)
        BY <1>3, <4>1 DEF Install
      <4>2. CASE ~Install(s)
        <5>1. (Retry(s) \/ Finish(s, "failed")) /\ apps' = apps
          BY <2>2, <2>5, <3>2, <4>2 DEF TryInstall
        <5>2. QED
          BY <2>3, <3>2, <5>1
      <4>3. QED
        BY <4>1, <4>2
    <3>3. QED
      BY <3>1, <3>2
  <2>6. CASE Wait(s)
    BY <1>3, <2>2, <2>6 DEF Wait, clusterVars
  <2>7. CASE SetUpSecurity(s) \/ Grant(s)
    <3>1. step'[s] \in {"clear drivers quota", "check", "failed"}
      BY <2>3, <2>7, QuotaSteps DEF SetUpSecurity, Grant
    <3>2. QED
      BY <3>1
  <2>8. ASSUME NEW role \in Roles, ClearQuota(s, role) \/ CreateQuota(s, role)
        PROVE  step'[s] \notin {"install", "wait", "done"}
    BY <2>3, <2>8, QuotaSteps, RoleCases DEF ClearQuota, CreateQuota
  <2>9. QED
    BY <2>4, <2>5, <2>6, <2>7, <2>8 DEF Work
<1>9. QED
  BY <1>5, <1>6, <1>7, <1>8 DEF Local

LEMMA WorkFollowed ==
  ASSUME Inv, NEW s \in Services, Work(s), NEW q \in Services
  PROVE  FollowedOf(q)'
<1>1. FollowedOf(q) /\ TypeOK
  BY DEF Inv
<1>2. mainVars' = mainVars
  BY <1>1, WorkLeads
<1>3. CASE q = s
  <2>1. step[s] \notin {"unused", "done"} /\ step'[s] # "pending"
    BY <1>1, WorkBusy, WorkLeads, BusySteps
  <2>2. QED
    BY <1>1, <1>2, <1>3, <2>1 DEF FollowedOf, mainVars
<1>4. CASE q # s
  <2>1. step'[q] = step[q]
    BY <1>1, <1>4 DEF TypeOK, Work, SetUpSecurity, ClearQuota, CreateQuota, Grant,
          CheckInstalled, TryInstall, Install, Wait, Goto, Finish, Retry
  <2>2. QED
    BY <1>1, <1>2, <2>1 DEF FollowedOf, mainVars
<1>5. QED
  BY <1>3, <1>4

LEMMA TakeKeeps ==
  ASSUME Inv, NEW s \in Services, Take(s), NEW q \in Services
  PROVE  Local(q)' /\ FollowedOf(q)'
<1> TypeOK /\ Local(q) /\ FollowedOf(q)
  BY DEF Inv
<1>1. CASE q # s
  <2>1. step'[q] = step[q] /\ touched'[q] = touched[q]
    BY <1>1 DEF Take, Goto, TypeOK
  <2>2. UNCHANGED <<mainVars, clusterVars>>
    BY DEF Take
  <2>3. step[q] \in Busy \union {"pending"} => ~Idle
    BY DEF Local, PoolOf
  <2>4. Local(q)'
    BY <2>1, <2>2, <2>3, LocalKept DEF mainVars, clusterVars, Idle
  <2>5. QED
    BY <2>1, <2>2, <2>4 DEF FollowedOf, mainVars
<1>2. CASE q = s
  <2>1. /\ step[q] = "pending" /\ step'[q] = "security" /\ touched'[q] = attempt
        /\ UNCHANGED <<mainVars, clusterVars>>
    BY <1>2 DEF Take, Goto, TypeOK
  <2>2. ~Idle /\ attempt \in Attempts /\ <<q, attempt>> \notin installs
    BY <2>1 DEF Inv, Local, PoolOf, InstalledSteps
  <2>3. PoolOf(q)'
    BY <2>1, <2>2 DEF Local, PoolOf, mainVars, clusterVars, Idle, Attempts
  <2>4. PreparedOf(q)'
    BY <2>1, RoleCases, SettledCases DEF PreparedOf, GrantSettled
  <2>5. ReadyOf(q)'
    BY <2>1, <2>2 DEF ReadyOf, mainVars, clusterVars
  <2>6. OwnOf(q)'
    BY <2>1 DEF OwnOf
  <2>7. FollowedOf(q)'
    BY <2>1 DEF FollowedOf, mainVars
  <2>8. QED
    BY <2>3, <2>4, <2>5, <2>6, <2>7 DEF Local
<1>3. QED
  BY <1>1, <1>2

LEMMA MainKeeps ==
  ASSUME Inv, Main \/ Kill, NEW q \in Services
  PROVE  Local(q)' /\ FollowedOf(q)'
<1> TypeOK /\ Local(q) /\ FollowedOf(q)
  BY DEF Inv
<1>1. /\ UNCHANGED <<attempt, wants, touched, clusterVars>>
      /\ size' = size
      /\ step'[q] = step[q] \/ step'[q] = "cancelled"
      /\ step'[q] = "cancelled" => step[q] \in Busy \union {"pending", "cancelled"}
  BY DEF Main, Collect, Raise, Drained, OpenFile, WriteLine, WriteJson, Kill, TypeOK
<1>2. step[q] \in Busy \union {"pending"} => ~Idle
  BY DEF Local, PoolOf
<1>3. step'[q] \in Busy \union {"pending"} => ~Idle'
  <2>1. CASE Collect \/ Raise \/ OpenFile \/ WriteLine
    BY <2>1 DEF Collect, Raise, OpenFile, WriteLine, Idle
  <2>2. CASE Drained
    BY <2>2 DEF Drained, Running, FollowedOf
  <2>3. CASE WriteJson
    <3>1. step[q] \in {"unused", "done"}
      BY <2>3, ServicesAssumption DEF WriteJson, FollowedOf, TypeOK, Services
    <3>2. QED
      BY <2>3, <3>1, BusySteps DEF WriteJson
  <2>4. CASE Kill
    BY <2>4, BusySteps DEF Kill, TypeOK
  <2>5. QED
    BY <2>1, <2>2, <2>3, <2>4 DEF Main
<1>4. Local(q)'
  BY <1>1, <1>3, LocalKept DEF clusterVars
<1>5. FollowedOf(q)'
  <2>1. CASE Collect
    BY <2>1, ServicesAssumption DEF Collect, FollowedOf, TypeOK, Services
  <2>2. CASE Raise
    BY <2>2 DEF Raise, FollowedOf, TypeOK
  <2>3. CASE Drained \/ WriteJson
    BY <2>3 DEF Drained, WriteJson, FollowedOf
  <2>4. CASE OpenFile
    BY <2>4, ServicesAssumption DEF OpenFile, FollowedOf, TypeOK, Services
  <2>5. CASE WriteLine
    BY <2>5 DEF WriteLine, FollowedOf
  <2>6. CASE Kill
    BY <2>6, BusySteps DEF Kill, FollowedOf, TypeOK
  <2>7. QED
    BY <2>1, <2>2, <2>3, <2>4, <2>5, <2>6 DEF Main
<1>6. QED
  BY <1>4, <1>5

LEMMA BeginKeeps ==
  ASSUME Inv, NEW n \in 1 .. MaxServices, NEW quotas \in BOOLEAN, Begin(n, quotas),
         NEW q \in Services
  PROVE  Local(q)' /\ FollowedOf(q)'
<1> TypeOK /\ Local(q)
  BY DEF Inv
<1>1. /\ step'[q] = IF q <= n THEN "pending" ELSE "unused"
      /\ main' = "collecting" /\ awaited' = 1 /\ size' = n
      /\ attempt' = attempt + 1 /\ attempt \in Nat
      /\ UNCHANGED <<touched, clusterVars>>
  BY AttemptsAssumption DEF Begin, TypeOK
<1>2. PoolOf(q)'
  <2>1. touched[q] <= attempt /\ touched[q] \in Nat
    BY AttemptsAssumption DEF Local, PoolOf, TypeOK
  <2>2. touched'[q] < attempt' /\ touched'[q] <= attempt'
    BY <1>1, <2>1
  <2>3. ASSUME NEW a \in Attempts, <<q, a>> \in installs'  PROVE a < attempt'
    <3>1. a <= attempt /\ a \in Nat
      BY <1>1, <2>3 DEF Local, PoolOf, clusterVars, Attempts
    <3>2. QED
      BY <1>1, <3>1
  <2>4. \A a \in Attempts : a < attempt' => a <= attempt' /\ a # attempt'
    BY <1>1, <2>1 DEF Attempts
  <2>5. ~Idle' /\ step'[q] \notin Busy
    BY <1>1, BusySteps DEF Idle
  <2>6. QED
    BY <2>2, <2>3, <2>4, <2>5 DEF PoolOf
<1>3. PreparedOf(q)'
  BY <1>1, RoleCases, SettledCases DEF PreparedOf, GrantSettled
<1>4. ReadyOf(q)'
  <2>1. ASSUME NEW a \in Attempts, q \in apps, touched[q] = a, <<q, a>> \in installs
        PROVE  Ready(q, a) /\ wants'[a] = wants[a]
    <3>1. a <= attempt /\ Ready(q, a)
      BY <2>1 DEF Local, PoolOf, ReadyOf
    <3>2. QED
      BY <1>1, <3>1 DEF Begin, TypeOK, Attempts
  <2>2. QED
    BY <1>1, <2>1 DEF ReadyOf, Ready, clusterVars
<1>5. OwnOf(q)'
  BY <1>1 DEF OwnOf
<1>6. FollowedOf(q)'
  BY <1>1, ServicesAssumption DEF FollowedOf, Services
<1>7. QED
  BY <1>2, <1>3, <1>4, <1>5, <1>6 DEF Local

LEMMA TearDownKeeps ==
  ASSUME Inv, NEW s \in Services, TearDown(s), NEW q \in Services
  PROVE  Local(q)' /\ FollowedOf(q)'
<1> TypeOK /\ Local(q) /\ FollowedOf(q)
  BY DEF Inv
<1>1. Idle /\ UNCHANGED <<mainVars, step, installs, missed, granted>>
  BY DEF TearDown
<1>2. step[q] \notin Busy \union {"pending"}
  BY <1>1 DEF Local, PoolOf
<1>3. CASE q # s
  <2>1. quota'[q] = quota[q] /\ touched'[q] = touched[q] /\ (q \in apps' <=> q \in apps)
    BY <1>3 DEF TearDown, TypeOK
  <2>2. Local(q)'
    BY <1>1, <1>2, <2>1, LocalKept DEF mainVars
  <2>3. QED
    BY <1>1, <2>2 DEF FollowedOf, mainVars
<1>4. CASE q = s
  <2>1. touched'[q] = 0 /\ apps' \subseteq apps
    BY <1>4 DEF TearDown, TypeOK
  <2>2. PoolOf(q)'
    BY <1>1, <1>2, <2>1, AttemptsAssumption DEF Local, PoolOf, mainVars, TypeOK
  <2>3. PreparedOf(q)'
    BY <1>1, <1>2, BusySteps, RoleCases, SettledCases DEF PreparedOf, GrantSettled
  <2>4. ReadyOf(q)'
    BY <2>1 DEF ReadyOf, Attempts
  <2>5. OwnOf(q)'
    BY <1>1, <2>1 DEF Local, OwnOf, mainVars
  <2>6. FollowedOf(q)'
    BY <1>1 DEF FollowedOf, mainVars
  <2>7. QED
    BY <2>2, <2>3, <2>4, <2>5, <2>6 DEF Local
<1>5. QED
  BY <1>3, <1>4

LEMMA InvInit == Init => Inv
<1> SUFFICES ASSUME Init PROVE Inv
  OBVIOUS
<1>1. TypeOK
  BY AttemptsAssumption, ServicesAssumption DEF Init, TypeOK, Steps, MaxTries
<1>2. Idle
  BY DEF Init, Idle
<1>3. ASSUME NEW s \in Services  PROVE Local(s) /\ FollowedOf(s)
  <2>1. step[s] = "unused" /\ touched[s] = 0 /\ installs = {} /\ attempt = 0 /\ main = "idle"
    BY DEF Init
  <2>2. PoolOf(s)
    <3>1. step[s] \notin Busy \union {"pending"}
      BY <2>1, BusySteps
    <3>2. touched[s] <= attempt
      BY <2>1
    <3>3. \A a \in Attempts : <<s, a>> \notin installs
      BY <2>1
    <3>4. QED
      BY <3>1, <3>2, <3>3 DEF PoolOf
  <2>3. PreparedOf(s)
    BY <2>1, RoleCases, SettledCases DEF PreparedOf, GrantSettled
  <2>4. ReadyOf(s) /\ OwnOf(s) /\ FollowedOf(s)
    BY <2>1 DEF ReadyOf, OwnOf, FollowedOf
  <2>5. QED
    BY <2>2, <2>3, <2>4 DEF Local
<1>4. QED
  BY <1>1, <1>2, <1>3 DEF Inv

LEMMA InvNext == Inv /\ [Next]_vars => Inv'
<1> SUFFICES ASSUME Inv, [Next]_vars PROVE Inv'
  OBVIOUS
<1>1. TypeOK'
  BY NextTyped DEF Inv, Local, PoolOf
<1>2. (~Idle => attempt \in Attempts)'
  <2>1. ASSUME NEW n \in 1 .. MaxServices, NEW quotas \in BOOLEAN, Begin(n, quotas)
        PROVE  attempt' \in Attempts
    BY <2>1, AttemptsAssumption DEF Inv, Begin, TypeOK, Attempts
  <2>2. CASE Main \/ Kill
    BY <2>2 DEF Inv, Main, Collect, Raise, Drained, OpenFile, WriteLine, WriteJson, Kill, Idle
  <2>3. ASSUME NEW s \in Services, Take(s) \/ Work(s) \/ TearDown(s)
        PROVE  mainVars' = mainVars
    BY <2>3, WorkLeads DEF Inv, Take, TearDown
  <2>4. CASE UNCHANGED vars
    BY <2>4 DEF Inv, Idle, vars, mainVars
  <2>5. QED
    BY <2>1, <2>2, <2>3, <2>4 DEF Next, Inv, Idle, mainVars
<1>3. ASSUME NEW q \in Services  PROVE Local(q)' /\ FollowedOf(q)'
  <2>1. ASSUME NEW s \in Services, Work(s)  PROVE Local(q)' /\ FollowedOf(q)'
    BY <2>1, WorkHere, WorkElsewhere, WorkFollowed
  <2>2. CASE UNCHANGED vars
    <3>1. Local(q) /\ FollowedOf(q)
      BY DEF Inv
    <3>2. Local(q)'
      BY <2>2, <3>1, LocalKept DEF vars, mainVars, clusterVars, Idle, Local, PoolOf
    <3>3. QED
      BY <2>2, <3>1, <3>2 DEF FollowedOf, vars, mainVars
  <2>3. QED
    BY <2>1, <2>2, BeginKeeps, MainKeeps, TakeKeeps, TearDownKeeps DEF Next
<1>4. QED
  BY <1>1, <1>2, <1>3 DEF Inv

LEMMA InvHolds == Spec => []Inv
  BY InvInit, InvNext, PTL DEF Spec

------------------------------------------------------------------------------
(* Theorems. *)

\* Every variable of the deployment keeps its type, whatever the number of
\* dispatchers, workers and runs of the script.
THEOREM TypeCorrect == Spec => []TypeOK
<1>1. Inv => TypeOK
  BY DEF Inv
<1>2. QED
  BY <1>1, InvHolds, PTL

\* A dispatcher a run installed, and which nobody worked on since, has the quota
\* of both roles if the run creates quotas, and the permissions in strict mode:
\* install_package (deploy-dispatchers.py) installs only what is prepared.
THEOREM RunningStaysReady == Spec => []RunningReady
<1>1. Inv => RunningReady
  BY DEF Inv, TypeOK, Local, ReadyOf, RunningReady
<1>2. QED
  BY <1>1, InvHolds, PTL

\* The files change only when each dispatcher of the run is deployed.
THEOREM FilesOnlyComplete == Spec => RecordOnlyComplete
<1>1. Inv /\ [Next]_vars => [fileVars' # fileVars => \A s \in 1 .. size : step[s] = "done"]_vars
  <2> SUFFICES ASSUME Inv, Next, fileVars' # fileVars, NEW s \in 1 .. size
               PROVE  step[s] = "done"
    OBVIOUS
  <2>1. s \in Services /\ size \in Nat /\ awaited \in Nat
    BY ServicesAssumption DEF Inv, TypeOK, Services
  <2>2. OpenFile \/ WriteLine \/ WriteJson
    BY DEF Next, Begin, Main, Collect, Raise, Drained, Kill, Take, Work, SetUpSecurity, ClearQuota,
           CreateQuota, Grant, CheckInstalled, TryInstall, Wait, TearDown
  <2>3. FollowedOf(s)
    BY <2>1 DEF Inv
  <2>4. QED
    BY <2>1, <2>2, <2>3 DEF OpenFile, WriteLine, WriteJson, FollowedOf
<1>2. QED
  BY <1>1, InvHolds, PTL DEF Spec, RecordOnlyComplete

\* Whatever app_exists answers, both files list only dispatchers that the run
\* which wrote them has installed, or whose check overlooked what was there: no
\* retry, lost answer, kill or teardown gets another one into them.
THEOREM FilesListInstalled == Spec => []RecordedWereInstalled
<1>1. Init => RecordedWereInstalled
  BY DEF Init, RecordedWereInstalled
<1>2. Inv /\ RecordedWereInstalled /\ [Next]_vars => RecordedWereInstalled'
  <2> SUFFICES ASSUME Inv, RecordedWereInstalled, [Next]_vars
               PROVE  RecordedWereInstalled'
    OBVIOUS
  <2>1. ASSUME NEW s \in 1 .. size, main = "writing"  PROVE <<s, attempt>> \in installs \union missed
    <3>1. s \in Services /\ s <= size
      BY ServicesAssumption DEF Inv, TypeOK, Services
    <3>2. QED
      BY <2>1, <3>1 DEF Inv, FollowedOf, Local, OwnOf
  <2>2. installs \subseteq installs' /\ missed \subseteq missed'
    BY DEF Next, Begin, Main, Collect, Raise, Drained, OpenFile, WriteLine, WriteJson, Kill, Take,
           Work, SetUpSecurity, ClearQuota, CreateQuota, Grant, CheckInstalled, TryInstall,
           Install, Wait, TearDown, vars, clusterVars
  <2>3. CASE OpenFile
    BY <2>2, <2>3 DEF OpenFile, RecordedWereInstalled
  <2>4. CASE WriteLine
    <3>1. awaited \in 1 .. size
      BY <2>4, ServicesAssumption DEF WriteLine, Inv, TypeOK
    <3>2. QED
      BY <2>1, <2>2, <2>4, <3>1 DEF WriteLine, RecordedWereInstalled
  <2>5. CASE WriteJson
    BY <2>1, <2>2, <2>5 DEF WriteJson, RecordedWereInstalled
  <2>6. CASE fileVars' = fileVars
    BY <2>2, <2>6 DEF RecordedWereInstalled, fileVars
  <2>7. OpenFile \/ WriteLine \/ WriteJson \/ fileVars' = fileVars
    BY DEF Next, Begin, Main, Collect, Raise, Drained, Kill, Take, Work, SetUpSecurity, ClearQuota,
           CreateQuota, Grant, CheckInstalled, TryInstall, Wait, TearDown, vars
  <2>8. QED
    BY <2>3, <2>4, <2>5, <2>6, <2>7
<1>3. QED
  BY <1>1, <1>2, InvHolds, PTL DEF Spec

=============================================================================
