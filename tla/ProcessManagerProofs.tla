---- MODULE ProcessManagerProofs ----
(***************************************************************************)
(* Proofs about ProcessManager, for every set of names, processes,         *)
(* configurations and updates.                                             *)
(***************************************************************************)
EXTENDS ProcessManager, FiniteSetTheorems, TLAPS

-----------------------------------------------------------------------------
\* What start_process and an update make of a configuration is a configuration
\* of the same application.
LEMMA StartConfigType ==
  ASSUME NEW c \in ConfigType, NEW f
  PROVE  /\ StartConfig(c, f) \in ConfigType
         /\ StartConfig(c, f).name = c.name
<1>1. SandboxedImage(c) \in ConfigType /\ SandboxedImage(c).name = c.name
  BY DEF SandboxedImage, ConfigType, Restrictions, Grants
<1>2. CASE c.is_oci
  <2> DEFINE s == SandboxedImage(c)
  <2>1. ImageArgs \o s.args \in Seq(ArgKinds)
    BY <1>1, ConfigAssumption DEF ConfigType
  <2>2. [s EXCEPT !.path = "entrypoint", !.args = ImageArgs \o s.args] \in ConfigType
    <3> HIDE DEF s
    <3>1. s \in ConfigType BY <1>1 DEF s
    <3> QED BY <2>1, <3>1 DEF ConfigType, Paths
  <2>3. [s EXCEPT !.path = "entrypoint", !.args = ImageArgs \o s.args].name = c.name
    <3> HIDE DEF s
    <3>1. s \in ConfigType /\ s.name = c.name BY <1>1 DEF s
    <3> QED BY <3>1 DEF ConfigType
  <2> QED BY <1>2, <2>2, <2>3 DEF StartConfig
<1>3. CASE ~c.is_oci
  BY <1>3 DEF StartConfig, ConfigType, Paths
<1> QED BY <1>2, <1>3

\* An update keeps the type, the name and the kind of a configuration.
LEMMA UpdateConfigType ==
  ASSUME NEW c \in ConfigType, NEW u \in UpdateType
  PROVE  /\ UpdateConfig(c, u) \in ConfigType
         /\ UpdateConfig(c, u).name = c.name
         /\ UpdateConfig(c, u).spa = c.spa
<1> DEFINE mapping == IF u.mapping = None THEN c.mapping ELSE u.mapping
           ssl     == IF u.ssl = None THEN c.ssl ELSE u.ssl
           acme    == IF u.acme = None THEN c.acme ELSE u.acme
           args    == IF u.args = None THEN c.args ELSE u.args
           path    == IF u.image THEN "entrypoint" ELSE c.path
           oci     == c.is_oci \/ u.image
<1>1. mapping \in Mappings \cup {None} /\ ssl \in Certs \cup {None}
  BY DEF UpdateType, ConfigType
<1>2. acme \in Emails \cup {None} /\ args \in Seq(ArgKinds)
  BY DEF UpdateType, ConfigType
<1>3. path \in Paths /\ oci \in BOOLEAN
  BY DEF UpdateType, ConfigType, Paths
<1>4. UpdateConfig(c, u) = [c EXCEPT !.mapping = mapping, !.ssl = ssl, !.acme = acme,
                                     !.args = args, !.path = path, !.is_oci = oci]
  BY DEF UpdateConfig
<1> HIDE DEF mapping, ssl, acme, args, path, oci
<1> QED BY <1>1, <1>2, <1>3, <1>4 DEF ConfigType

-----------------------------------------------------------------------------
(***************************************************************************)
(* The inductive invariant. None of the three parts is inductive alone: a  *)
(* restart kills the child its entry names, so ChildOwned needs that the   *)
(* entry names the right one; the health check reads status and child      *)
(* together, so StatusMatchesChild needs both.                             *)
(***************************************************************************)
Inv == TypeOK /\ ChildOwned /\ StatusMatchesChild

\* The empty table satisfies the invariant.
LEMMA InitInv == Init => Inv
<1> SUFFICES ASSUME Init PROVE Inv
  OBVIOUS
<1>1. Managed = {}
  BY DEF Init, Managed
<1> QED
  BY <1>1, ConfigAssumption DEF Init, Inv, TypeOK, ChildOwned, StatusMatchesChild, OsStates, Held, Alive

\* The invariant of one entry, in the terms the steps below need.
LEMMA EntryFacts ==
  ASSUME TypeOK, NEW n \in Managed
  PROVE  /\ n \in Names
         /\ processes[n] \in EntryType
         /\ processes[n].config \in ConfigType
         /\ processes[n].config.name = n
         /\ processes[n].child \in Pids \cup {None}
         /\ processes[n].status \in Statuses
         /\ processes[n].restart_count \in Nat
BY DEF TypeOK, EntryType

\* The entry a start inserts.
LEMMA StartedType ==
  ASSUME NEW c \in ConfigType, NEW p \in Pids, NEW f, NEW k \in Nat
  PROVE  LET e == Started(c, p, f, k) IN
           /\ e \in EntryType
           /\ e.config.name = c.name
           /\ e.child = p
           /\ e.status = "Running"
           /\ e.restart_count = k
BY StartConfigType DEF Started, EntryType, Statuses

\* The entry kill_child leaves.
LEMMA KilledType ==
  ASSUME NEW e \in EntryType
  PROVE  LET k == kill_child(e) IN
           /\ k \in EntryType
           /\ k.config = e.config
           /\ k.child = None
           /\ k.status = "Stopped"
           /\ k.restart_count = e.restart_count
BY DEF kill_child, EntryType, Statuses

\* Reaping children that are processes or None leaves a state of the
\* operating system.
LEMMA ReapType ==
  ASSUME os \in [Pids -> OsStates], NEW dead
  PROVE  /\ Reap(os, dead) \in [Pids -> OsStates]
         /\ \A p \in Pids : Reap(os, dead)[p] = IF p \in dead THEN "free" ELSE os[p]
BY DEF Reap, OsStates

\* The app directory after a copy.
LEMMA FileType ==
  ASSUME TypeOK, NEW n \in Names, NEW c \in ConfigType
  PROVE  [app_file EXCEPT ![n] = CopiedFile(c, app_file[n])]
           \in [Names -> {"none", "good", "empty"}]
BY DEF TypeOK, CopiedFile

-----------------------------------------------------------------------------
\* Killing the child of one entry, as a restart or an update does.
LEMMA KillStep ==
  ASSUME Inv, NEW n \in Managed, NEW k \in EntryType,
         k.config.name = n, k.child = None, k.status = "Stopped",
         starting = None,
         Managed' = Managed,
         processes' = [m \in Managed |-> IF m = n THEN k ELSE processes[m]],
         os' = Reap(os, {processes[n].child}),
         to_restart' = to_restart \ {n},
         starting' = n,
         UNCHANGED <<managed_processes, app_file>>
  PROVE  Inv'
<1>1. /\ k \in EntryType /\ k.config.name = n /\ k.child = None /\ k.status = "Stopped"
  OBVIOUS
<1>2. Managed' = Managed
  OBVIOUS
<1>3. /\ os' \in [Pids -> OsStates]
      /\ \A p \in Pids : os'[p] = IF p = processes[n].child THEN "free" ELSE os[p]
  BY ReapType DEF Inv, TypeOK
<1>4. \A m \in Managed : processes'[m] = IF m = n THEN k ELSE processes[m]
  OBVIOUS
<1>5. TypeOK'
  <2>1. processes' = [m \in Managed' |-> processes'[m]]
    BY <1>2, <1>4
  <2>2. \A m \in Managed' : processes'[m] \in EntryType /\ processes'[m].config.name = m
    BY <1>1, <1>2, <1>4, EntryFacts DEF Inv
  <2> QED BY <1>2, <1>3, <2>1, <2>2 DEF Inv, TypeOK
<1>6. ChildOwned'
  <2>1. \A m \in Managed' : processes'[m].child # None
                              => m # n /\ processes'[m] = processes[m]
    BY <1>1, <1>2, <1>4
  <2>2. \A m \in Managed : m # n /\ processes[m].child # None
                             => /\ processes[m].child \in Pids
                                /\ processes[m].child # processes[n].child
    BY EntryFacts DEF Inv, ChildOwned
  <2>3. \A p \in Pids : os'[p] \in Held => os[p] \in Held /\ p # processes[n].child
    BY <1>3 DEF Held, Alive
  <2>4. \A p \in Pids : os'[p] \in Held => \E m \in Managed' : processes'[m].child = p
    BY <1>2, <1>4, <2>3 DEF Inv, ChildOwned
  <2>5. \A m \in Managed' : processes'[m].child # None => os'[processes'[m].child] \in Held
    BY <1>2, <1>3, <2>1, <2>2 DEF Inv, ChildOwned
  <2>6. \A l, m \in Managed' :
          processes'[l].child = processes'[m].child /\ processes'[l].child # None => l = m
    BY <1>2, <2>1 DEF Inv, ChildOwned
  <2> QED BY <2>4, <2>5, <2>6 DEF ChildOwned
<1>7. StatusMatchesChild'
  <2> SUFFICES ASSUME NEW m \in Managed
               PROVE  /\ processes'[m].status = "Running" /\ processes'[m].child = None
                           => processes'[m].config.spa
                      /\ processes'[m].status = "Stopped" => processes'[m].child = None
                      /\ processes'[m].status = "Errored" <=> m \in to_restart'
                      /\ processes'[m].status = "Errored"
                           => processes'[m].child # None /\ os'[processes'[m].child] = "crash"
                      /\ m = starting' => processes'[m].status = "Stopped"
    BY <1>2 DEF StatusMatchesChild
  <2>1. CASE m = n
    BY <1>1, <1>4, <2>1
  <2>2. CASE m # n
    <3>1. processes'[m] = processes[m]
      BY <1>4, <2>2
    <3>2. processes[m].child # None => /\ processes[m].child \in Pids
                                       /\ processes[m].child # processes[n].child
      BY <2>2, EntryFacts DEF Inv, ChildOwned
    <3> QED BY <1>3, <2>2, <3>1, <3>2 DEF Inv, StatusMatchesChild
  <2> QED BY <2>1, <2>2
<1> QED BY <1>5, <1>6, <1>7 DEF Inv

\* Giving a child to an entry without one, new or old.
LEMMA StartStep ==
  ASSUME Inv, NEW n \in Names, NEW c \in ConfigType, c.name = n,
         NEW p \in Pids, os[p] = "free", NEW k \in Nat, NEW f, NEW prog \in Alive,
         n \in Managed => processes[n].child = None,
         n \notin to_restart,
         processes' = Put(processes, n, Started(c, p, f, k)),
         os' = [os EXCEPT ![p] = prog],
         app_file' \in [Names -> {"none", "good", "empty"}],
         managed_processes' \in Int,
         to_restart' = to_restart,
         starting' = None
  PROVE  Inv'
<1> DEFINE e == Started(c, p, f, k)
<1>1. e \in EntryType /\ e.config.name = n /\ e.child = p /\ e.status = "Running"
  BY StartedType
<1>2. /\ Managed' = Managed \cup {n}
      /\ processes' = [m \in Managed' |-> IF m = n THEN e ELSE processes[m]]
      /\ \A m \in Managed' : processes'[m] = IF m = n THEN e ELSE processes[m]
  BY DEF Managed, Put
<1>3. /\ os' \in [Pids -> OsStates]
      /\ \A q \in Pids : os'[q] = IF q = p THEN prog ELSE os[q]
  BY DEF Inv, TypeOK, OsStates, Held
<1>4. \A m \in Managed : processes[m].child # p
  BY ManagerAssumption DEF Inv, ChildOwned, Held, Alive
<1> HIDE DEF e
<1>5. TypeOK'
  BY <1>1, <1>2, <1>3 DEF Inv, TypeOK, Managed
<1>6. ChildOwned'
  BY <1>1, <1>2, <1>3, <1>4, EntryFacts, ManagerAssumption DEF Inv, ChildOwned, Held, Alive
<1>7. StatusMatchesChild'
  BY <1>1, <1>2, <1>3, <1>4, EntryFacts, ConfigAssumption, ManagerAssumption
  DEF Inv, TypeOK, StatusMatchesChild, Statuses
<1> QED BY <1>5, <1>6, <1>7 DEF Inv

\* Dropping entries whose children are reaped with them.
LEMMA DropStep ==
  ASSUME Inv, LockFree, NEW D \in SUBSET Managed,
         processes' = [m \in D |-> processes[m]],
         os' = Reap(os, {processes[m].child : m \in Managed \ D}),
         managed_processes' \in Int,
         UNCHANGED <<app_file, to_restart, starting>>
  PROVE  Inv'
<1>1. Managed' = D /\ \A m \in D : processes'[m] = processes[m]
  BY DEF Managed
<1>2. /\ os' \in [Pids -> OsStates]
      /\ \A p \in Pids : os'[p] = IF p \in {processes[m].child : m \in Managed \ D}
                                  THEN "free" ELSE os[p]
  BY ReapType DEF Inv, TypeOK
<1>3. \A m \in D : processes[m].child # None
                     => /\ processes[m].child \in Pids
                        /\ os'[processes[m].child] = os[processes[m].child]
  BY <1>2, EntryFacts DEF Inv, ChildOwned
<1>4. TypeOK'
  BY <1>1, <1>2, EntryFacts DEF Inv, TypeOK, LockFree
<1>5. ChildOwned'
  <2>1. \A p \in Pids : os'[p] \in Held => \E m \in Managed' : processes'[m].child = p
    <3> SUFFICES ASSUME NEW p \in Pids, os'[p] \in Held
                 PROVE  \E m \in D : processes[m].child = p
      BY <1>1
    <3>1. os[p] \in Held /\ p \notin {processes[m].child : m \in Managed \ D}
      BY <1>2 DEF Held, Alive
    <3>2. PICK m \in Managed : processes[m].child = p
      BY <3>1 DEF Inv, ChildOwned
    <3> QED BY <3>1, <3>2
  <2>2. \A m \in Managed' : processes'[m].child # None => os'[processes'[m].child] \in Held
    BY <1>1, <1>3 DEF Inv, ChildOwned
  <2>3. \A l, m \in Managed' :
          processes'[l].child = processes'[m].child /\ processes'[l].child # None => l = m
    BY <1>1 DEF Inv, ChildOwned
  <2> QED BY <2>1, <2>2, <2>3 DEF ChildOwned
<1>6. StatusMatchesChild'
  BY <1>1, <1>3, EntryFacts DEF Inv, StatusMatchesChild, LockFree
<1> QED BY <1>4, <1>5, <1>6 DEF Inv

\* A step that changes neither the table nor who holds which child.
LEMMA QuietStep ==
  ASSUME Inv, NEW s, s \in {starting, Spawning, None},
         os' \in [Pids -> OsStates],
         \A p \in Pids : os[p] \in Held <=> os'[p] \in Held,
         \A p \in Pids : os[p] = "crash" => os'[p] = "crash",
         app_file' \in [Names -> {"none", "good", "empty"}],
         starting' = s,
         UNCHANGED <<processes, managed_processes, to_restart>>
  PROVE  Inv'
<1>1. Managed' = Managed
  BY DEF Managed
<1>2. TypeOK'
  BY <1>1 DEF Inv, TypeOK
<1>3. ChildOwned'
  <2>1. \A n \in Managed : processes[n].child # None => processes[n].child \in Pids
    BY EntryFacts DEF Inv
  <2> QED BY <1>1, <2>1 DEF Inv, ChildOwned
<1>4. StatusMatchesChild'
  <2>1. \A n \in Managed : processes[n].child # None => processes[n].child \in Pids
    BY EntryFacts DEF Inv
  <2>2. \A n \in Managed : n = s => n = starting
    BY ConfigAssumption, ManagerAssumption, EntryFacts DEF Inv
  <2> QED BY <1>1, <2>1, <2>2 DEF Inv, StatusMatchesChild
<1> QED BY <1>2, <1>3, <1>4 DEF Inv

-----------------------------------------------------------------------------
\* One step of the health check's scan: successes lose their child, crashes are
\* queued with theirs.
LEMMA ScanStep ==
  ASSUME Inv, TickScan
  PROVE  Inv'
<1> DEFINE S == ExitedAs("ok")
           C == ExitedAs("crash")
           stop(n) == [processes[n] EXCEPT !.status = "Stopped", !.child = None]
           fail(n) == [processes[n] EXCEPT !.status = "Errored"]
<1>1. /\ S \subseteq Managed /\ C \subseteq Managed
      /\ \A n \in S : processes[n].status = "Running" /\ processes[n].child \in Pids
                        /\ os[processes[n].child] = "ok"
      /\ \A n \in C : processes[n].status = "Running" /\ processes[n].child \in Pids
                        /\ os[processes[n].child] = "crash"
  BY EntryFacts DEF ExitedAs, Inv
<1>2. S \cap C = {}
  BY <1>1
<1>3. /\ Managed' = Managed
      /\ processes' = [n \in Managed' |-> processes'[n]]
      /\ \A n \in S : processes'[n] = stop(n)
      /\ \A n \in C : processes'[n] = fail(n)
      /\ \A n \in Managed \ (S \cup C) : processes'[n] = processes[n]
  <2>1. processes' = [n \in Managed |-> IF n \in S THEN stop(n)
                                        ELSE IF n \in C THEN fail(n) ELSE processes[n]]
    BY DEF TickScan
  <2> HIDE DEF S, C, stop, fail
  <2> QED BY <1>1, <1>2, <2>1 DEF Managed
<1>4. /\ to_restart = {} /\ starting = None /\ to_restart' = C /\ starting' = None
      /\ managed_processes' = managed_processes /\ app_file' = app_file
  BY DEF TickScan, LockFree
<1>5. /\ os' \in [Pids -> OsStates]
      /\ \A p \in Pids : os'[p] = IF p \in {processes[n].child : n \in S}
                                  THEN "free" ELSE os[p]
  <2> DEFINE dead == {processes[n].child : n \in S}
  <2>1. os' = Reap(os, dead)
    BY DEF TickScan
  <2> HIDE DEF dead
  <2>2. /\ os' \in [Pids -> OsStates]
        /\ \A p \in Pids : os'[p] = IF p \in dead THEN "free" ELSE os[p]
    BY <2>1, ReapType DEF Inv, TypeOK
  <2> QED BY <2>2 DEF dead
<1>6. \A n \in S : /\ stop(n) \in EntryType /\ stop(n).config = processes[n].config
                   /\ stop(n).status = "Stopped" /\ stop(n).child = None
  <2> SUFFICES ASSUME NEW n \in S
               PROVE  /\ stop(n) \in EntryType /\ stop(n).config = processes[n].config
                      /\ stop(n).status = "Stopped" /\ stop(n).child = None
    OBVIOUS
  <2>1. processes[n] \in EntryType
    BY <1>1, EntryFacts DEF Inv
  <2> QED BY <2>1 DEF EntryType, Statuses
<1>7. \A n \in C : /\ fail(n) \in EntryType /\ fail(n).config = processes[n].config
                   /\ fail(n).status = "Errored" /\ fail(n).child = processes[n].child
  BY <1>1, EntryFacts DEF Inv, EntryType, Statuses
<1> HIDE DEF S, C, stop, fail
<1>8. \A n \in Managed \ S : processes[n].child # None
                               => /\ processes[n].child \in Pids
                                  /\ os'[processes[n].child] = os[processes[n].child]
  BY <1>1, <1>5, EntryFacts DEF Inv, ChildOwned
<1>9. \A n \in Managed' : IF n \in S THEN processes'[n].child = None
                          ELSE processes'[n].child = processes[n].child
  BY <1>3, <1>6, <1>7
<1>10. TypeOK'
  <2>1. \A n \in Managed' : processes'[n] \in EntryType /\ processes'[n].config.name = n
    BY <1>3, <1>6, <1>7, EntryFacts DEF Inv
  <2> QED BY <1>1, <1>3, <1>4, <1>5, <2>1 DEF Inv, TypeOK
<1>11. ChildOwned'
  <2>1. \A p \in Pids : os'[p] \in Held => \E m \in Managed' : processes'[m].child = p
    <3> SUFFICES ASSUME NEW p \in Pids, os'[p] \in Held
                 PROVE  \E m \in Managed' : processes'[m].child = p
      OBVIOUS
    <3>1. os[p] \in Held /\ p \notin {processes[m].child : m \in S}
      BY <1>5 DEF Held, Alive
    <3>2. PICK m \in Managed : processes[m].child = p
      BY <3>1 DEF Inv, ChildOwned
    <3> QED BY <1>3, <1>9, <3>1, <3>2
  <2>2. \A m \in Managed' : processes'[m].child # None => os'[processes'[m].child] \in Held
    BY <1>3, <1>8, <1>9 DEF Inv, ChildOwned
  <2>3. \A l, m \in Managed' :
          processes'[l].child = processes'[m].child /\ processes'[l].child # None => l = m
    BY <1>3, <1>9 DEF Inv, ChildOwned
  <2> QED BY <2>1, <2>2, <2>3 DEF ChildOwned
<1>12. StatusMatchesChild'
  <2> SUFFICES ASSUME NEW m \in Managed
               PROVE  /\ processes'[m].status = "Running" /\ processes'[m].child = None
                           => processes'[m].config.spa
                      /\ processes'[m].status = "Stopped" => processes'[m].child = None
                      /\ processes'[m].status = "Errored" <=> m \in to_restart'
                      /\ processes'[m].status = "Errored"
                           => processes'[m].child # None /\ os'[processes'[m].child] = "crash"
                      /\ m = starting' => processes'[m].status = "Stopped"
    BY <1>3 DEF StatusMatchesChild
  <2>0. m # starting'
    BY <1>4, EntryFacts, ConfigAssumption DEF Inv
  <2>1. CASE m \in S
    BY <1>2, <1>3, <1>4, <1>6, <2>0, <2>1
  <2>2. CASE m \in C
    BY <1>1, <1>2, <1>3, <1>4, <1>7, <1>8, <2>0, <2>2, ManagerAssumption
  <2>3. CASE m \notin S \cup C
    BY <1>3, <1>4, <2>0, <2>3 DEF Inv, StatusMatchesChild
  <2> QED BY <2>1, <2>2, <2>3
<1> QED BY <1>10, <1>11, <1>12 DEF Inv

-----------------------------------------------------------------------------
\* Whatever start_process runs is alive.
LEMMA ProgramRunAlive == \A c, f : ProgramRun(c, f) \in Alive
BY DEF ProgramRun, Alive

\* Every step keeps the invariant.
LEMMA NextInv ==
  ASSUME Inv, [Next]_vars
  PROVE  Inv'
<1>1. ASSUME NEW c \in Configs, NEW p \in Pids, spawn_process(c, p) PROVE Inv'
  <2>1. c \in ConfigType /\ c.name \in Names
    BY ManagerAssumption DEF ConfigType
  <2>2. c.name \notin to_restart
    BY <1>1 DEF spawn_process, LockFree
  <2>3. app_file' \in [Names -> {"none", "good", "empty"}]
    BY <1>1, <2>1, FileType DEF spawn_process, Inv
  <2>4. managed_processes' \in Int
    BY <1>1 DEF spawn_process, Inv, TypeOK
  <2> QED
    BY <1>1, <2>1, <2>2, <2>3, <2>4, StartStep, ProgramRunAlive DEF spawn_process, LockFree
<1>15. ASSUME NEW c \in Configs, BeginPull(c) PROVE Inv'
  BY <1>15, QuietStep DEF BeginPull, Inv, TypeOK
<1>16. ASSUME EndPull PROVE Inv'
  BY <1>16, QuietStep DEF EndPull, Inv, TypeOK
<1>2. ASSUME NEW c \in Configs, FailSpawn(c) PROVE Inv'
  <2>1. c \in ConfigType /\ c.name \in Names
    BY ManagerAssumption DEF ConfigType
  <2>2. app_file' \in [Names -> {"none", "good", "empty"}]
    BY <1>2, <2>1, FileType DEF FailSpawn, Inv
  <2> QED BY <1>2, <2>2, QuietStep DEF FailSpawn, Inv, TypeOK
<1>3. ASSUME NEW c \in Configs, register_spa(c) PROVE Inv'
  <2> DEFINE e == SpaEntry(c)
  <2>1. c \in ConfigType /\ c.name \in Names
    BY ManagerAssumption DEF ConfigType
  <2>2. /\ e \in EntryType /\ e.config = c /\ e.child = None /\ e.status = "Running"
    BY <2>1 DEF SpaEntry, EntryType, Statuses
  <2>3. /\ Managed' = Managed \cup {c.name}
        /\ processes' = [m \in Managed' |-> IF m = c.name THEN e ELSE processes[m]]
        /\ \A m \in Managed' : processes'[m] = IF m = c.name THEN e ELSE processes[m]
    BY <1>3 DEF register_spa, Managed, Put
  <2>4. /\ c.spa /\ c.name \notin Managed /\ to_restart = {} /\ starting = None
        /\ UNCHANGED <<os, app_file, to_restart, starting>>
        /\ managed_processes' = managed_processes + 1
    BY <1>3 DEF register_spa, LockFree
  <2> HIDE DEF e
  <2>5. TypeOK'
    <3>1. processes' = [m \in Managed' |-> processes'[m]]
      BY <2>3
    <3>2. \A m \in Managed' : processes'[m] \in EntryType /\ processes'[m].config.name = m
      BY <2>2, <2>3, EntryFacts DEF Inv
    <3>3. Managed' \subseteq Names /\ to_restart' \subseteq Managed' /\ starting' = None
      BY <2>1, <2>3, <2>4 DEF Inv, TypeOK
    <3>4. managed_processes' \in Int /\ os' = os /\ app_file' = app_file
      BY <2>4 DEF Inv, TypeOK
    <3> QED BY <3>1, <3>2, <3>3, <3>4 DEF Inv, TypeOK
  <2>6. ChildOwned'
    <3>1. \A m \in Managed' : processes'[m].child # None
                                => m \in Managed /\ processes'[m] = processes[m]
      BY <2>2, <2>3
    <3>2. \A p \in Pids : os'[p] \in Held => \E m \in Managed' : processes'[m].child = p
      BY <2>3, <2>4 DEF Inv, ChildOwned
    <3> QED BY <2>4, <3>1, <3>2 DEF Inv, ChildOwned
  <2>7. StatusMatchesChild'
    <3>1. c.name # None
      BY <2>1, ConfigAssumption
    <3> QED BY <2>2, <2>3, <2>4, <3>1, EntryFacts DEF Inv, StatusMatchesChild
  <2> QED BY <2>5, <2>6, <2>7 DEF Inv
<1>4. ASSUME NEW n \in Names, delete(n) PROVE Inv'
  <2>1. /\ processes' = [m \in Managed \ {n} |-> processes[m]]
        /\ {processes[m].child : m \in Managed \ (Managed \ {n})} = {processes[n].child}
    BY <1>4 DEF delete, Without, Managed
  <2>2. managed_processes' \in Int
    BY <1>4 DEF delete, Inv, TypeOK
  <2> QED BY <1>4, <2>1, <2>2, DropStep DEF delete
<1>5. ASSUME NEW n \in Names, BeginRestart(n) PROVE Inv'
  <2> DEFINE k == kill_child(processes[n])
  <2>1. n \in Managed /\ starting = None /\ to_restart' = to_restart \ {n}
    BY <1>5 DEF BeginRestart, LockFree
  <2>2. k \in EntryType /\ k.config.name = n /\ k.child = None /\ k.status = "Stopped"
    BY <2>1, KilledType, EntryFacts DEF Inv
  <2>3. /\ Managed' = Managed
        /\ processes' = [m \in Managed |-> IF m = n THEN k ELSE processes[m]]
    BY <1>5 DEF BeginRestart, Managed, Inv, TypeOK
  <2> HIDE DEF k
  <2> QED BY <1>5, <2>1, <2>2, <2>3, KillStep DEF BeginRestart
<1>6. ASSUME NEW p \in Pids, FinishRestart(p) PROVE Inv'
  <2> DEFINE n == starting
             c == processes[n].config
  <2>1. n \in Managed /\ n \in Names
    BY <1>6, EntryFacts DEF FinishRestart, Inv, TypeOK
  <2>2. c \in ConfigType /\ c.name = n /\ processes[n].restart_count + 1 \in Nat
    BY <2>1, EntryFacts DEF Inv
  <2>3. processes[n].child = None /\ n \notin to_restart
    BY <2>1 DEF Inv, StatusMatchesChild
  <2>4. app_file' \in [Names -> {"none", "good", "empty"}]
    BY <1>6, <2>1, <2>2, FileType DEF FinishRestart, Inv
  <2>5. processes' = Put(processes, n, Started(c, p, app_file[n], processes[n].restart_count + 1))
    <3> DEFINE e == Started(c, p, app_file[n], processes[n].restart_count + 1)
    <3>1. processes' = [processes EXCEPT ![n] = e]
      BY <1>6 DEF FinishRestart
    <3> HIDE DEF e, n
    <3>2. Managed \cup {n} = Managed
      BY <2>1
    <3>3. Put(processes, n, e) = [x \in Managed |-> IF x = n THEN e ELSE processes[x]]
      BY <3>2 DEF Put, Managed
    <3> QED BY <3>1, <3>3 DEF Inv, TypeOK, Managed, e
  <2>6. /\ os[p] = "free"
        /\ os' = [os EXCEPT ![p] = ProgramRun(c, app_file[n])]
        /\ to_restart' = to_restart
        /\ starting' = None
        /\ managed_processes' \in Int
    BY <1>6 DEF FinishRestart, Inv, TypeOK
  <2>7. ProgramRun(c, app_file[n]) \in Alive
    BY ProgramRunAlive
  <2> HIDE DEF n, c
  <2> QED BY <2>1, <2>2, <2>3, <2>4, <2>5, <2>6, <2>7, StartStep
<1>7. ASSUME FailRestart PROVE Inv'
  <2>1. starting \in Managed /\ starting \in Names
    BY <1>7, EntryFacts DEF FailRestart, Inv, TypeOK
  <2>2. app_file' \in [Names -> {"none", "good", "empty"}]
    BY <1>7, <2>1, FileType, EntryFacts DEF FailRestart, Inv, TypeOK
  <2> QED BY <1>7, <2>2, QuietStep DEF FailRestart, Inv, TypeOK
<1>8. ASSUME NEW n \in Names, NEW u \in Updates, update(n, u) PROVE Inv'
  <2> DEFINE c == UpdateConfig(processes[n].config, u)
             e == [processes[n] EXCEPT !.config = c]
  <2>1. n \in Managed /\ starting = None /\ to_restart = {}
    BY <1>8 DEF update, LockFree
  <2>2. c \in ConfigType /\ c.name = n /\ c.spa = processes[n].config.spa
    BY <2>1, EntryFacts, UpdateConfigType, ManagerAssumption DEF Inv
  <2>3. processes[n] \in EntryType
    BY <2>1, EntryFacts DEF Inv
  <2> HIDE DEF c
  <2>4. /\ e \in EntryType /\ e.config = c /\ e.child = processes[n].child
        /\ e.status = processes[n].status
    BY <2>2, <2>3 DEF EntryType
  <2>5. CASE ~c.spa
    <3> DEFINE k == kill_child(e)
    <3>1. k \in EntryType /\ k.config.name = n /\ k.child = None /\ k.status = "Stopped"
      BY <2>2, <2>4, KilledType
    <3>2. processes' = [processes EXCEPT ![n] = k] /\ starting' = n
            /\ os' = Reap(os, {processes[n].child})
      BY <1>8, <2>4, <2>5 DEF update, c
    <3> HIDE DEF k
    <3>3. /\ Managed' = Managed
          /\ processes' = [m \in Managed |-> IF m = n THEN k ELSE processes[m]]
      BY <3>2 DEF Managed, Inv, TypeOK
    <3>4. to_restart' = to_restart \ {n} /\ UNCHANGED <<managed_processes, app_file>>
      BY <1>8, <2>1 DEF update
    <3> QED BY <2>1, <3>1, <3>2, <3>3, <3>4, KillStep
  <2>6. CASE c.spa
    <3>1. processes' = [processes EXCEPT ![n] = e]
            /\ UNCHANGED <<os, starting, managed_processes, app_file, to_restart>>
      BY <1>8, <2>4, <2>6 DEF update, c
    <3> HIDE DEF e
    <3>2. /\ Managed' = Managed
          /\ processes' = [m \in Managed' |-> processes'[m]]
          /\ \A m \in Managed : processes'[m] = IF m = n THEN e ELSE processes[m]
      BY <3>1 DEF Managed, Inv, TypeOK
    <3>3. \A m \in Managed : processes'[m].child = processes[m].child
      BY <2>4, <3>2
    <3>4. TypeOK'
      <4>1. \A m \in Managed : processes'[m] \in EntryType /\ processes'[m].config.name = m
        BY <2>2, <2>4, <3>2, EntryFacts DEF Inv
      <4> QED BY <3>1, <3>2, <4>1 DEF Inv, TypeOK
    <3>5. ChildOwned'
      BY <3>1, <3>2, <3>3 DEF Inv, ChildOwned
    <3>6. StatusMatchesChild'
      BY <2>1, <2>2, <2>4, <2>6, <3>1, <3>2 DEF Inv, StatusMatchesChild
    <3> QED BY <3>4, <3>5, <3>6 DEF Inv
  <2> QED BY <2>5, <2>6
<1>9. ASSUME kill_all PROVE Inv'
  <2> DEFINE D == {}
  <2>1. D \in SUBSET Managed /\ Managed \ D = Managed
    OBVIOUS
  <2>2. processes' = [m \in D |-> processes[m]]
    BY <1>9 DEF kill_all
  <2>3. os' = Reap(os, {processes[m].child : m \in Managed \ D})
    BY <1>9, <2>1 DEF kill_all
  <2>4. /\ LockFree
        /\ managed_processes' \in Int
        /\ UNCHANGED <<app_file, to_restart, starting>>
    BY <1>9 DEF kill_all
  <2> HIDE DEF D
  <2> QED BY <2>1, <2>2, <2>3, <2>4, DropStep
<1>10. ASSUME NEW n \in Names, TickRestart(n) PROVE Inv'
  <2> DEFINE k == kill_child(processes[n])
  <2>1. n \in Managed
    BY <1>10 DEF TickRestart, Inv, TypeOK
  <2>2. k \in EntryType /\ k.config.name = n /\ k.child = None /\ k.status = "Stopped"
    BY <2>1, KilledType, EntryFacts DEF Inv
  <2>3. /\ Managed' = Managed
        /\ processes' = [m \in Managed |-> IF m = n THEN k ELSE processes[m]]
    BY <1>10 DEF TickRestart, Managed, Inv, TypeOK
  <2> HIDE DEF k
  <2> QED BY <1>10, <2>1, <2>2, <2>3, KillStep DEF TickRestart
<1>11. ASSUME NEW p \in Pids, NEW code \in {"ok", "crash"}, Exit(p, code) PROVE Inv'
  <2>1. /\ os' \in [Pids -> OsStates]
        /\ \A q \in Pids : os[q] \in Held <=> os'[q] \in Held
        /\ \A q \in Pids : os[q] = "crash" => os'[q] = "crash"
    BY <1>11 DEF Exit, Inv, TypeOK, OsStates, Held, Alive
  <2> QED BY <1>11, <2>1, QuietStep DEF Exit, Inv, TypeOK
<1>12. ASSUME NEW p \in Pids, OrphanExit(p) PROVE Inv'
  <2>1. /\ os' \in [Pids -> OsStates]
        /\ \A q \in Pids : os[q] \in Held <=> os'[q] \in Held
        /\ \A q \in Pids : os[q] = "crash" => os'[q] = "crash"
    BY <1>12 DEF OrphanExit, Inv, TypeOK, OsStates, Held, Alive
  <2> QED BY <1>12, <2>1, QuietStep DEF OrphanExit, Inv, TypeOK
<1>13. ASSUME Vanish PROVE Inv'
  <2>1. Managed' = {}
    BY <1>13 DEF Vanish, Managed
  <2>2. /\ os' \in [Pids -> OsStates]
        /\ \A p \in Pids : os'[p] \notin Held
    BY <1>13 DEF Vanish, Inv, TypeOK, OsStates, Held, Alive
  <2>3. TypeOK'
    BY <1>13, <2>1, <2>2 DEF Vanish, Inv, TypeOK
  <2>4. ChildOwned' /\ StatusMatchesChild'
    BY <2>1, <2>2 DEF ChildOwned, StatusMatchesChild
  <2> QED BY <2>3, <2>4 DEF Inv
<1>14. CASE UNCHANGED vars
  <2>1. Managed' = Managed
    BY <1>14 DEF vars, Managed
  <2> QED
    BY <1>14, <2>1, QuietStep DEF vars, Inv, TypeOK
<1> QED
  BY <1>1, <1>2, <1>3, <1>4, <1>5, <1>6, <1>7, <1>8, <1>9, <1>10, <1>11, <1>12,
     <1>13, <1>14, <1>15, <1>16, ScanStep
  DEF Next, Request, Start, Tick, Environment

\* The three parts hold together in every reachable state.
THEOREM InvariantHolds == Spec => []Inv
<1>1. Init => Inv
  BY InitInv
<1>2. Inv /\ [Next]_vars => Inv'
  BY NextInv
<1> QED BY <1>1, <1>2, PTL DEF Spec

\* Every variable keeps its type, and an entry is stored under its own name.
THEOREM TypeCorrect == Spec => []TypeOK
<1>1. Inv => TypeOK
  BY DEF Inv
<1> QED BY <1>1, InvariantHolds, PTL

\* No child escapes the table, however many applications, restarts and crashes
\* (process.rs, kill_child and its callers).
THEOREM ChildrenOwned == Spec => []ChildOwned
<1>1. Inv => ChildOwned
  BY DEF Inv
<1> QED BY <1>1, InvariantHolds, PTL

\* The reported status agrees with the child of every entry (process.rs,
\* check_and_restart and restart).
THEOREM StatusCorrect == Spec => []StatusMatchesChild
<1>1. Inv => StatusMatchesChild
  BY DEF Inv
<1> QED BY <1>1, InvariantHolds, PTL

-----------------------------------------------------------------------------
\* How each step changes the set of managed names.
LEMMA GaugeStep ==
  ASSUME Inv, GaugeMatchesTable, [Next]_vars
  PROVE  GaugeMatchesTable'
<1>1. IsFiniteSet(Managed) /\ Cardinality(Managed) \in Nat
  BY ManagerAssumption, FS_Subset, FS_CardinalityType DEF Inv, TypeOK
<1>2. ASSUME NEW n, n \notin Managed, Managed' = Managed \cup {n},
             managed_processes' = managed_processes + 1
      PROVE  GaugeMatchesTable'
  BY <1>1, <1>2, FS_AddElement DEF GaugeMatchesTable
<1>3. ASSUME NEW n, n \in Managed, Managed' = Managed \ {n},
             managed_processes' = managed_processes - 1
      PROVE  GaugeMatchesTable'
  BY <1>1, <1>3, FS_RemoveElement DEF GaugeMatchesTable
<1>4. ASSUME Managed' = {}, managed_processes' = 0
      PROVE  GaugeMatchesTable'
  BY <1>4, FS_EmptySet DEF GaugeMatchesTable
<1>5. ASSUME Managed' = Managed, managed_processes' = managed_processes
      PROVE  GaugeMatchesTable'
  BY <1>5 DEF GaugeMatchesTable
<1>6. ASSUME NEW c \in Configs, NEW p \in Pids, spawn_process(c, p) PROVE GaugeMatchesTable'
  BY <1>2, <1>6 DEF spawn_process, Put, Managed
<1>7. ASSUME NEW c \in Configs, register_spa(c) PROVE GaugeMatchesTable'
  BY <1>2, <1>7 DEF register_spa, Put, Managed
<1>8. ASSUME NEW n \in Names, delete(n) PROVE GaugeMatchesTable'
  BY <1>3, <1>8 DEF delete, Without, Managed
<1>9. ASSUME kill_all \/ Vanish PROVE GaugeMatchesTable'
  BY <1>4, <1>9 DEF kill_all, Vanish, Managed
<1>10. ASSUME NEW n \in Names, BeginRestart(n) \/ TickRestart(n) PROVE GaugeMatchesTable'
  BY <1>5, <1>10 DEF BeginRestart, TickRestart, Managed
<1>11. ASSUME NEW p \in Pids, FinishRestart(p) PROVE GaugeMatchesTable'
  BY <1>5, <1>11 DEF FinishRestart, Managed
<1>12. ASSUME NEW n \in Names, NEW u \in Updates, update(n, u) PROVE GaugeMatchesTable'
  BY <1>5, <1>12 DEF update, Managed
<1>13. ASSUME TickScan PROVE GaugeMatchesTable'
  BY <1>5, <1>13 DEF TickScan, Managed
<1>14. ASSUME UNCHANGED <<processes, managed_processes>> PROVE GaugeMatchesTable'
  BY <1>5, <1>14 DEF Managed
<1> QED
  BY <1>6, <1>7, <1>8, <1>9, <1>10, <1>11, <1>12, <1>13, <1>14
  DEF Next, Request, Start, Tick, Environment, vars, FailSpawn, BeginPull, EndPull, FailRestart,
      Exit, OrphanExit

\* The exported gauge is the number of managed applications (process.rs,
\* spawn_process, register_spa, delete and kill_all).
THEOREM GaugeCorrect == Spec => []GaugeMatchesTable
<1>1. Init => GaugeMatchesTable
  BY FS_EmptySet DEF Init, GaugeMatchesTable, Managed
<1>2. Inv /\ GaugeMatchesTable /\ [Next]_vars => GaugeMatchesTable'
  BY GaugeStep
<1> QED BY <1>1, <1>2, InvariantHolds, PTL DEF Spec

-----------------------------------------------------------------------------
\* The step form of RestartsCounted.
RestartCounted(n) ==
  IF processes'[n].child \notin {None, processes[n].child}
  THEN processes'[n].restart_count = processes[n].restart_count + 1
  ELSE processes'[n].restart_count = processes[n].restart_count

\* Every step counts the restarts of every entry.
LEMMA CountStep ==
  ASSUME Inv, [Next]_vars, NEW m \in Managed, m \in Managed'
  PROVE  RestartCounted(m)
<1> USE EntryFacts DEF Inv
<1>0. processes[m] \in EntryType
  OBVIOUS
<1>1. ASSUME processes'[m] = processes[m] PROVE RestartCounted(m)
  BY <1>1 DEF RestartCounted
<1>2. ASSUME NEW e \in EntryType, processes'[m] = kill_child(e),
             e.restart_count = processes[m].restart_count
      PROVE  RestartCounted(m)
  BY <1>2, KilledType DEF RestartCounted
<1>3. ASSUME NEW c \in Configs, NEW p \in Pids, spawn_process(c, p) PROVE RestartCounted(m)
  BY <1>1, <1>3 DEF spawn_process, Put, Managed
<1>4. ASSUME NEW c \in Configs, register_spa(c) PROVE RestartCounted(m)
  BY <1>1, <1>4 DEF register_spa, Put, Managed
<1>5. ASSUME NEW n \in Names, delete(n) PROVE RestartCounted(m)
  BY <1>1, <1>5 DEF delete, Without, Managed
<1>6. ASSUME kill_all \/ Vanish PROVE RestartCounted(m)
  BY <1>6 DEF kill_all, Vanish, Managed
<1>7. ASSUME NEW n \in Names, BeginRestart(n) \/ TickRestart(n) PROVE RestartCounted(m)
  <2>1. processes'[m] = IF m = n THEN kill_child(processes[m]) ELSE processes[m]
    BY <1>7 DEF BeginRestart, TickRestart, Managed
  <2> QED BY <1>0, <1>1, <1>2, <2>1
<1>8. ASSUME NEW p \in Pids, FinishRestart(p) PROVE RestartCounted(m)
  <2>1. CASE m # starting
    BY <1>1, <1>8, <2>1 DEF FinishRestart, Managed
  <2>2. CASE m = starting
    <3> DEFINE e == Started(processes[m].config, p, app_file[m], processes[m].restart_count + 1)
    <3>1. processes'[m] = e
      BY <1>8, <2>2 DEF FinishRestart, Managed
    <3>2. e.child = p /\ e.restart_count = processes[m].restart_count + 1
      BY StartedType
    <3>3. processes[m].child = None
      BY <2>2 DEF StatusMatchesChild
    <3> HIDE DEF e
    <3> QED BY <3>1, <3>2, <3>3, ManagerAssumption DEF RestartCounted
  <2> QED BY <2>1, <2>2
<1>9. ASSUME NEW n \in Names, NEW u \in Updates, update(n, u) PROVE RestartCounted(m)
  <2> DEFINE e == [processes[n] EXCEPT !.config = UpdateConfig(processes[n].config, u)]
  <2>1. n \in Managed
    BY <1>9 DEF update
  <2>2. /\ e \in EntryType /\ e.child = processes[n].child
        /\ e.restart_count = processes[n].restart_count
    <3> DEFINE c == UpdateConfig(processes[n].config, u)
    <3>1. c \in ConfigType /\ processes[n] \in EntryType
      BY <2>1, UpdateConfigType, ManagerAssumption
    <3> HIDE DEF c
    <3>2. /\ [processes[n] EXCEPT !.config = c] \in EntryType
          /\ [processes[n] EXCEPT !.config = c].child = processes[n].child
          /\ [processes[n] EXCEPT !.config = c].restart_count = processes[n].restart_count
      BY <3>1 DEF EntryType
    <3> QED BY <3>2 DEF c
  <2>3. \/ processes' = [processes EXCEPT ![n] = e]
        \/ processes' = [processes EXCEPT ![n] = kill_child(e)]
    BY <1>9 DEF update
  <2> HIDE DEF e
  <2>4. \/ processes'[m] = processes[m]
        \/ m = n /\ processes'[m] = e
        \/ m = n /\ processes'[m] = kill_child(e)
    BY <2>3 DEF Managed
  <2>5. CASE m = n /\ processes'[m] = e
    BY <2>2, <2>5 DEF RestartCounted
  <2> QED BY <1>1, <1>2, <2>2, <2>4, <2>5
<1>10. ASSUME TickScan PROVE RestartCounted(m)
  <2>1. \/ processes'[m] = processes[m]
        \/ processes'[m] = [processes[m] EXCEPT !.status = "Stopped", !.child = None]
        \/ processes'[m] = [processes[m] EXCEPT !.status = "Errored"]
    BY <1>10 DEF TickScan, Managed
  <2> QED BY <1>0, <2>1 DEF EntryType, RestartCounted
<1>11. ASSUME UNCHANGED processes PROVE RestartCounted(m)
  BY <1>1, <1>11
<1> QED
  BY <1>3, <1>4, <1>5, <1>6, <1>7, <1>8, <1>9, <1>10, <1>11
  DEF Next, Request, Start, Tick, Environment, vars, FailSpawn, BeginPull, EndPull, FailRestart,
      Exit, OrphanExit

\* An entry's restart count counts its children after the first (process.rs,
\* restart).
THEOREM RestartsAreCounted == Spec => RestartsCounted
<1>1. Inv /\ [Next]_vars =>
        [\A n \in Managed \cap Managed' :
           LET e == processes[n]  f == processes'[n] IN
             IF f.child \notin {None, e.child}
             THEN f.restart_count = e.restart_count + 1
             ELSE f.restart_count = e.restart_count]_vars
  BY CountStep DEF RestartCounted
<1> QED BY <1>1, InvariantHolds, PTL DEF Spec, RestartsCounted
====
