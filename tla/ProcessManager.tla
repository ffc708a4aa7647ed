---- MODULE ProcessManager ----
(***************************************************************************)
(* The daemon's process table (process.rs): the applications it manages,   *)
(* the operating-system children it started for them, the health check     *)
(* that restarts a crashed child, and the requests that change the table.  *)
(*                                                                         *)
(* Every operation runs under the daemon's one mutex. An operation that    *)
(* cannot be observed halfway is one step. A restart can: its child is     *)
(* dead while the image is pulled and the new one is started, so it is two *)
(* steps, BeginRestart (or TickRestart) and then FinishRestart or          *)
(* FailRestart, with the mutex held in between. The pull of an image that  *)
(* is spawned holds it too, for as long as the registry takes. The health  *)
(* check holds it from its scan to its last restart. Children exit at any  *)
(* time.                                                                   *)
(*                                                                         *)
(* A Pid is the identity of one child, not a recycled number.              *)
(***************************************************************************)
EXTENDS ProcessConfig, Integers, FiniteSets

CONSTANTS
  Pids,         \* identities of operating-system processes
  Spawning,     \* in the place of a name: a new application's image is being pulled
  Configs,      \* configurations users submit
  Updates,      \* updates users submit
  MaxRestarts   \* bound on the restarts of one table entry

ASSUME ManagerAssumption ==
  /\ IsFiniteSet(Names)
  /\ Configs \subseteq ConfigType
  /\ Updates \subseteq UpdateType
  /\ None \notin Pids
  /\ Spawning \notin Names \cup {None}
  /\ MaxRestarts \in Nat

VARIABLES
  processes,         \* ProcessManager.processes, a map from names
  managed_processes, \* the gauge of metrics.rs
  os,                \* what the operating system runs under each Pid
  app_file,          \* what apps/<name>/ holds
  to_restart,        \* crashed entries the current health check still has to restart
  starting           \* the entry whose restart has killed the old child, Spawning, or None

vars == <<processes, managed_processes, os, app_file, to_restart, starting>>

-----------------------------------------------------------------------------
Statuses == {"Running", "Stopped", "Errored"}

EntryType == [config        : ConfigType,
              child         : Pids \cup {None},
              status        : Statuses,
              restart_count : Nat]

\* "app" runs the application, "empty" runs a truncated copy of it, "ok" and
\* "crash" have exited and wait to be reaped, "orphan" has lost its daemon.
Alive    == {"app", "empty"}
Held     == Alive \cup {"ok", "crash"}
OsStates == Held \cup {"free", "orphan"}

Managed == DOMAIN processes

\* No operation is in progress: the mutex can be taken.
LockFree == to_restart = {} /\ starting = None

\* The operation in progress waits for a registry.
Pulling ==
  \/ starting = Spawning
  \/ starting \in Managed /\ processes[starting].config.is_oci

Put(f, k, v) == [x \in DOMAIN f \cup {k} |-> IF x = k THEN v ELSE f[x]]
Without(f, k) == [x \in DOMAIN f \ {k} |-> f[x]]

\* Wrong: the count of the replaced entry is not carried over.
Started_from_zero(c, p, file, count) ==
  [config |-> StartConfig(c, file), child |-> p, status |-> "Running",
   restart_count |-> 0]

\* The entry a successful start inserts.
Started(c, p, file, count) ==
  [config |-> StartConfig(c, file), child |-> p, status |-> "Running",
   restart_count |-> count]

SpaEntry(c) ==
  [config |-> c, child |-> None, status |-> "Running", restart_count |-> 0]

\* Wrong: the status is left as it was.
kill_child_keeps_status(e) == [e EXCEPT !.child = None]

\* kill_child: the entry afterwards, and the child killed and waited for.
kill_child(e) == [e EXCEPT !.child = None, !.status = "Stopped"]
Reap(o, dead) == [p \in Pids |-> IF p \in dead THEN "free" ELSE o[p]]

TypeOK ==
  /\ Managed \subseteq Names
  /\ processes = [n \in Managed |-> processes[n]]
  /\ \A n \in Managed : processes[n] \in EntryType /\ processes[n].config.name = n
  /\ managed_processes \in Int
  /\ os \in [Pids -> OsStates]
  /\ app_file \in [Names -> {"none", "good", "empty"}]
  /\ to_restart \subseteq Managed
  /\ starting \in Managed \cup {Spawning, None}

Init ==
  /\ processes = [n \in {} |-> n]
  /\ managed_processes = 0
  /\ os = [p \in Pids |-> "free"]
  /\ app_file = [n \in Names |-> "none"]
  /\ to_restart = {}
  /\ starting = None

-----------------------------------------------------------------------------
\* Requests. A request for a name that exists (spawn) or does not (the others)
\* is refused and changes nothing.

\* spawn_process of an image: the requests to the registry, under the mutex and
\* without a timeout. What follows is spawn_process or FailSpawn.
BeginPull(c) ==
  /\ LockFree
  /\ c.is_oci
  /\ c.name \notin Managed
  /\ starting' = Spawning
  /\ UNCHANGED <<processes, managed_processes, os, app_file, to_restart>>

EndPull ==
  /\ starting = Spawning
  /\ starting' = None
  /\ UNCHANGED <<processes, managed_processes, os, app_file, to_restart>>

spawn_process(c, p) ==
  /\ LockFree
  /\ c.name \notin Managed
  /\ Executable(c, app_file[c.name])
  /\ os[p] = "free"
  /\ processes' = Put(processes, c.name, Started(c, p, app_file[c.name], 0))
  /\ os' = [os EXCEPT ![p] = ProgramRun(c, app_file[c.name])]
  /\ app_file' = [app_file EXCEPT ![c.name] = CopiedFile(c, @)]
  /\ managed_processes' = managed_processes + 1
  /\ UNCHANGED <<to_restart, starting>>

\* start_process fails after the copy (a volume, the sandbox or the exec); a
\* failure before it changes nothing.
FailSpawn(c) ==
  /\ LockFree
  /\ c.name \notin Managed
  /\ app_file' = [app_file EXCEPT ![c.name] = CopiedFile(c, @)]
  /\ UNCHANGED <<processes, managed_processes, os, to_restart, starting>>

register_spa(c) ==
  /\ LockFree
  /\ c.spa
  /\ c.name \notin Managed
  /\ processes' = Put(processes, c.name, SpaEntry(c))
  /\ managed_processes' = managed_processes + 1
  /\ UNCHANGED <<os, app_file, to_restart, starting>>

\* Wrong: the entry goes, its child stays.
delete_without_kill(n) ==
  /\ LockFree
  /\ n \in Managed
  /\ processes' = Without(processes, n)
  /\ managed_processes' = managed_processes - 1
  /\ UNCHANGED <<os, app_file, to_restart, starting>>

\* Wrong: the mutex is not taken, so the entry may be one that is being restarted.
delete_without_lock(n) ==
  /\ n \in Managed
  /\ processes' = Without(processes, n)
  /\ os' = Reap(os, {processes[n].child})
  /\ managed_processes' = managed_processes - 1
  /\ UNCHANGED <<app_file, to_restart, starting>>

delete(n) ==
  /\ LockFree
  /\ n \in Managed
  /\ processes' = Without(processes, n)
  /\ os' = Reap(os, {processes[n].child})
  /\ managed_processes' = managed_processes - 1
  /\ UNCHANGED <<app_file, to_restart, starting>>

\* restart (and reload) up to start_process: the old child is gone.
BeginRestart(n) ==
  /\ LockFree
  /\ n \in Managed
  /\ processes[n].restart_count < MaxRestarts
  /\ processes' = [processes EXCEPT ![n] = kill_child(@)]
  /\ os' = Reap(os, {processes[n].child})
  /\ starting' = n
  /\ UNCHANGED <<managed_processes, app_file, to_restart>>

FinishRestart(p) ==
  /\ starting \in Managed
  /\ LET e == processes[starting] IN
       /\ Executable(e.config, app_file[starting])
       /\ os[p] = "free"
       /\ processes' = [processes EXCEPT ![starting] =
                          Started(e.config, p, app_file[starting], e.restart_count + 1)]
       /\ os' = [os EXCEPT ![p] = ProgramRun(e.config, app_file[starting])]
       /\ app_file' = [app_file EXCEPT ![starting] = CopiedFile(e.config, @)]
  /\ starting' = None
  /\ UNCHANGED <<managed_processes, to_restart>>

\* start_process returns an error, before the copy or after it. The entry stays
\* as kill_child left it.
FailRestart ==
  /\ starting \in Managed
  /\ app_file' \in {app_file,
                    [app_file EXCEPT ![starting] = CopiedFile(processes[starting].config, @)]}
  /\ starting' = None
  /\ UNCHANGED <<processes, managed_processes, os, to_restart>>

\* update: the configuration changes in place, then the application restarts,
\* unless it is a static site.
update(n, u) ==
  /\ LockFree
  /\ n \in Managed
  /\ processes[n].restart_count < MaxRestarts
  /\ LET e == [processes[n] EXCEPT !.config = UpdateConfig(@, u)] IN
       IF e.config.spa
       THEN /\ processes' = [processes EXCEPT ![n] = e]
            /\ UNCHANGED <<os, starting>>
       ELSE /\ processes' = [processes EXCEPT ![n] = kill_child(e)]
            /\ os' = Reap(os, {e.child})
            /\ starting' = n
  /\ UNCHANGED <<managed_processes, app_file, to_restart>>

\* Wrong: the gauge is not reset.
kill_all_keeps_gauge ==
  /\ LockFree
  /\ os' = Reap(os, {processes[n].child : n \in Managed})
  /\ processes' = [n \in {} |-> n]
  /\ UNCHANGED <<managed_processes, app_file, to_restart, starting>>

kill_all ==
  /\ LockFree
  /\ os' = Reap(os, {processes[n].child : n \in Managed})
  /\ processes' = [n \in {} |-> n]
  /\ managed_processes' = 0
  /\ UNCHANGED <<app_file, to_restart, starting>>

-----------------------------------------------------------------------------
\* The health check of the server loop: check_and_restart.

\* Wrong: a child that exited with success is not looked at.
ExitedAs_crash_only(code) ==
  {n \in Managed : /\ code = "crash"
                   /\ processes[n].status = "Running"
                   /\ processes[n].child # None
                   /\ os[processes[n].child] = code}

ExitedAs(code) ==
  {n \in Managed : /\ processes[n].status = "Running"
                   /\ processes[n].child # None
                   /\ os[processes[n].child] = code}

\* try_wait on every Running entry. A success is final; a crash is queued.
TickScan ==
  /\ LockFree
  /\ ExitedAs("ok") \cup ExitedAs("crash") # {}
  /\ processes' = [n \in Managed |->
                     IF n \in ExitedAs("ok")
                     THEN [processes[n] EXCEPT !.status = "Stopped", !.child = None]
                     ELSE IF n \in ExitedAs("crash")
                          THEN [processes[n] EXCEPT !.status = "Errored"]
                          ELSE processes[n]]
  /\ os' = Reap(os, {processes[n].child : n \in ExitedAs("ok")})
  /\ to_restart' = ExitedAs("crash")
  /\ UNCHANGED <<managed_processes, app_file, starting>>

\* Wrong: a restarted entry is not taken off the list.
TickRestart_keeps_queue(n) ==
  /\ starting = None
  /\ n \in to_restart
  /\ processes' = [processes EXCEPT ![n] = kill_child(@)]
  /\ os' = Reap(os, {processes[n].child})
  /\ starting' = n
  /\ UNCHANGED <<managed_processes, app_file, to_restart>>

TickRestart(n) ==
  /\ starting = None
  /\ n \in to_restart
  /\ processes' = [processes EXCEPT ![n] = kill_child(@)]
  /\ os' = Reap(os, {processes[n].child})
  /\ to_restart' = to_restart \ {n}
  /\ starting' = n
  /\ UNCHANGED <<managed_processes, app_file>>

-----------------------------------------------------------------------------
\* The operating system.

\* A child exits. Bound: a child whose entry has no restart left does not crash.
Exit(p, code) ==
  /\ os[p] \in Alive
  /\ code = "crash" => /\ os[p] = "app"
                       /\ \E n \in Managed : /\ processes[n].child = p
                                             /\ processes[n].restart_count < MaxRestarts
  /\ os' = [os EXCEPT ![p] = code]
  /\ UNCHANGED <<processes, managed_processes, app_file, to_restart, starting>>

\* The daemon process ends, by exit(0) or by a crash, and its table with it.
\* Children are not killed with it; init reaps what had exited.
Vanish ==
  /\ os' = [p \in Pids |-> IF os[p] \in Alive THEN "orphan"
                           ELSE IF os[p] \in Held THEN "free" ELSE os[p]]
  /\ processes' = [n \in {} |-> n]
  /\ managed_processes' = 0
  /\ to_restart' = {}
  /\ starting' = None
  /\ UNCHANGED app_file

OrphanExit(p) ==
  /\ os[p] = "orphan"
  /\ os' = [os EXCEPT ![p] = "free"]
  /\ UNCHANGED <<processes, managed_processes, app_file, to_restart, starting>>

-----------------------------------------------------------------------------
Request ==
  \/ \E c \in Configs : BeginPull(c)
  \/ \E c \in Configs, p \in Pids : spawn_process(c, p)
  \/ \E c \in Configs : FailSpawn(c)
  \/ \E c \in Configs : register_spa(c)
  \/ \E n \in Names : delete(n)
  \/ \E n \in Names : BeginRestart(n)
  \/ \E n \in Names, u \in Updates : update(n, u)
  \/ kill_all

Start == EndPull \/ (\E p \in Pids : FinishRestart(p)) \/ FailRestart

Tick == TickScan \/ (\E n \in Names : TickRestart(n))

Environment ==
  \/ \E p \in Pids, code \in {"ok", "crash"} : Exit(p, code)
  \/ \E p \in Pids : OrphanExit(p)
  \/ Vanish

Next == Request \/ Start \/ Tick \/ Environment

\* The server loop ticks every two seconds for as long as the daemon lives. It
\* competes with requests for the mutex, which is handed out first come, first
\* served: strong fairness of its scan. It goes on to the restarts of its list, and
\* start_process returns unless it waits for a registry: no answer is assumed.
Fairness ==
  /\ SF_vars(TickScan)
  /\ WF_vars(\E n \in Names : TickRestart(n))
  /\ WF_vars(~Pulling /\ Start)

Spec == Init /\ [][Next]_vars

FairSpec == Spec /\ Fairness

-----------------------------------------------------------------------------
(* Properties. *)

\* No child escapes the table: every child the daemon started and has not
\* reaped is the child of exactly one entry, and an entry's handle never refers
\* to a child that was reaped already. Restart, update, delete, kill_all and the
\* health check all replace or drop handles.
ChildOwned ==
  /\ \A n \in Managed : processes[n].child # None => os[processes[n].child] \in Held
  /\ \A m, n \in Managed :
       processes[m].child = processes[n].child /\ processes[m].child # None => m = n
  /\ \A p \in Pids : os[p] \in Held => \E n \in Managed : processes[n].child = p

\* What ls reports is what runs. Only a static site is Running without a child;
\* a Stopped entry has none; an entry is Errored only while the health check
\* that saw the crash is about to restart it; the entry being started is Stopped.
StatusMatchesChild ==
  \A n \in Managed :
    LET e == processes[n] IN
      /\ e.status = "Running" /\ e.child = None => e.config.spa
      /\ e.status = "Stopped" => e.child = None
      /\ e.status = "Errored" <=> n \in to_restart
      /\ e.status = "Errored" => e.child # None /\ os[e.child] = "crash"
      /\ n = starting => e.status = "Stopped"

\* The exported gauge is the size of the table, through failed starts, restarts
\* and the bulk kill.
GaugeMatchesTable == managed_processes = Cardinality(Managed)

\* An entry's restart count grows by one exactly when it gets a new child, and
\* never otherwise: not for a restart that failed, and it is not reset by one
\* that succeeded.
RestartsCounted ==
  [][\A n \in Managed \cap Managed' :
       LET e == processes[n]  f == processes'[n] IN
         IF f.child \notin {None, e.child}
         THEN f.restart_count = e.restart_count + 1
         ELSE f.restart_count = e.restart_count]_vars

\* No pull of an image lasts for ever. Nothing in the code sees to that: the requests
\* to the registry have no timeout.
RegistryAnswers == []<>~Pulling

\* Every child that exits is reaped, whatever requests come in between, unless a
\* registry that does not answer holds the mutex.
ExitedReaped ==
  RegistryAnswers =>
    \A p \in Pids : (os[p] \in {"ok", "crash"}) ~> (os[p] \notin {"ok", "crash"})

\* Only a registry can keep the mutex from being given back: no sequence of crashes,
\* failed starts and restarts does, however the health check and the requests compete.
MutexReleased == RegistryAnswers => []<>LockFree

\* A restart starts the application: no child ever runs a truncated program.
ProgramIntact == \A p \in Pids : os[p] # "empty"
====
