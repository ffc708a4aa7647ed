---- MODULE Daemon ----
(***************************************************************************)
(* The daemon (server.rs, daemon.rs, state.rs): the requests of the CLI    *)
(* over the process manager and the proxy, the saved process list, and the *)
(* life of the daemon process itself: restoring the list when it starts,   *)
(* serving, the 100 ms between a kill request and exit(0), and crashes.    *)
(*                                                                         *)
(* A request takes the daemon's mutex and is one step, except that a       *)
(* restart finishes in a step of its own, and that the pull of an image is *)
(* a step before its application is started (see ProcessManager). A        *)
(* request that is refused before it changes anything is no step at all.   *)
(***************************************************************************)
EXTENDS ProcessConfig, Integers, FiniteSets

CONSTANTS
  Ports, Hosts,     \* public ports and host names
  AppPorts,         \* local ports applications listen on
  AutoPort,         \* the private port auto-remap finds with bind(127.0.0.1:0)
  Site,             \* the backend of a static site
  BadCerts,         \* certificate files that cannot be read or parsed
  Spawning,         \* a new application's image is being pulled
  Pids, Configs, Updates, MaxRestarts, ServersMayFail, MaxBooting, MaxCaches,
  SavedLists,       \* the lists an earlier daemon may have left in the store
  MaxLives,         \* bound on the number of times the daemon is started
  DaemonMayCrash    \* may the daemon end other than by exit(0)?

ASSUME DaemonAssumption ==
  /\ Spawning \notin Names \cup {None}
  /\ None \notin Mappings \cup Certs \cup Hosts \cup Ports \cup Pids
  /\ None \notin [name : Names, port : Ports, host : Hosts \cup {None},
                 backend : Ports \cup AppPorts \cup {AutoPort, Site}]
  /\ AutoPort \notin Ports \cup {None} /\ Site \notin Ports
  /\ Mappings \subseteq [port : Ports, host : Hosts \cup {None},
                         app : Ports \cup AppPorts \cup {None, AutoPort}]
  /\ \A m \in Mappings : [m EXCEPT !.app = AutoPort] \in Mappings
  /\ BadCerts \subseteq Certs
  /\ Configs \subseteq ConfigType /\ Updates \subseteq UpdateType
  /\ \A list \in SavedLists : list \subseteq ConfigType
  /\ IsFiniteSet(Names)
  /\ ServersMayFail \in BOOLEAN /\ DaemonMayCrash \in BOOLEAN
  /\ MaxRestarts \in Nat /\ MaxBooting \in Nat /\ MaxCaches \in Nat /\ MaxLives \in Nat

VARIABLES
  \* the process manager
  processes, managed_processes, os, app_file, to_restart, starting,
  \* the proxy manager
  routes, ports, tls_ports, dead_ports, cache, certs, booting, listeners, rejected,
  failed, late_tls,
  \* the daemon
  phase,            \* "down", "restoring", "up" or "exiting"
  restore_queue,    \* saved configurations still to be started
  saved,            \* the configurations in the state store
  acme_configs,     \* hosts registered for certificate issue and renewal
  restored,         \* applications started from the saved list
  lives             \* how often the daemon was started

procVars  == <<processes, managed_processes, os, app_file, to_restart, starting>>
proxyVars == <<routes, ports, tls_ports, dead_ports, cache, certs, booting, listeners, rejected,
               failed, late_tls>>
lifeVars  == <<phase, restore_queue, saved, lives>>
vars == <<procVars, proxyVars, lifeVars, acme_configs, restored>>

\* Saved configurations are not the ones users submit: the process manager is
\* used with any configuration and any update.
PM == INSTANCE ProcessManager WITH Configs <- ConfigType, Updates <- UpdateType
PX == INSTANCE ProxyManager WITH Backends <- Ports \cup AppPorts \cup {AutoPort, Site}

Managed == PM!Managed

\* The mutex is free, and the socket is served: it is until exit(0).
Serving == phase \in {"up", "exiting"} /\ PM!LockFree

TypeOK ==
  /\ PM!TypeOK
  /\ PX!TypeOK
  /\ phase \in {"down", "restoring", "up", "exiting"}
  /\ restore_queue \subseteq ConfigType
  /\ saved \subseteq ConfigType
  /\ acme_configs \subseteq Hosts
  /\ restored \subseteq Managed
  /\ lives \in 0..MaxLives

Init ==
  /\ PM!Init
  /\ PX!Init
  /\ phase = "down"
  /\ restore_queue = {}
  /\ saved \in SavedLists
  /\ acme_configs = {}
  /\ restored = {}
  /\ lives = 0

-----------------------------------------------------------------------------
\* Wrong: only a missing application port is replaced.
Remapped_missing_only(c) ==
  IF c.mapping.app = None THEN [c EXCEPT !.mapping.app = AutoPort] ELSE c

\* handle_run: a port mapping without an application port, or with the public
\* one, gets a private port.
Remapped(c) ==
  IF c.mapping.app \in {None, c.mapping.port}
  THEN [c EXCEPT !.mapping.app = AutoPort]
  ELSE c

\* The checks of handle_run that come before anything is changed.
RunAccepted(c) ==
  /\ c.mapping # None
  /\ c.acme # None => c.mapping.host # None

\* The routes of handle_run, for a process and for a static site.
AddRunRoute(c) ==
  PX!add_route_with_tls(c.name, c.mapping.port, c.mapping.host,
                        IF c.spa THEN Site ELSE c.mapping.app, c.ssl)

\* spawn_acme_issue registers the host; the task that gets the certificate is in Acme.
RegisterAcme(c) ==
  acme_configs' = IF c.acme = None THEN acme_configs
                  ELSE acme_configs \cup {c.mapping.host}

\* Run or Bin of an image, as long as it waits for the registry.
Pull(c) ==
  /\ Serving
  /\ ~c.spa
  /\ c.mapping = None \/ RunAccepted(c)
  /\ PM!BeginPull(c)
  /\ UNCHANGED <<proxyVars, lifeVars, acme_configs, restored>>

\* A process with a proxy: the process is spawned first, then its route is added.
RunProcess(c, p) ==
  /\ Serving
  /\ ~c.spa /\ RunAccepted(c)
  /\ c.ssl \notin BadCerts
  /\ PM!spawn_process(Remapped(c), p)
  /\ AddRunRoute(Remapped(c))
  /\ RegisterAcme(c)
  /\ UNCHANGED <<lifeVars, restored>>

\* The process was spawned but its certificate is bad: the process is deleted
\* again, and the route that add_route_with_tls had already made stays.
RunRolledBack(c) ==
  /\ Serving
  /\ ~c.spa /\ RunAccepted(c)
  /\ c.ssl \in BadCerts
  /\ Executable(c, app_file[c.name])
  /\ PM!FailSpawn(Remapped(c))
  /\ AddRunRoute(Remapped(c))
  /\ UNCHANGED <<lifeVars, acme_configs, restored>>

RunFailed(c) ==
  /\ Serving
  /\ ~c.spa /\ RunAccepted(c)
  /\ PM!FailSpawn(Remapped(c))
  /\ UNCHANGED <<proxyVars, lifeVars, acme_configs, restored>>

\* A static site: the route is added first. If the name is taken the request
\* fails afterwards, with the route in place.
RunSite(c) ==
  /\ Serving
  /\ c.spa /\ RunAccepted(c)
  /\ AddRunRoute(Remapped(c))
  /\ IF c.ssl \in BadCerts \/ c.name \in Managed
     THEN UNCHANGED <<procVars, acme_configs>>
     ELSE PM!register_spa(Remapped(c)) /\ RegisterAcme(c)
  /\ UNCHANGED <<lifeVars, restored>>

\* A process without a proxy.
Bin(c, p) ==
  /\ Serving
  /\ c.mapping = None
  /\ PM!spawn_process(c, p)
  /\ UNCHANGED <<proxyVars, lifeVars, acme_configs, restored>>

BinFailed(c) ==
  /\ Serving
  /\ c.mapping = None
  /\ PM!FailSpawn(c)
  /\ UNCHANGED <<proxyVars, lifeVars, acme_configs, restored>>

\* Wrong: the routes of the application stay.
Del_keeps_routes(n) ==
  /\ Serving
  /\ PM!delete(n)
  /\ restored' = restored \ {n}
  /\ UNCHANGED <<proxyVars, lifeVars, acme_configs>>

Del(n) ==
  /\ Serving
  /\ PX!remove_routes(n)
  /\ PM!delete(n) \/ (n \notin Managed /\ UNCHANGED procVars)
  /\ restored' = restored \ {n}
  /\ UNCHANGED <<lifeVars, acme_configs>>

\* Restart and Reload.
Restart(n) ==
  /\ Serving
  /\ PM!BeginRestart(n)
  /\ UNCHANGED <<proxyVars, lifeVars, acme_configs, restored>>

\* Wrong: the mapping is changed, the route is not.
Update_keeps_route(n, u) ==
  /\ Serving
  /\ PM!update(n, u)
  /\ restored' = IF u.mapping = None THEN restored ELSE restored \ {n}
  /\ UNCHANGED <<proxyVars, lifeVars, acme_configs>>

\* handle_update under the mutex. A new mapping moves the route; it is not
\* remapped: without an application port the public port is the backend. A new
\* certificate or contact address is only written to the configuration.
Update(n, u) ==
  /\ Serving
  /\ PM!update(n, u)
  /\ IF u.mapping = None
     THEN UNCHANGED <<proxyVars, restored>>
     ELSE /\ PX!move_route(n, u.mapping.port, u.mapping.host,
                IF processes[n].config.spa THEN Site
                ELSE IF u.mapping.app = None THEN u.mapping.port ELSE u.mapping.app)
          /\ restored' = restored \ {n}
  /\ UNCHANGED <<lifeVars, acme_configs>>

\* Set with cache-ttl.
SetCacheTtl ==
  /\ Serving
  /\ PX!set_cache_ttl
  /\ UNCHANGED <<procVars, lifeVars, acme_configs, restored>>

\* Save replaces the list in the store, key by key: old keys are deleted, then
\* the current configurations are written. An error stops it where it is. Once
\* the store is closed nothing is written.
Save ==
  /\ Serving /\ phase = "up"
  /\ LET configs == {processes[n].config : n \in Managed} IN
       saved' \in {configs} \cup (SUBSET saved) \cup (SUBSET configs)
  /\ UNCHANGED <<procVars, proxyVars, phase, restore_queue, lives, acme_configs, restored>>

\* Wrong: the list is emptied and the daemon leaves; the children are not killed.
Kill_keeps_children ==
  /\ Serving
  /\ saved' \in IF phase = "up" THEN SUBSET saved ELSE {saved}
  /\ phase' = "exiting"
  /\ restored' = {}
  /\ UNCHANGED <<procVars, proxyVars, restore_queue, lives, acme_configs>>

\* Kill: every child is killed, the list is emptied (its error is ignored), the
\* mutex is released, and exit(0) is scheduled. Routes are left alone.
Kill ==
  /\ Serving
  /\ PM!kill_all
  /\ saved' \in IF phase = "up" THEN SUBSET saved ELSE {saved}
  /\ phase' = "exiting"
  /\ restored' = {}
  /\ UNCHANGED <<proxyVars, restore_queue, lives, acme_configs>>

-----------------------------------------------------------------------------
\* Everything else the process manager and the proxy do while the daemon lives.
Background ==
  \/ /\ phase \in {"up", "exiting"}
     /\ PM!Start \/ PM!Tick
     /\ UNCHANGED <<proxyVars, lifeVars, acme_configs, restored>>
  \/ /\ PX!Boot
     /\ UNCHANGED <<procVars, lifeVars, acme_configs, restored>>
  \/ /\ \E p \in Pids : PM!OrphanExit(p) \/ \E code \in {"ok", "crash"} : PM!Exit(p, code)
     /\ UNCHANGED <<proxyVars, lifeVars, acme_configs, restored>>

-----------------------------------------------------------------------------
\* run_daemon: the saved list is loaded and started, one application after the
\* other, before the socket is bound. Only processes are restored: no routes.
Boot ==
  /\ phase = "down"
  /\ lives < MaxLives
  /\ phase' = "restoring"
  /\ restore_queue' = saved
  /\ lives' = lives + 1
  /\ UNCHANGED <<procVars, proxyVars, saved, acme_configs, restored>>

Restore(c, p) ==
  /\ phase = "restoring"
  /\ c \in restore_queue
  /\ PM!spawn_process(c, p)
  /\ restored' = restored \cup {c.name}
  /\ restore_queue' = restore_queue \ {c}
  /\ UNCHANGED <<proxyVars, phase, saved, lives, acme_configs>>

\* A saved application that does not start is skipped; it may fail before
\* anything is changed or after its program was copied.
RestoreFailed(c) ==
  /\ phase = "restoring"
  /\ c \in restore_queue
  /\ PM!FailSpawn(c) \/ UNCHANGED procVars
  /\ restore_queue' = restore_queue \ {c}
  /\ UNCHANGED <<proxyVars, phase, saved, lives, acme_configs, restored>>

\* run_server binds the socket.
Serve ==
  /\ phase = "restoring"
  /\ restore_queue = {}
  /\ phase' = "up"
  /\ UNCHANGED <<procVars, proxyVars, restore_queue, saved, lives, acme_configs, restored>>

\* exit(0), 100 ms after a kill, whoever holds the mutex; or a crash at any time.
End ==
  /\ phase = "exiting" \/ (DaemonMayCrash /\ phase # "down")
  /\ PM!Vanish
  /\ PX!Shutdown
  /\ phase' = "down"
  /\ restore_queue' = {}
  /\ acme_configs' = {}
  /\ restored' = {}
  /\ UNCHANGED <<saved, lives>>

Next ==
  \/ \E c \in Configs, p \in Pids : RunProcess(c, p) \/ Bin(c, p)
  \/ \E c \in Configs : Pull(c)
  \/ \E c \in Configs : RunRolledBack(c) \/ RunFailed(c) \/ RunSite(c) \/ BinFailed(c)
  \/ \E n \in Names : Del(n) \/ Restart(n)
  \/ \E n \in Names, u \in Updates : Update(n, u)
  \/ SetCacheTtl
  \/ Save
  \/ Kill
  \/ Background
  \/ Boot
  \/ \E c \in restore_queue : RestoreFailed(c) \/ \E p \in Pids : Restore(c, p)
  \/ Serve
  \/ End

Spec == Init /\ [][Next]_vars

-----------------------------------------------------------------------------
(* Properties. *)

RoutesOf(n) == {i \in DOMAIN routes : routes[i].name = n}

\* No request leaves a route behind: while the daemon is up, whoever has a route
\* is managed, except an application whose last route was refused for its
\* certificate.
RoutesOwned ==
  phase = "up" => \A i \in DOMAIN routes : routes[i].name \in Managed \cup rejected

\* The proxy and the process table agree: a managed process with a port mapping
\* that was not started from the saved list has a route for exactly that mapping,
\* on a live port, through updates, restarts and crashes. Only a static site that
\* is asked for under its name can take its route away: the request is refused, and
\* the route of the site stays.
RouteMatchesConfig ==
  \A n \in Managed \ (restored \cup rejected) :
    LET m == processes[n].config.mapping IN
      m # None /\ ~processes[n].config.spa =>
        \E i \in RoutesOf(n) :
          \/ /\ routes[i].port = m.port
             /\ routes[i].host = m.host
             /\ routes[i].backend = IF m.app = None THEN m.port ELSE m.app
             /\ m.port \in ports \ dead_ports
          \/ routes[i].backend = Site

\* The applications whose route leads back to its own public port.
SelfProxied == {routes[i].name : i \in {j \in DOMAIN routes : routes[j].backend = routes[j].port}}

\* "Auto-remap": run never gives an application the public port of its own route to
\* listen on, or the proxy would forward to itself. Only an update of an application
\* that is managed already does so, one that leaves the application's port out or says
\* it is the public one.
NoSelfProxy ==
  [][\A n \in SelfProxied' \ SelfProxied :
       /\ n \in Managed /\ n \in Managed'
       /\ processes'[n].config.mapping.app \in {None, processes'[n].config.mapping.port}]_vars

\* "Stop daemon and all managed processes": when a kill gives the mutex back no
\* child is alive, whatever was being restarted, except those a crashed daemon left
\* behind. (A request served in the 100 ms before exit(0) may start another one.)
KillStopsAll ==
  [][phase # "exiting" /\ phase' = "exiting" =>
       \A p \in Pids : os'[p] \in {"free", "orphan"}]_vars
====
