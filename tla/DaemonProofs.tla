---- MODULE DaemonProofs ----
(***************************************************************************)
(* Proofs about Daemon, for every set of applications, configurations,     *)
(* updates and saved lists: the daemon is a process manager and a proxy    *)
(* manager, whose theorems carry over, and its requests keep the routes    *)
(* of the one and the processes of the other together.                     *)
(***************************************************************************)
EXTENDS Daemon, TLAPS

M == INSTANCE ProcessManagerProofs WITH Configs <- ConfigType, Updates <- UpdateType
P == INSTANCE ProxyManagerProofs WITH Backends <- Ports \cup AppPorts \cup {AutoPort, Site}

-----------------------------------------------------------------------------
\* A component and the instance of it that its proofs are about are the same.
LEMMA SameConfigs ==
  /\ M!ConfigType = ConfigType /\ PM!ConfigType = ConfigType
  /\ M!UpdateType = UpdateType /\ PM!UpdateType = UpdateType
BY Zenon DEF M!ConfigType, PM!ConfigType, ConfigType, M!UpdateType, PM!UpdateType, UpdateType,
   M!ArgKinds, PM!ArgKinds, ArgKinds, M!Paths, PM!Paths, Paths, M!Restrictions, PM!Restrictions,
   Restrictions, M!Grants, PM!Grants, Grants

\* The process manager: its steps in the daemon are those its proofs are about.
LEMMA SameManager ==
  /\ PM!Init => M!Init
  /\ PM!Next => M!Next
<1>1. PM!Init => M!Init
  BY Zenon DEF PM!Init, M!Init
<1>2. PM!Next => M!Next
  BY Zenon DEF PM!Next, M!Next, PM!Request, M!Request, PM!spawn_process, M!spawn_process,
     PM!FailSpawn, M!FailSpawn, PM!register_spa, M!register_spa, PM!delete, M!delete,
     PM!BeginRestart, M!BeginRestart, PM!update, M!update, PM!kill_all, M!kill_all,
     PM!BeginPull, M!BeginPull, PM!EndPull, M!EndPull, PM!Start, M!Start, PM!FinishRestart, M!FinishRestart, PM!FailRestart, M!FailRestart,
     PM!Tick, M!Tick, PM!TickScan, M!TickScan, PM!TickRestart, M!TickRestart,
     PM!Environment, M!Environment, PM!Exit, M!Exit, PM!OrphanExit, M!OrphanExit,
     PM!Vanish, M!Vanish, PM!LockFree, M!LockFree, PM!Managed, M!Managed, PM!Put, M!Put,
     PM!Without, M!Without, PM!Started, M!Started, PM!SpaEntry, M!SpaEntry,
     PM!kill_child, M!kill_child, PM!Reap, M!Reap, PM!ExitedAs, M!ExitedAs,
     PM!Alive, M!Alive, PM!Held, M!Held, PM!CopiesBinary, M!CopiesBinary,
     PM!CopiedFile, M!CopiedFile, PM!SandboxedImage, M!SandboxedImage,
     PM!StartConfig, M!StartConfig, PM!Executable, M!Executable, PM!ProgramRun, M!ProgramRun,
     PM!UpdateConfig, M!UpdateConfig
<1> QED BY <1>1, <1>2

\* The proxy manager likewise.
LEMMA SameProxy ==
  /\ PX!Init => P!Init
  /\ PX!Next => P!Next
  /\ PX!TypeOK <=> P!TypeOK
  /\ \A rs, n : PX!OtherRoutes(rs, n) = P!OtherRoutes(rs, n)
<1>1. PX!Init => P!Init
  BY Zenon DEF PX!Init, P!Init
<1>2. PX!Next => P!Next
  BY Zenon DEF PX!Next, P!Next, PX!Control, P!Control,
     PX!add_route_with_tls, P!add_route_with_tls, PX!AddRoute, P!AddRoute,
     PX!remove_routes, P!remove_routes, PX!move_route, P!move_route,
     PX!set_cache_ttl, P!set_cache_ttl, PX!Boot, P!Boot,
     PX!start_pingora_server, P!start_pingora_server, PX!FailServer, P!FailServer,
     PX!Shutdown, P!Shutdown, PX!Sockets, P!Sockets, PX!controlVars, P!controlVars,
     PX!Orphaned, P!Orphaned, PX!PortsOf, P!PortsOf, PX!PortsOfApp, P!PortsOfApp,
     PX!OtherRoutes, P!OtherRoutes, PX!Cardinality, P!Cardinality
<1>3. PX!TypeOK <=> P!TypeOK
  BY DEF PX!TypeOK, P!TypeOK, PX!RouteType, P!RouteType, PX!ServerType, P!ServerType,
     PX!ListenerType, P!ListenerType
<1>4. \A rs, n : PX!OtherRoutes(rs, n) = P!OtherRoutes(rs, n)
  BY Zenon DEF PX!OtherRoutes, P!OtherRoutes
<1> QED BY <1>1, <1>2, <1>3, <1>4

\* What the components assume of their constants.
LEMMA ManagerConstants ==
  /\ None \notin Names /\ ImageArgs \in Seq(M!ArgKinds)
  /\ M!IsFiniteSet(Names)
  /\ ConfigType \subseteq M!ConfigType /\ UpdateType \subseteq M!UpdateType
  /\ None \notin Pids /\ Spawning \notin Names \cup {None} /\ MaxRestarts \in Nat
<1>1. ImageArgs \in Seq(M!ArgKinds)
  BY ConfigAssumption DEF M!ArgKinds, ArgKinds
<1>2. M!IsFiniteSet(Names)
  BY DaemonAssumption DEF M!IsFiniteSet, IsFiniteSet
<1> QED BY <1>1, <1>2, SameConfigs, ConfigAssumption, DaemonAssumption

\* Those of the proxy manager.
LEMMA ProxyConstants ==
  /\ BadCerts \subseteq Certs /\ None \notin Certs /\ None \notin Hosts /\ None \notin Names
  /\ None \notin [name : Names, port : Ports, host : Hosts \cup {None},
                  backend : Ports \cup AppPorts \cup {AutoPort, Site}]
  /\ ServersMayFail \in BOOLEAN /\ MaxBooting \in Nat /\ MaxCaches \in Nat
  BY DaemonAssumption, ConfigAssumption

\* The invariants of the components are kept by their steps.
LEMMA ManagerStep ==
  ASSUME M!Inv, PM!Next \/ UNCHANGED procVars
  PROVE  M!Inv'
<1>1. M!Next \/ UNCHANGED M!vars
  BY SameManager DEF procVars, M!vars
<1> QED BY <1>1, M!NextInv, ManagerConstants

\* The types of the proxy.
LEMMA ProxyStep ==
  ASSUME P!TypeOK, PX!Next \/ UNCHANGED proxyVars
  PROVE  P!TypeOK'
<1>1. P!Next \/ UNCHANGED P!vars
  BY SameProxy DEF proxyVars, P!vars, P!controlVars
<1> QED BY <1>1, P!NextTyped, ProxyConstants

-----------------------------------------------------------------------------
\* The mapping of a configuration is a port, a host and a port behind it.
LEMMA MappingIs ==
  ASSUME NEW m \in Mappings
  PROVE  /\ m # None /\ m.port \in Ports /\ m.host \in Hosts \cup {None}
         /\ m.app \in Ports \cup AppPorts \cup {None, AutoPort}
BY DaemonAssumption

\* What handle_run makes of a configuration with a mapping: its application listens on
\* a port that is known and is not the public one.
LEMMA RemappedIs ==
  ASSUME NEW c \in ConfigType, c.mapping # None
  PROVE  /\ Remapped(c) \in ConfigType
         /\ Remapped(c).name = c.name /\ Remapped(c).spa = c.spa /\ Remapped(c).ssl = c.ssl
         /\ Remapped(c).mapping \in Mappings
         /\ Remapped(c).mapping.app \notin {None, Remapped(c).mapping.port}
<1>1. c.mapping \in Mappings
  BY DEF ConfigType
<1>2. /\ c.mapping \in [port : Ports, host : Hosts \cup {None},
                        app : Ports \cup AppPorts \cup {None, AutoPort}]
      /\ [c.mapping EXCEPT !.app = AutoPort] \in Mappings
  BY <1>1, DaemonAssumption
<1>3. CASE c.mapping.app \in {None, c.mapping.port}
  <2>1. PICK m : m = [c.mapping EXCEPT !.app = AutoPort]
    OBVIOUS
  <2>2. m \in Mappings /\ m.app = AutoPort /\ m.port = c.mapping.port
    BY <1>2, <2>1
  <2>3. Remapped(c) = [c EXCEPT !.mapping = m]
    BY <1>3, <2>1 DEF Remapped
  <2>4. Remapped(c) \in ConfigType
    BY <2>2, <2>3 DEF ConfigType
  <2>5. /\ Remapped(c).name = c.name /\ Remapped(c).spa = c.spa /\ Remapped(c).ssl = c.ssl
        /\ Remapped(c).mapping = m
    BY <2>3 DEF ConfigType
  <2>6. AutoPort \notin {None, c.mapping.port}
    BY <1>2, DaemonAssumption
  <2> QED BY <2>2, <2>4, <2>5, <2>6
<1>4. CASE c.mapping.app \notin {None, c.mapping.port}
  BY <1>1, <1>4 DEF Remapped
<1> QED BY <1>3, <1>4

-----------------------------------------------------------------------------
\* The routes of the table, whatever their order.
Table(rs) == {rs[i] : i \in DOMAIN rs}

\* A call that replaces the routes of x by new ones: the others keep theirs, a live
\* port of theirs stays live, and only the route of x may be refused or accepted again.
Rerouted(x, new) ==
  /\ Table(routes') = {r \in Table(routes) : r.name # x} \cup new
  /\ \A r \in Table(routes) :
       r.name # x /\ r.port \in ports \ dead_ports => r.port \in ports' \ dead_ports'
  /\ rejected' \ {x} = rejected \ {x}

\* What retain leaves, as a set.
LEMMA TableOfOthers ==
  ASSUME NEW T, NEW rs \in Seq(T), NEW x
  PROVE  /\ PX!OtherRoutes(rs, x) \in Seq(T)
         /\ Table(PX!OtherRoutes(rs, x)) = {r \in Table(rs) : r.name # x}
<1>1. PICK o : o = PX!OtherRoutes(rs, x)
  OBVIOUS
<1>2. o = P!OtherRoutes(rs, x)
  BY <1>1, SameProxy
<1>3. o \in Seq(T)
  BY <1>2, P!OthersKept, ProxyConstants
<1>4. /\ \A i \in DOMAIN o : \E j \in DOMAIN rs : o[i] = rs[j] /\ rs[j].name # x
      /\ \A j \in DOMAIN rs : rs[j].name # x => \E i \in DOMAIN o : o[i] = rs[j]
  BY <1>2, P!OthersAre, ProxyConstants
<1>5. Table(o) = {r \in Table(rs) : r.name # x}
  BY <1>4 DEF Table
<1> QED BY <1>1, <1>3, <1>5

\* A port that loses its last route has no route of another application.
LEMMA OrphanedIs ==
  ASSUME P!TypeOK, NEW x
  PROVE  \A r \in Table(routes) : r.name # x => r.port \notin PX!Orphaned(routes, x)
<1>1. routes \in Seq(P!RouteType)
  BY DEF P!TypeOK
<1>2. PICK o : o = PX!OtherRoutes(routes, x)
  OBVIOUS
<1>3. Table(o) = {r \in Table(routes) : r.name # x}
  BY <1>1, <1>2, TableOfOthers
<1>4. \A r \in Table(o) : r.port \in PX!PortsOf(o)
  BY DEF Table, PX!PortsOf
<1> QED BY <1>2, <1>3, <1>4 DEF PX!Orphaned

\* remove_routes takes the routes of one application away.
LEMMA RemoveReroutes ==
  ASSUME P!TypeOK, NEW x, PX!remove_routes(x)
  PROVE  Rerouted(x, {}) /\ x \notin rejected'
<1>1. Table(routes') = {r \in Table(routes) : r.name # x}
  BY TableOfOthers DEF P!TypeOK, PX!remove_routes
<1>2. \A r \in Table(routes) : r.name # x => r.port \notin PX!Orphaned(routes, x)
  BY OrphanedIs
<1>3. rejected' = rejected \ {x} /\ ports' = ports \ PX!Orphaned(routes, x)
      /\ dead_ports' = dead_ports \cup PX!Orphaned(routes, x)
  BY DEF PX!remove_routes
<1> QED BY <1>1, <1>2, <1>3 DEF Rerouted

\* A table with one more route.
LEMMA TableOfAppend ==
  ASSUME NEW T, NEW o \in Seq(T), NEW r
  PROVE  Table(Append(o, r)) = Table(o) \cup {r}
<1>1. PICK a : a = Append(o, r)
  OBVIOUS
<1>2. /\ DOMAIN a = 1..Len(o) + 1 /\ a[Len(o) + 1] = r
      /\ \A i \in 1..Len(o) : a[i] = o[i]
  BY <1>1, P!AppendIs, ProxyConstants
<1>3. DOMAIN o = 1..Len(o) /\ Len(o) \in Nat
  OBVIOUS
<1>4. DOMAIN a = DOMAIN o \cup {Len(o) + 1} /\ Len(o) + 1 \notin DOMAIN o
  BY <1>2, <1>3
<1>5. Table(a) = Table(o) \cup {r}
  BY <1>2, <1>3, <1>4 DEF Table
<1> QED BY <1>1, <1>5

\* add_route_with_tls replaces the routes of one application by one route. It is
\* refused exactly for a bad certificate; otherwise its port is live.
LEMMA AddReroutes ==
  ASSUME P!TypeOK, NEW x, NEW port, NEW host, NEW backend, NEW ssl, NEW live, NEW dead,
         \A r \in Table(routes) :
           r.name # x /\ r.port \in ports \ dead_ports => r.port \in live \ dead,
         PX!AddRoute(x, port, host, backend, ssl, live, dead)
  PROVE  /\ Rerouted(x, {[name |-> x, port |-> port, host |-> host, backend |-> backend]})
         /\ ssl \in BadCerts => x \in rejected'
         /\ ssl \notin BadCerts => x \notin rejected' /\ port \in ports' \ dead_ports'
<1>1. PICK new : new = [name |-> x, port |-> port, host |-> host, backend |-> backend]
  OBVIOUS
<1>2. routes \in Seq(P!RouteType)
  BY DEF P!TypeOK
<1>3. PICK o : o = PX!OtherRoutes(routes, x)
  OBVIOUS
<1>4. o \in Seq(P!RouteType) /\ Table(o) = {r \in Table(routes) : r.name # x}
  BY <1>2, <1>3, TableOfOthers
<1>5. routes' = Append(o, new)
  BY <1>1, <1>3 DEF PX!AddRoute
<1>6. Table(routes') = Table(o) \cup {new}
  BY <1>4, <1>5, TableOfAppend
<1>7. CASE ssl \in BadCerts
  <2>1. ports' = live /\ dead_ports' = dead /\ rejected' = rejected \cup {x}
    BY <1>7 DEF PX!AddRoute
  <2> QED BY <1>1, <1>4, <1>6, <1>7, <2>1 DEF Rerouted
<1>8. CASE ssl \notin BadCerts
  <2>1. ports' = live \cup {port} /\ dead_ports' = dead \ {port} /\ rejected' = rejected \ {x}
    BY <1>8 DEF PX!AddRoute
  <2> QED BY <1>1, <1>4, <1>6, <1>8, <2>1 DEF Rerouted
<1> QED BY <1>7, <1>8

\* The route of handle_run.
LEMMA RunReroutes ==
  ASSUME P!TypeOK, NEW c, AddRunRoute(c)
  PROVE  /\ Rerouted(c.name, {[name |-> c.name, port |-> c.mapping.port, host |-> c.mapping.host,
                               backend |-> IF c.spa THEN Site ELSE c.mapping.app]})
         /\ c.ssl \in BadCerts => c.name \in rejected'
         /\ c.ssl \notin BadCerts =>
              c.name \notin rejected' /\ c.mapping.port \in ports' \ dead_ports'
<1>1. PX!AddRoute(c.name, c.mapping.port, c.mapping.host,
                  IF c.spa THEN Site ELSE c.mapping.app, c.ssl, ports, dead_ports)
  BY DEF AddRunRoute, PX!add_route_with_tls
<1>2. PICK live, dead : live = ports /\ dead = dead_ports
  OBVIOUS
<1>3. PICK x, port, host, backend, ssl :
        /\ x = c.name /\ port = c.mapping.port /\ host = c.mapping.host /\ ssl = c.ssl
        /\ backend = IF c.spa THEN Site ELSE c.mapping.app
  BY Zenon
<1>4. PX!AddRoute(x, port, host, backend, ssl, live, dead)
  BY <1>1, <1>2, <1>3, Zenon
<1>5. \A r \in Table(routes) :
        r.name # x /\ r.port \in ports \ dead_ports => r.port \in live \ dead
  BY <1>2, Zenon
<1>6. /\ Rerouted(x, {[name |-> x, port |-> port, host |-> host, backend |-> backend]})
      /\ ssl \in BadCerts => x \in rejected'
      /\ ssl \notin BadCerts => x \notin rejected' /\ port \in ports' \ dead_ports'
  BY <1>4, <1>5, AddReroutes
<1> QED BY <1>3, <1>6, Zenon

\* The route of handle_update: the ports only the old route was on are closed first.
LEMMA MoveReroutes ==
  ASSUME P!TypeOK, NEW x, NEW port, NEW host, NEW backend,
         PX!move_route(x, port, host, backend)
  PROVE  /\ Rerouted(x, {[name |-> x, port |-> port, host |-> host, backend |-> backend]})
         /\ x \notin rejected' /\ port \in ports' \ dead_ports'
<1>1. \A r \in Table(routes) : r.name # x => r.port \notin PX!Orphaned(routes, x)
  BY OrphanedIs
<1>2. None \notin BadCerts
  BY ProxyConstants
<1>3. PICK live, dead : /\ live = ports \ PX!Orphaned(routes, x)
                        /\ dead = dead_ports \cup PX!Orphaned(routes, x)
  OBVIOUS
<1>4. PX!AddRoute(x, port, host, backend, None, live, dead)
  BY <1>3 DEF PX!move_route
<1>5. \A r \in Table(routes) :
        r.name # x /\ r.port \in ports \ dead_ports => r.port \in live \ dead
  BY <1>1, <1>3
<1> QED BY <1>2, <1>4, <1>5, AddReroutes

\* A step that leaves the table and the ports alone reroutes nobody.
LEMMA NothingRerouted ==
  ASSUME P!TypeOK, UNCHANGED <<routes, ports, dead_ports, rejected>>
  PROVE  Rerouted(None, {})
<1>1. \A r \in P!RouteType : r.name \in Names
  BY DEF P!RouteType
<1>2. \A r \in Table(routes) : r \in P!RouteType
  BY DEF Table, P!TypeOK
<1>3. \A r \in Table(routes) : r.name # None
  BY <1>1, <1>2, ConfigAssumption
<1> QED BY <1>3 DEF Rerouted, Table

-----------------------------------------------------------------------------
\* What the proxy has to know of an application does not change when it is started.
LEMMA StartKeeps ==
  ASSUME NEW c \in ConfigType, NEW f
  PROVE  PM!StartConfig(c, f).mapping = c.mapping /\ PM!StartConfig(c, f).spa = c.spa
<1>1. PICK s : s = PM!SandboxedImage(c)
  OBVIOUS
<1>2. s \in ConfigType /\ s.mapping = c.mapping /\ s.spa = c.spa
  BY <1>1 DEF PM!SandboxedImage, ConfigType, Restrictions, Grants
<1>3. [s EXCEPT !.path = "entrypoint", !.args = ImageArgs \o @].mapping = s.mapping
      /\ [s EXCEPT !.path = "entrypoint", !.args = ImageArgs \o @].spa = s.spa
  BY <1>2 DEF ConfigType
<1> QED BY <1>1, <1>2, <1>3 DEF PM!StartConfig, ConfigType

\* An application that stays, with the same mapping, whatever became of its child.
Kept(n) ==
  /\ n \in Managed /\ n \in Managed'
  /\ processes'[n].config.mapping = processes[n].config.mapping
  /\ processes'[n].config.spa = processes[n].config.spa

\* An entry of the process table.
LEMMA EntryIs ==
  ASSUME M!Inv, NEW n \in Managed
  PROVE  /\ n \in Names /\ n # None
         /\ processes[n] \in PM!EntryType
         /\ processes[n].config \in ConfigType
<1>1. n \in M!Managed
  BY DEF Managed, PM!Managed, M!Managed
<1>2. n \in Names /\ processes[n] \in M!EntryType /\ processes[n].config \in M!ConfigType
  BY <1>1, M!EntryFacts, ManagerConstants DEF M!Inv
<1>3. M!EntryType = PM!EntryType
  BY SameConfigs DEF M!EntryType, PM!EntryType, M!Statuses, PM!Statuses
<1> QED BY <1>2, <1>3, SameConfigs, ConfigAssumption

\* spawn_process inserts the configuration it started.
LEMMA SpawnIs ==
  ASSUME M!Inv, NEW c \in ConfigType, NEW p, PM!spawn_process(c, p)
  PROVE  /\ c.name \notin Managed /\ Managed' = Managed \cup {c.name}
         /\ \A n \in Managed : Kept(n)
         /\ processes'[c.name].config.mapping = c.mapping
         /\ processes'[c.name].config.spa = c.spa
<1>1. PICK e : e = PM!Started(c, p, app_file[c.name], 0)
  OBVIOUS
<1>2. e.config.mapping = c.mapping /\ e.config.spa = c.spa
  BY <1>1, StartKeeps DEF PM!Started
<1>3. c.name \notin Managed
  BY DEF PM!spawn_process, Managed
<1>4. processes' = [x \in Managed \cup {c.name} |-> IF x = c.name THEN e ELSE processes[x]]
  BY <1>1 DEF PM!spawn_process, PM!Put, Managed, PM!Managed
<1>5. Managed' = Managed \cup {c.name} /\ processes'[c.name] = e
      /\ \A n \in Managed : processes'[n] = processes[n]
  BY <1>3, <1>4 DEF Managed, PM!Managed
<1> QED BY <1>2, <1>3, <1>5 DEF Kept

\* register_spa inserts the static site.
LEMMA RegisterIs ==
  ASSUME M!Inv, NEW c \in ConfigType, PM!register_spa(c)
  PROVE  /\ c.name \notin Managed /\ Managed' = Managed \cup {c.name}
         /\ \A n \in Managed : Kept(n)
         /\ processes'[c.name].config.spa
<1>1. PICK e : e = PM!SpaEntry(c)
  OBVIOUS
<1>2. e.config.spa
  BY <1>1 DEF PM!SpaEntry, PM!register_spa
<1>3. c.name \notin Managed
  BY DEF PM!register_spa, Managed
<1>4. processes' = [x \in Managed \cup {c.name} |-> IF x = c.name THEN e ELSE processes[x]]
  BY <1>1 DEF PM!register_spa, PM!Put, Managed, PM!Managed
<1>5. Managed' = Managed \cup {c.name} /\ processes'[c.name] = e
      /\ \A n \in Managed : processes'[n] = processes[n]
  BY <1>3, <1>4 DEF Managed, PM!Managed
<1> QED BY <1>2, <1>3, <1>5 DEF Kept

\* delete takes one entry away.
LEMMA DeleteIs ==
  ASSUME M!Inv, NEW x, PM!delete(x)
  PROVE  Managed' = Managed \ {x} /\ \A n \in Managed' : Kept(n)
<1>1. processes' = [n \in Managed \ {x} |-> processes[n]]
  BY DEF PM!delete, PM!Without, Managed, PM!Managed
<1>2. Managed' = Managed \ {x} /\ \A n \in Managed' : processes'[n] = processes[n]
  BY <1>1 DEF Managed, PM!Managed
<1> QED BY <1>2 DEF Kept

\* kill_all takes them all away.
LEMMA KillAllIs ==
  ASSUME PM!kill_all \/ PM!Vanish
  PROVE  Managed' = {}
BY DEF PM!kill_all, PM!Vanish, Managed, PM!Managed

\* One entry whose configuration keeps its mapping is replaced.
LEMMA ReplacedIs ==
  ASSUME M!Inv, NEW x \in Managed, NEW e,
         processes' = [processes EXCEPT ![x] = e],
         e.config.mapping = processes[x].config.mapping,
         e.config.spa = processes[x].config.spa
  PROVE  Managed' = Managed /\ \A n \in Managed : Kept(n)
<1>1. processes = [n \in Managed |-> processes[n]]
  BY DEF M!Inv, M!TypeOK, Managed, PM!Managed, M!Managed
<1>2. Managed' = Managed /\ \A n \in Managed : processes'[n] = IF n = x THEN e ELSE processes[n]
  BY <1>1 DEF Managed, PM!Managed
<1> QED BY <1>2 DEF Kept

\* Restarts, the health check and the exits of children change no mapping.
LEMMA RestartsKeep ==
  ASSUME M!Inv,
         \/ \E n \in Names : PM!BeginRestart(n)
         \/ PM!Start \/ PM!Tick
         \/ \E p \in Pids : PM!OrphanExit(p)
         \/ \E p \in Pids : \E code \in {"ok", "crash"} : PM!Exit(p, code)
  PROVE  Managed' = Managed /\ \A n \in Managed : Kept(n)
<1>1. ASSUME processes' = processes PROVE Managed' = Managed /\ \A n \in Managed : Kept(n)
  BY <1>1 DEF Managed, PM!Managed, Kept
<1>2. ASSUME NEW x \in Managed, processes' = [processes EXCEPT ![x] = PM!kill_child(@)]
      PROVE  Managed' = Managed /\ \A n \in Managed : Kept(n)
  <2>1. PICK e : e = PM!kill_child(processes[x])
    OBVIOUS
  <2>2. e.config = processes[x].config
    BY <2>1, EntryIs DEF PM!kill_child, PM!EntryType
  <2>3. processes' = [processes EXCEPT ![x] = e]
    BY <1>2, <2>1
  <2> QED BY <2>2, <2>3, ReplacedIs
<1>3. ASSUME NEW p \in Pids, PM!FinishRestart(p)
      PROVE  Managed' = Managed /\ \A n \in Managed : Kept(n)
  <2>1. starting \in Managed
    BY <1>3 DEF PM!FinishRestart, Managed
  <2>2. PICK c : c = processes[starting].config
    OBVIOUS
  <2>3. PICK e : e = PM!Started(c, p, app_file[starting], processes[starting].restart_count + 1)
    OBVIOUS
  <2>4. processes' = [processes EXCEPT ![starting] = e]
    BY <1>3, <2>2, <2>3 DEF PM!FinishRestart
  <2>5. c \in ConfigType
    BY <2>1, <2>2, EntryIs
  <2>6. e.config.mapping = c.mapping /\ e.config.spa = c.spa
    BY <2>3, <2>5, StartKeeps DEF PM!Started
  <2> QED BY <2>1, <2>2, <2>4, <2>6, ReplacedIs
<1>4. ASSUME PM!TickScan PROVE Managed' = Managed /\ \A n \in Managed : Kept(n)
  <2>1. PICK S, C : S = PM!ExitedAs("ok") /\ C = PM!ExitedAs("crash")
    OBVIOUS
  <2>2. processes' = [n \in Managed |->
                        IF n \in S THEN [processes[n] EXCEPT !.status = "Stopped", !.child = None]
                        ELSE IF n \in C THEN [processes[n] EXCEPT !.status = "Errored"]
                        ELSE processes[n]]
    BY <1>4, <2>1 DEF PM!TickScan, Managed
  <2>3. Managed' = Managed
    BY <2>2 DEF Managed, PM!Managed
  <2>4. \A n \in Managed : processes[n] \in PM!EntryType
    BY EntryIs
  <2>5. \A n \in Managed : processes'[n].config = processes[n].config
    BY <2>2, <2>4 DEF PM!EntryType
  <2> QED BY <2>3, <2>5 DEF Kept
<1>5. ASSUME NEW n \in Names, PM!BeginRestart(n) \/ PM!TickRestart(n)
      PROVE  n \in Managed /\ processes' = [processes EXCEPT ![n] = PM!kill_child(@)]
  <2>1. to_restart \subseteq Managed
    BY DEF M!Inv, M!TypeOK, Managed, PM!Managed, M!Managed
  <2> QED BY <1>5, <2>1 DEF PM!BeginRestart, PM!TickRestart, Managed
<1> QED BY <1>1, <1>2, <1>3, <1>4, <1>5
        DEF PM!Start, PM!EndPull, PM!Tick, PM!FailRestart, PM!OrphanExit, PM!Exit

\* update changes the mapping of one entry, if it brings one.
LEMMA UpdateIs ==
  ASSUME M!Inv, NEW x \in Names, NEW u \in UpdateType, PM!update(x, u)
  PROVE  /\ x \in Managed /\ Managed' = Managed
         /\ \A n \in Managed \ {x} : Kept(n)
         /\ processes'[x].config.spa = processes[x].config.spa
         /\ processes'[x].config.mapping =
              IF u.mapping = None THEN processes[x].config.mapping ELSE u.mapping
<1>1. x \in Managed
  BY DEF PM!update, Managed
<1>2. processes[x] \in PM!EntryType /\ processes[x].config \in ConfigType
  BY <1>1, EntryIs
<1>3. PICK c : c = PM!UpdateConfig(processes[x].config, u)
  OBVIOUS
<1>4. /\ c.spa = processes[x].config.spa
      /\ c.mapping = IF u.mapping = None THEN processes[x].config.mapping ELSE u.mapping
  BY <1>2, <1>3 DEF PM!UpdateConfig, ConfigType
<1>5. PICK e : e = [processes[x] EXCEPT !.config = c]
  OBVIOUS
<1>6. e.config = c /\ PM!kill_child(e).config = c
  BY <1>2, <1>5 DEF PM!kill_child, PM!EntryType
<1>7. \E f \in {e, PM!kill_child(e)} : processes' = [processes EXCEPT ![x] = f]
  BY <1>3, <1>5 DEF PM!update
<1>8. PICK f : f.config = c /\ processes' = [processes EXCEPT ![x] = f]
  BY <1>6, <1>7
<1>9. processes = [n \in Managed |-> processes[n]]
  BY DEF M!Inv, M!TypeOK, Managed, PM!Managed, M!Managed
<1>10. Managed' = Managed /\ \A n \in Managed : processes'[n] = IF n = x THEN f ELSE processes[n]
  BY <1>8, <1>9 DEF Managed, PM!Managed
<1> QED BY <1>1, <1>4, <1>8, <1>10 DEF Kept

-----------------------------------------------------------------------------
\* The daemon's own state is typed.
Typed ==
  /\ phase \in {"down", "restoring", "up", "exiting"}
  /\ restore_queue \subseteq ConfigType
  /\ saved \subseteq ConfigType
  /\ acme_configs \subseteq Hosts
  /\ restored \subseteq Managed
  /\ lives \in 0..MaxLives

\* The proxy is empty until the socket is bound: what was restored has no routes.
NoRoutesBefore == phase \in {"down", "restoring"} => routes = <<>>

\* The inductive invariant of the daemon.
Inv ==
  /\ M!Inv
  /\ P!TypeOK
  /\ Typed
  /\ NoRoutesBefore
  /\ RoutesOwned
  /\ RouteMatchesConfig

\* The route of one application is the one its mapping asks for, or that of a site.
Routed(n) ==
  LET m == processes[n].config.mapping IN
    m # None /\ ~processes[n].config.spa =>
      \E r \in Table(routes) :
        /\ r.name = n
        /\ \/ /\ r.port = m.port
              /\ r.host = m.host
              /\ r.backend = IF m.app = None THEN m.port ELSE m.app
              /\ m.port \in ports \ dead_ports
           \/ r.backend = Site

\* The invariants of the run, in terms of the table as a set.
LEMMA AsTables ==
  /\ RouteMatchesConfig <=> \A n \in Managed \ (restored \cup rejected) : Routed(n)
  /\ RoutesOwned <=> (phase = "up" => \A r \in Table(routes) : r.name \in Managed \cup rejected)
  /\ SelfProxied = {r.name : r \in {t \in Table(routes) : t.backend = t.port}}
<1>1. RouteMatchesConfig <=> \A n \in Managed \ (restored \cup rejected) : Routed(n)
  BY DEF RouteMatchesConfig, RoutesOf, Routed, Table
<1>2. RoutesOwned <=> (phase = "up" => \A r \in Table(routes) : r.name \in Managed \cup rejected)
  BY DEF RoutesOwned, Table
<1>3. SelfProxied = {r.name : r \in {t \in Table(routes) : t.backend = t.port}}
  BY DEF SelfProxied, Table
<1> QED BY <1>1, <1>2, <1>3

\* What a request does, on either side, to the application x it is for: the others stay
\* as they are on both sides (or are new, and have nothing to do with the proxy), and x
\* has on the one what it has on the other.
Handled(x, new) ==
  /\ Rerouted(x, new)
  /\ \A r \in new : r.name = x
  /\ new # {} => x \in Managed' \cup rejected'
  /\ \A n \in Managed' \ {x} : \/ Kept(n) /\ (n \in restored => n \in restored')
                              \/ n \in restored'
                              \/ processes'[n].config.mapping = None
  /\ phase' = "up" => phase \in {"up", "restoring"} /\ Managed \ {x} \subseteq Managed'
  /\ x \in Managed' \ (restored' \cup rejected') => Routed(x)'
  /\ \A r \in new : r.backend = r.port =>
       /\ x \in Managed /\ x \in Managed'
       /\ processes'[x].config.mapping.app \in {None, processes'[x].config.mapping.port}

\* The step form of NoSelfProxy.
Remaps ==
  \A n \in SelfProxied' \ SelfProxied :
    /\ n \in Managed /\ n \in Managed'
    /\ processes'[n].config.mapping.app \in {None, processes'[n].config.mapping.port}

\* Such a request keeps the routes and the processes together.
LEMMA HandledKeeps ==
  ASSUME Inv, NEW x, NEW new, Handled(x, new)
  PROVE  RoutesOwned' /\ RouteMatchesConfig' /\ Remaps
<1>0. /\ RouteMatchesConfig' <=> \A n \in Managed' \ (restored' \cup rejected') : Routed(n)'
      /\ RoutesOwned' <=> (phase' = "up" =>
                             \A r \in Table(routes') : r.name \in Managed' \cup rejected')
      /\ SelfProxied' = {r.name : r \in {t \in Table(routes') : t.backend = t.port}}
  <2>1. RouteMatchesConfig' <=> \A n \in Managed' \ (restored' \cup rejected') : Routed(n)'
    BY DEF RouteMatchesConfig, RoutesOf, Routed, Table
  <2>2. RoutesOwned' <=> (phase' = "up" =>
                            \A r \in Table(routes') : r.name \in Managed' \cup rejected')
    BY DEF RoutesOwned, Table
  <2>3. SelfProxied' = {r.name : r \in {t \in Table(routes') : t.backend = t.port}}
    BY DEF SelfProxied, Table
  <2> QED BY <2>1, <2>2, <2>3
<1>1. Table(routes') = {r \in Table(routes) : r.name # x} \cup new
  BY DEF Handled, Rerouted
<1>2. RoutesOwned'
  <2>1. SUFFICES ASSUME phase' = "up", NEW r \in Table(routes')
                 PROVE  r.name \in Managed' \cup rejected'
    BY <1>0
  <2>2. CASE r \in new
    BY <2>2 DEF Handled
  <2>3. CASE r \in Table(routes) /\ r.name # x
    <3>1. routes # <<>>
      BY <2>3 DEF Table
    <3>2. phase = "up" /\ Managed \ {x} \subseteq Managed'
      BY <2>1, <3>1 DEF Handled, Inv, NoRoutesBefore
    <3>3. r.name \in Managed \cup rejected
      BY <2>3, <3>2, AsTables DEF Inv
    <3>4. rejected' \ {x} = rejected \ {x}
      BY DEF Handled, Rerouted
    <3> QED BY <2>3, <3>2, <3>3, <3>4
  <2> QED BY <1>1, <2>1, <2>2, <2>3
<1>3. RouteMatchesConfig'
  <2>1. SUFFICES ASSUME NEW n \in Managed' \ (restored' \cup rejected') PROVE Routed(n)'
    BY <1>0
  <2>2. CASE n = x
    BY <2>1, <2>2 DEF Handled
  <2>3. CASE n # x /\ processes'[n].config.mapping = None
    BY <2>3 DEF Routed
  <2>4. CASE n # x /\ processes'[n].config.mapping # None
    <3>1. Kept(n) /\ n \notin restored
      BY <2>1, <2>4 DEF Handled
    <3>2. n \in Managed /\ n \notin rejected
      BY <2>1, <2>4, <3>1 DEF Handled, Rerouted, Kept
    <3>3. Routed(n)
      BY <3>1, <3>2, AsTables DEF Inv
    <3>4. \A r \in Table(routes) : r.name = n =>
            /\ r \in Table(routes')
            /\ r.port \in ports \ dead_ports => r.port \in ports' \ dead_ports'
      BY <1>1, <2>4 DEF Handled, Rerouted
    <3> QED BY <3>1, <3>3, <3>4 DEF Routed, Kept
  <2> QED BY <2>2, <2>3, <2>4
<1>4. Remaps
  <2>1. SelfProxied = {r.name : r \in {t \in Table(routes) : t.backend = t.port}}
    BY AsTables
  <2>2. SelfProxied' = {r.name : r \in {t \in Table(routes') : t.backend = t.port}}
    BY <1>0
  <2>3. SUFFICES ASSUME NEW r \in Table(routes'), r.backend = r.port, r.name \notin SelfProxied
                 PROVE  /\ r.name \in Managed /\ r.name \in Managed'
                        /\ processes'[r.name].config.mapping.app
                             \in {None, processes'[r.name].config.mapping.port}
    BY <2>2 DEF Remaps
  <2>4. r \in new
    BY <1>1, <2>1, <2>3
  <2> QED BY <2>3, <2>4 DEF Handled
<1> QED BY <1>2, <1>3, <1>4

-----------------------------------------------------------------------------
\* What is shown of every action: its parts are steps of the components, the daemon's
\* own state stays typed, and it handles some application or ends the daemon.
Sound ==
  /\ PM!Next \/ UNCHANGED procVars
  /\ PX!Next \/ UNCHANGED proxyVars
  /\ Typed'
  /\ NoRoutesBefore'
  /\ \/ \E x, new : Handled(x, new)
     \/ Managed' = {} /\ routes' = <<>>

\* The route handle_run asks for is one the proxy can have.
LEMMA RunRouteStep ==
  ASSUME NEW c \in ConfigType, c.mapping \in Mappings, ~c.spa => c.mapping.app # None,
         AddRunRoute(c)
  PROVE  PX!Next
<1>1. /\ c.name \in Names /\ c.ssl \in Certs \cup {None}
      /\ c.mapping.port \in Ports /\ c.mapping.host \in Hosts \cup {None}
      /\ c.mapping.app \in Ports \cup AppPorts \cup {None, AutoPort}
  BY MappingIs DEF ConfigType
<1>2. (IF c.spa THEN Site ELSE c.mapping.app) \in Ports \cup AppPorts \cup {AutoPort, Site}
  BY <1>1
<1>3. PX!Control
  BY <1>1, <1>2, Zenon DEF AddRunRoute, PX!Control
<1> QED BY <1>3 DEF PX!Next

\* RunProcess: the application is new on both sides, with the same mapping.
LEMMA RunProcessSound ==
  ASSUME Inv, NEW c \in ConfigType, NEW p \in Pids, RunProcess(c, p)
  PROVE  Sound
<1>0. c.mapping # None /\ ~c.spa /\ c.ssl \notin BadCerts /\ (c.acme # None => c.mapping.host # None)
  BY DEF RunProcess, RunAccepted
<1>1. PICK d : d = Remapped(c)
  OBVIOUS
<1>2. /\ d \in ConfigType /\ ~d.spa /\ d.ssl \notin BadCerts /\ d.mapping \in Mappings
      /\ d.mapping.app \notin {None, d.mapping.port}
  BY <1>0, <1>1, RemappedIs
<1>3. PM!spawn_process(d, p) /\ AddRunRoute(d) /\ UNCHANGED <<lifeVars, restored>>
  BY <1>1 DEF RunProcess
<1>4. PM!Next
  BY <1>2, <1>3 DEF PM!Next, PM!Request
<1>5. PX!Next
  BY <1>2, <1>3, RunRouteStep
<1>6. /\ d.name \notin Managed /\ Managed' = Managed \cup {d.name}
      /\ \A n \in Managed : Kept(n)
      /\ processes'[d.name].config.mapping = d.mapping
      /\ processes'[d.name].config.spa = d.spa
  BY <1>2, <1>3, SpawnIs DEF Inv
<1>7. PICK r : r = [name |-> d.name, port |-> d.mapping.port, host |-> d.mapping.host,
                    backend |-> d.mapping.app]
  OBVIOUS
<1>8. /\ Rerouted(d.name, {r})
      /\ d.name \notin rejected' /\ d.mapping.port \in ports' \ dead_ports'
  BY <1>2, <1>3, <1>7, RunReroutes DEF Inv
<1>9. r \in Table(routes')
  BY <1>8 DEF Rerouted
<1>10. Routed(d.name)'
  BY <1>2, <1>6, <1>7, <1>8, <1>9 DEF Routed
<1>11. phase \in {"up", "exiting"} /\ phase' = phase /\ restored' = restored
  BY <1>3 DEF RunProcess, Serving, lifeVars
<1>12. Handled(d.name, {r})
  BY <1>2, <1>6, <1>7, <1>8, <1>10, <1>11 DEF Handled
<1>13. acme_configs' \subseteq Hosts
  <2>1. c.mapping.host \in Hosts \cup {None}
    BY <1>0, MappingIs DEF ConfigType
  <2>2. acme_configs' = IF c.acme = None THEN acme_configs ELSE acme_configs \cup {c.mapping.host}
    BY DEF RunProcess, RegisterAcme
  <2> QED BY <1>0, <2>1, <2>2 DEF Inv, Typed
<1>14. Typed'
  BY <1>3, <1>6, <1>11, <1>13 DEF Inv, Typed, lifeVars
<1>15. NoRoutesBefore'
  BY <1>11 DEF NoRoutesBefore
<1> QED BY <1>4, <1>5, <1>12, <1>14, <1>15 DEF Sound

\* RunRolledBack: the route that stays is that of a refused application.
LEMMA RunRolledBackSound ==
  ASSUME Inv, NEW c \in ConfigType, RunRolledBack(c)
  PROVE  Sound
<1>0. c.mapping # None /\ ~c.spa /\ c.ssl \in BadCerts
  BY DEF RunRolledBack, RunAccepted
<1>1. PICK d : d = Remapped(c)
  OBVIOUS
<1>2. /\ d \in ConfigType /\ ~d.spa /\ d.ssl \in BadCerts /\ d.mapping \in Mappings
      /\ d.mapping.app \notin {None, d.mapping.port}
  BY <1>0, <1>1, RemappedIs
<1>3. PM!FailSpawn(d) /\ AddRunRoute(d) /\ UNCHANGED <<lifeVars, acme_configs, restored>>
  BY <1>1 DEF RunRolledBack
<1>4. PM!Next
  BY <1>2, <1>3 DEF PM!Next, PM!Request
<1>5. PX!Next
  BY <1>2, <1>3, RunRouteStep
<1>6. processes' = processes
  BY <1>3 DEF PM!FailSpawn
<1>7. Managed' = Managed /\ \A n \in Managed : Kept(n)
  BY <1>6 DEF Managed, PM!Managed, Kept
<1>8. PICK r : r = [name |-> d.name, port |-> d.mapping.port, host |-> d.mapping.host,
                    backend |-> d.mapping.app]
  OBVIOUS
<1>9. Rerouted(d.name, {r}) /\ d.name \in rejected'
  BY <1>2, <1>3, <1>8, RunReroutes DEF Inv
<1>10. phase \in {"up", "exiting"} /\ phase' = phase /\ restored' = restored
  BY <1>3 DEF RunRolledBack, Serving, lifeVars
<1>11. Handled(d.name, {r})
  BY <1>2, <1>7, <1>8, <1>9, <1>10 DEF Handled
<1>12. Typed' /\ NoRoutesBefore'
  BY <1>3, <1>7, <1>10 DEF Inv, Typed, lifeVars, NoRoutesBefore
<1> QED BY <1>4, <1>5, <1>11, <1>12 DEF Sound

\* RunSite: the new route is a site's, on a name that is new, managed or refused.
LEMMA RunSiteSound ==
  ASSUME Inv, NEW c \in ConfigType, RunSite(c)
  PROVE  Sound
<1>0. c.mapping # None /\ c.spa /\ (c.acme # None => c.mapping.host # None)
  BY DEF RunSite, RunAccepted
<1>1. PICK d : d = Remapped(c)
  OBVIOUS
<1>2. d \in ConfigType /\ d.spa /\ d.ssl = c.ssl /\ d.name = c.name /\ d.mapping \in Mappings
  BY <1>0, <1>1, RemappedIs
<1>3. AddRunRoute(d) /\ UNCHANGED <<lifeVars, restored>>
  BY <1>1 DEF RunSite
<1>4. PX!Next
  BY <1>2, <1>3, RunRouteStep
<1>5. PICK r : r = [name |-> d.name, port |-> d.mapping.port, host |-> d.mapping.host,
                    backend |-> Site]
  OBVIOUS
<1>6. /\ Rerouted(d.name, {r})
      /\ d.ssl \in BadCerts => d.name \in rejected'
      /\ d.ssl \notin BadCerts => d.name \notin rejected'
  BY <1>2, <1>3, <1>5, RunReroutes DEF Inv
<1>7. r \in Table(routes')
  BY <1>6 DEF Rerouted
<1>8. Routed(d.name)'
  BY <1>5, <1>7 DEF Routed
<1>9. phase \in {"up", "exiting"} /\ phase' = phase /\ restored' = restored
  BY <1>3 DEF RunSite, Serving, lifeVars
<1>10. r.backend # r.port
  BY <1>2, <1>5, MappingIs, DaemonAssumption
<1>11. NoRoutesBefore'
  BY <1>9 DEF NoRoutesBefore
<1>12. CASE c.ssl \in BadCerts \/ c.name \in Managed
  <2>1. UNCHANGED <<procVars, acme_configs>>
    BY <1>12 DEF RunSite
  <2>2. Managed' = Managed /\ \A n \in Managed : Kept(n)
    BY <2>1 DEF Managed, PM!Managed, Kept, procVars
  <2>3. Handled(d.name, {r})
    BY <1>2, <1>5, <1>6, <1>8, <1>9, <1>10, <1>12, <2>2 DEF Handled
  <2>4. Typed'
    BY <1>3, <1>9, <2>1, <2>2 DEF Inv, Typed, lifeVars
  <2> QED BY <1>4, <1>11, <2>1, <2>3, <2>4 DEF Sound
<1>13. CASE ~(c.ssl \in BadCerts \/ c.name \in Managed)
  <2>1. PM!register_spa(d) /\ RegisterAcme(c)
    BY <1>1, <1>13 DEF RunSite
  <2>2. PM!Next
    BY <1>2, <2>1 DEF PM!Next, PM!Request
  <2>3. Managed' = Managed \cup {d.name} /\ \A n \in Managed : Kept(n)
    BY <1>2, <2>1, RegisterIs DEF Inv
  <2>4. Handled(d.name, {r})
    BY <1>2, <1>5, <1>6, <1>8, <1>9, <1>10, <2>3 DEF Handled
  <2>5. acme_configs' \subseteq Hosts
    <3>1. c.mapping.host \in Hosts \cup {None}
      BY <1>0, MappingIs DEF ConfigType
    <3> QED BY <1>0, <2>1, <3>1 DEF Inv, Typed, RegisterAcme
  <2>6. Typed'
    BY <1>3, <1>9, <2>3, <2>5 DEF Inv, Typed, lifeVars
  <2> QED BY <1>4, <1>11, <2>2, <2>4, <2>6 DEF Sound
<1> QED BY <1>12, <1>13

\* A step the proxy takes no part in, and that starts no application with a route.
LEMMA QuietSound ==
  ASSUME Inv, PM!Next \/ UNCHANGED procVars, PX!Next \/ UNCHANGED proxyVars, Typed',
         UNCHANGED <<routes, ports, dead_ports, rejected>>,
         \A n \in Managed' : \/ Kept(n) /\ (n \in restored => n \in restored')
                             \/ n \in restored'
                             \/ processes'[n].config.mapping = None,
         phase' = "up" => phase \in {"up", "restoring"} /\ Managed \subseteq Managed',
         phase' = phase \/ phase' \notin {"down", "restoring"}
           \/ (phase = "down" /\ phase' = "restoring")
  PROVE  Sound
<1>1. Rerouted(None, {})
  BY NothingRerouted DEF Inv
<1>2. None \notin Managed'
  <2>1. M!Inv'
    BY ManagerStep DEF Inv
  <2>2. Managed' \subseteq Names
    BY <2>1 DEF M!Inv, M!TypeOK, M!Managed, Managed, PM!Managed
  <2> QED BY <2>2, ConfigAssumption
<1>3. Handled(None, {})
  BY <1>1, <1>2 DEF Handled
<1>4. NoRoutesBefore'
  BY DEF Inv, NoRoutesBefore
<1> QED BY <1>3, <1>4 DEF Sound

\* A start that fails leaves at most a copied file behind.
LEMMA FailedSound ==
  ASSUME Inv, NEW c \in ConfigType, PM!FailSpawn(c) \/ UNCHANGED procVars,
         UNCHANGED proxyVars, UNCHANGED <<phase, saved, lives, acme_configs, restored>>,
         restore_queue' \subseteq restore_queue
  PROVE  Sound
<1>1. PM!Next \/ UNCHANGED procVars
  BY DEF PM!Next, PM!Request
<1>2. processes' = processes
  BY DEF PM!FailSpawn, procVars
<1>3. Managed' = Managed /\ \A n \in Managed : Kept(n)
  BY <1>2 DEF Managed, PM!Managed, Kept
<1>4. Typed'
  BY <1>3 DEF Inv, Typed
<1>5. phase' = "up" => phase \in {"up", "restoring"}
  OBVIOUS
<1> QED BY <1>1, <1>3, <1>4, <1>5, QuietSound DEF proxyVars

\* Bin: a process without a mapping.
LEMMA BinSound ==
  ASSUME Inv, NEW c \in ConfigType, NEW p \in Pids, Bin(c, p)
  PROVE  Sound
<1>1. /\ c.mapping = None /\ PM!spawn_process(c, p)
      /\ UNCHANGED <<proxyVars, lifeVars, acme_configs, restored>>
  BY DEF Bin
<1>2. PM!Next
  BY <1>1 DEF PM!Next, PM!Request
<1>3. /\ Managed' = Managed \cup {c.name} /\ \A n \in Managed : Kept(n)
      /\ processes'[c.name].config.mapping = None
  BY <1>1, SpawnIs DEF Inv
<1>4. Typed' /\ phase' = phase /\ restored' = restored
  BY <1>1, <1>3 DEF Inv, Typed, lifeVars
<1> QED BY <1>1, <1>2, <1>3, <1>4, QuietSound DEF proxyVars

\* Restore: a process that is marked as restored, and has no route.
LEMMA RestoreSound ==
  ASSUME Inv, NEW c \in restore_queue, NEW p \in Pids, Restore(c, p)
  PROVE  Sound
<1>1. /\ c \in ConfigType /\ PM!spawn_process(c, p) /\ restored' = restored \cup {c.name}
      /\ restore_queue' = restore_queue \ {c} /\ phase = "restoring"
      /\ UNCHANGED <<proxyVars, phase, saved, lives, acme_configs>>
  BY DEF Restore, Inv, Typed
<1>2. PM!Next
  BY <1>1 DEF PM!Next, PM!Request
<1>3. Managed' = Managed \cup {c.name} /\ \A n \in Managed : Kept(n)
  BY <1>1, SpawnIs DEF Inv
<1>4. Typed'
  BY <1>1, <1>3 DEF Inv, Typed
<1> QED BY <1>1, <1>2, <1>3, <1>4, QuietSound DEF proxyVars

\* Restarts, pulls, the health check, exits, and servers that bind their ports.
LEMMA BackgroundSound ==
  ASSUME Inv,
         Background \/ (\E n \in Names : Restart(n)) \/ \E c \in ConfigType : Pull(c)
  PROVE  Sound
<1>1. UNCHANGED <<lifeVars, acme_configs, restored>>
  BY DEF Background, Restart, Pull
<1>2. ASSUME UNCHANGED proxyVars, PM!Next, Managed' = Managed, \A n \in Managed : Kept(n)
      PROVE  Sound
  <2>1. Typed' /\ phase' = phase /\ restored' = restored
    BY <1>1, <1>2 DEF Inv, Typed, lifeVars
  <2> QED BY <1>2, <2>1, QuietSound DEF proxyVars
<1>3. CASE PX!Boot /\ UNCHANGED procVars
  <2>1. PX!Next /\ UNCHANGED <<routes, ports, dead_ports, rejected>>
    BY <1>3 DEF PX!Next, PX!Boot, PX!start_pingora_server, PX!FailServer, PX!controlVars
  <2>2. Managed' = Managed /\ \A n \in Managed : Kept(n)
    BY <1>3 DEF procVars, Managed, PM!Managed, Kept
  <2>3. Typed' /\ phase' = phase /\ restored' = restored
    BY <1>1, <2>2 DEF Inv, Typed, lifeVars
  <2> QED BY <1>3, <2>1, <2>2, <2>3, QuietSound
<1>4. CASE /\ \/ \E n \in Names : PM!BeginRestart(n)
              \/ PM!Start \/ PM!Tick
              \/ \E p \in Pids : PM!OrphanExit(p)
              \/ \E p \in Pids : \E code \in {"ok", "crash"} : PM!Exit(p, code)
           /\ UNCHANGED proxyVars
  <2>1. Managed' = Managed /\ \A n \in Managed : Kept(n)
    BY <1>4, RestartsKeep DEF Inv
  <2>2. PM!Next
    BY <1>4 DEF PM!Next, PM!Request, PM!Environment
  <2> QED BY <1>2, <1>4, <2>1, <2>2
<1>5. ASSUME NEW c \in ConfigType, Pull(c) PROVE Sound
  <2>1. PM!BeginPull(c) /\ UNCHANGED proxyVars
    BY <1>5 DEF Pull
  <2>2. Managed' = Managed /\ \A n \in Managed : Kept(n)
    BY <2>1 DEF PM!BeginPull, Managed, PM!Managed, Kept
  <2>3. PM!Next
    BY <2>1 DEF PM!Next, PM!Request
  <2> QED BY <1>2, <2>1, <2>2, <2>3
<1> QED BY <1>3, <1>4, <1>5 DEF Background, Restart

\* Del: the application goes on both sides.
LEMMA DelSound ==
  ASSUME Inv, NEW x \in Names, Del(x)
  PROVE  Sound
<1>1. /\ PX!remove_routes(x) /\ restored' = restored \ {x} /\ UNCHANGED <<lifeVars, acme_configs>>
      /\ PM!delete(x) \/ (x \notin Managed /\ UNCHANGED procVars)
      /\ phase \in {"up", "exiting"}
  BY DEF Del, Serving
<1>2. PX!Next
  BY <1>1 DEF PX!Next, PX!Control
<1>3. PM!Next \/ UNCHANGED procVars
  BY <1>1 DEF PM!Next, PM!Request
<1>4. Managed' = Managed \ {x} /\ \A n \in Managed' : Kept(n)
  <2>1. CASE PM!delete(x)
    BY <2>1, DeleteIs DEF Inv
  <2>2. CASE x \notin Managed /\ UNCHANGED procVars
    BY <2>2 DEF procVars, Managed, PM!Managed, Kept
  <2> QED BY <1>1, <2>1, <2>2
<1>5. Rerouted(x, {})
  BY <1>1, RemoveReroutes DEF Inv
<1>6. Handled(x, {})
  BY <1>1, <1>4, <1>5 DEF Handled, lifeVars
<1>7. Typed' /\ NoRoutesBefore'
  BY <1>1, <1>4 DEF Inv, Typed, lifeVars, NoRoutesBefore
<1> QED BY <1>2, <1>3, <1>6, <1>7 DEF Sound

\* Update: a new mapping is a new route, and the other applications notice nothing.
LEMMA UpdateSound ==
  ASSUME Inv, NEW x \in Names, NEW u \in UpdateType, Update(x, u)
  PROVE  Sound
<1>1. PM!update(x, u) /\ UNCHANGED <<lifeVars, acme_configs>> /\ phase \in {"up", "exiting"}
  BY DEF Update, Serving
<1>2. PM!Next
  BY <1>1 DEF PM!Next, PM!Request
<1>3. /\ x \in Managed /\ Managed' = Managed
      /\ \A n \in Managed \ {x} : Kept(n)
      /\ processes'[x].config.spa = processes[x].config.spa
      /\ processes'[x].config.mapping =
           IF u.mapping = None THEN processes[x].config.mapping ELSE u.mapping
  BY <1>1, UpdateIs DEF Inv
<1>4. CASE u.mapping = None
  <2>1. UNCHANGED <<proxyVars, restored>>
    BY <1>4 DEF Update
  <2>2. \A n \in Managed : Kept(n)
    BY <1>3, <1>4 DEF Kept
  <2>3. Typed' /\ phase' = phase
    BY <1>1, <1>3, <2>1 DEF Inv, Typed, lifeVars
  <2> QED BY <1>1, <1>2, <1>3, <2>1, <2>2, <2>3, QuietSound DEF proxyVars
<1>5. CASE u.mapping # None
  <2>1. PICK m : m = u.mapping
    OBVIOUS
  <2>2. PICK b : b = IF processes[x].config.spa THEN Site
                     ELSE IF m.app = None THEN m.port ELSE m.app
    OBVIOUS
  <2>3. PX!move_route(x, m.port, m.host, b) /\ restored' = restored \ {x}
    BY <1>5, <2>1, <2>2 DEF Update
  <2>4. /\ m \in Mappings /\ m.port \in Ports /\ m.host \in Hosts \cup {None}
        /\ m.app \in Ports \cup AppPorts \cup {None, AutoPort}
    BY <1>5, <2>1, MappingIs DEF UpdateType
  <2>5. b \in Ports \cup AppPorts \cup {AutoPort, Site}
    BY <2>2, <2>4
  <2>6. PX!Control
    BY <2>3, <2>4, <2>5, Zenon DEF PX!Control
  <2>7. PX!Next
    BY <2>6 DEF PX!Next
  <2>8. PICK r : r = [name |-> x, port |-> m.port, host |-> m.host, backend |-> b]
    OBVIOUS
  <2>9. Rerouted(x, {r}) /\ x \notin rejected' /\ m.port \in ports' \ dead_ports'
    BY <2>3, <2>8, MoveReroutes DEF Inv
  <2>10. r \in Table(routes')
    BY <2>9 DEF Rerouted
  <2>11. processes'[x].config.mapping = m
    BY <1>3, <1>5, <2>1
  <2>12. Routed(x)'
    BY <1>3, <2>2, <2>8, <2>9, <2>10, <2>11 DEF Routed
  <2>13. r.backend = r.port => m.app \in {None, m.port}
    BY <2>2, <2>4, <2>8, DaemonAssumption
  <2>14. Handled(x, {r})
    BY <1>1, <1>3, <2>3, <2>8, <2>9, <2>11, <2>12, <2>13 DEF Handled, lifeVars
  <2>15. Typed' /\ NoRoutesBefore'
    BY <1>1, <1>3, <2>3 DEF Inv, Typed, lifeVars, NoRoutesBefore
  <2> QED BY <1>2, <2>7, <2>14, <2>15 DEF Sound
<1> QED BY <1>4, <1>5

\* The daemon's own life, and the requests that only save or count.
LEMMA LifeSound ==
  ASSUME Inv, SetCacheTtl \/ Save \/ Boot \/ Serve \/ Kill \/ End \/ UNCHANGED vars
  PROVE  Sound
<1>1. ASSUME UNCHANGED procVars
      PROVE  Managed' = Managed /\ \A n \in Managed : Kept(n)
  BY <1>1 DEF procVars, Managed, PM!Managed, Kept
<1>2. CASE SetCacheTtl
  <2>1. PX!Next /\ UNCHANGED <<routes, ports, dead_ports, rejected>>
    BY <1>2 DEF SetCacheTtl, PX!Next, PX!Control, PX!set_cache_ttl
  <2>2. UNCHANGED procVars /\ UNCHANGED <<lifeVars, acme_configs, restored>>
    BY <1>2 DEF SetCacheTtl
  <2>3. Typed' /\ phase' = phase /\ restored' = restored
    BY <1>1, <2>2 DEF Inv, Typed, lifeVars
  <2> QED BY <1>1, <2>1, <2>2, <2>3, QuietSound
<1>3. CASE Save
  <2>1. /\ UNCHANGED procVars /\ UNCHANGED proxyVars
        /\ UNCHANGED <<phase, restore_queue, lives, acme_configs, restored>>
    BY <1>3 DEF Save
  <2>2. PICK C : C = {processes[n].config : n \in Managed}
    OBVIOUS
  <2>3. C \subseteq ConfigType
    BY <2>2, EntryIs DEF Inv
  <2>4. saved' \subseteq ConfigType
    <3>1. saved' \in {C} \cup (SUBSET saved) \cup (SUBSET C)
      BY <1>3, <2>2, Zenon DEF Save
    <3>2. saved' = C \/ saved' \subseteq saved \/ saved' \subseteq C
      BY <3>1
    <3>3. saved \subseteq ConfigType
      BY DEF Inv, Typed
    <3> QED BY <2>3, <3>2, <3>3
  <2>5. Typed'
    BY <1>1, <2>1, <2>4 DEF Inv, Typed
  <2> QED BY <1>1, <2>1, <2>5, QuietSound DEF proxyVars
<1>4. CASE Boot
  <2>1. /\ UNCHANGED procVars /\ UNCHANGED proxyVars
        /\ UNCHANGED <<saved, acme_configs, restored>> /\ restore_queue' = saved
        /\ lives < MaxLives /\ lives' = lives + 1 /\ phase = "down" /\ phase' = "restoring"
    BY <1>4 DEF Boot
  <2>2. lives' \in 0..MaxLives
    BY <2>1, DaemonAssumption DEF Inv, Typed
  <2>3. Typed'
    BY <1>1, <2>1, <2>2 DEF Inv, Typed
  <2> QED BY <1>1, <2>1, <2>3, QuietSound DEF proxyVars
<1>5. CASE Serve
  <2>1. /\ UNCHANGED procVars /\ UNCHANGED proxyVars
        /\ UNCHANGED <<restore_queue, saved, lives, acme_configs, restored>>
        /\ phase = "restoring" /\ phase' = "up"
    BY <1>5 DEF Serve
  <2>2. Typed'
    BY <1>1, <2>1 DEF Inv, Typed
  <2> QED BY <1>1, <2>1, <2>2, QuietSound DEF proxyVars
<1>6. CASE Kill
  <2>1. /\ PM!kill_all /\ UNCHANGED proxyVars /\ phase' = "exiting" /\ restored' = {}
        /\ UNCHANGED <<restore_queue, lives, acme_configs>> /\ saved' \subseteq saved
    BY <1>6 DEF Kill
  <2>2. PM!Next /\ Managed' = {}
    BY <2>1, KillAllIs DEF PM!Next, PM!Request
  <2>3. Typed'
    BY <2>1, <2>2 DEF Inv, Typed
  <2> QED BY <2>1, <2>2, <2>3, QuietSound DEF proxyVars
<1>7. CASE End
  <2>1. /\ PM!Vanish /\ PX!Shutdown /\ phase' = "down" /\ restore_queue' = {}
        /\ acme_configs' = {} /\ restored' = {} /\ UNCHANGED <<saved, lives>>
    BY <1>7 DEF End
  <2>2. PM!Next /\ PX!Next /\ Managed' = {} /\ routes' = <<>>
    BY <2>1, KillAllIs DEF PM!Next, PM!Environment, PX!Next, PX!Shutdown
  <2>3. Typed' /\ NoRoutesBefore'
    BY <2>1, <2>2 DEF Inv, Typed, NoRoutesBefore
  <2> QED BY <2>2, <2>3 DEF Sound
<1>8. CASE UNCHANGED vars
  <2>1. /\ UNCHANGED procVars /\ UNCHANGED proxyVars
        /\ UNCHANGED <<lifeVars, acme_configs, restored>>
    BY <1>8 DEF vars
  <2>2. Typed' /\ phase' = phase /\ restored' = restored
    BY <1>1, <2>1 DEF Inv, Typed, lifeVars
  <2> QED BY <1>1, <2>1, <2>2, QuietSound DEF proxyVars
<1> QED BY <1>2, <1>3, <1>4, <1>5, <1>6, <1>7, <1>8

-----------------------------------------------------------------------------
\* Every step of the daemon is one of these.
LEMMA NextSound ==
  ASSUME Inv, [Next]_vars
  PROVE  Sound
<1>0. Configs \subseteq ConfigType /\ Updates \subseteq UpdateType
  BY DaemonAssumption
<1>1. ASSUME NEW c \in Configs, NEW p \in Pids, RunProcess(c, p) PROVE Sound
  BY <1>0, <1>1, RunProcessSound
<1>2. ASSUME NEW c \in Configs, NEW p \in Pids, Bin(c, p) PROVE Sound
  BY <1>0, <1>2, BinSound
<1>3. ASSUME NEW c \in Configs, RunRolledBack(c) PROVE Sound
  BY <1>0, <1>3, RunRolledBackSound
<1>4. ASSUME NEW c \in Configs, RunFailed(c) PROVE Sound
  <2>1. Remapped(c) \in ConfigType
    BY <1>0, <1>4, RemappedIs DEF RunFailed, RunAccepted
  <2>2. PICK d : d = Remapped(c)
    OBVIOUS
  <2>3. /\ d \in ConfigType /\ PM!FailSpawn(d) /\ UNCHANGED proxyVars
        /\ UNCHANGED <<phase, saved, lives, acme_configs, restored>>
        /\ restore_queue' \subseteq restore_queue
    BY <1>4, <2>1, <2>2 DEF RunFailed, lifeVars
  <2> QED BY <2>3, FailedSound
<1>5. ASSUME NEW c \in Configs, RunSite(c) PROVE Sound
  BY <1>0, <1>5, RunSiteSound
<1>6. ASSUME NEW c \in Configs, BinFailed(c) PROVE Sound
  <2>1. /\ c \in ConfigType /\ PM!FailSpawn(c) /\ UNCHANGED proxyVars
        /\ UNCHANGED <<phase, saved, lives, acme_configs, restored>>
        /\ restore_queue' \subseteq restore_queue
    BY <1>0, <1>6 DEF BinFailed, lifeVars
  <2> QED BY <2>1, FailedSound
<1>7. ASSUME NEW n \in Names, Del(n) PROVE Sound
  BY <1>7, DelSound
<1>8. ASSUME NEW n \in Names, NEW u \in Updates, Update(n, u) PROVE Sound
  BY <1>0, <1>8, UpdateSound
<1>9. ASSUME NEW c \in restore_queue, RestoreFailed(c) PROVE Sound
  <2>1. /\ c \in ConfigType
        /\ PM!FailSpawn(c) \/ UNCHANGED procVars
        /\ UNCHANGED proxyVars
        /\ UNCHANGED <<phase, saved, lives, acme_configs, restored>>
        /\ restore_queue' \subseteq restore_queue
    BY <1>9 DEF RestoreFailed, Inv, Typed
  <2> QED BY <2>1, FailedSound
<1>10. ASSUME NEW c \in restore_queue, NEW p \in Pids, Restore(c, p) PROVE Sound
  BY <1>10, RestoreSound
<1>11. CASE SetCacheTtl \/ Save \/ Boot \/ Serve \/ Kill \/ End \/ UNCHANGED vars
  BY <1>11, LifeSound
<1>12. CASE Background \/ (\E n \in Names : Restart(n)) \/ \E c \in Configs : Pull(c)
  BY <1>0, <1>12, BackgroundSound
<1> QED
  BY <1>1, <1>2, <1>3, <1>4, <1>5, <1>6, <1>7, <1>8, <1>9, <1>10, <1>11, <1>12 DEF Next

\* The inductive invariant.
LEMMA NextInv ==
  ASSUME Inv, [Next]_vars
  PROVE  Inv' /\ Remaps
<1>1. Sound
  BY NextSound
<1>2. M!Inv' /\ P!TypeOK' /\ Typed' /\ NoRoutesBefore'
  BY <1>1, ManagerStep, ProxyStep DEF Sound, Inv
<1>3. CASE \E x, new : Handled(x, new)
  BY <1>2, <1>3, HandledKeeps DEF Inv
<1>4. CASE Managed' = {} /\ routes' = <<>>
  <2>1. DOMAIN routes' = {}
    BY <1>4
  <2>2. RoutesOwned' /\ RouteMatchesConfig'
    BY <1>4, <2>1 DEF RoutesOwned, RouteMatchesConfig
  <2>3. SelfProxied' = {}
    BY <2>1 DEF SelfProxied
  <2> QED BY <1>2, <2>2, <2>3 DEF Inv, Remaps
<1> QED BY <1>1, <1>3, <1>4 DEF Sound

\* Before the first start nothing is managed and nothing is routed.
LEMMA InitInv == Init => Inv
<1> SUFFICES ASSUME Init PROVE Inv
  OBVIOUS
<1>1. M!Inv
  <2>1. M!Init
    BY SameManager DEF Init
  <2> QED BY <2>1, M!InitInv, ManagerConstants
<1>2. P!TypeOK
  BY SameProxy, ProxyConstants DEF Init, P!Init, P!TypeOK
<1>3. routes = <<>> /\ Managed = {} /\ phase = "down"
  BY DEF Init, PX!Init, PM!Init, Managed, PM!Managed
<1>4. Typed
  BY <1>3, DaemonAssumption DEF Init, Typed
<1> QED BY <1>1, <1>2, <1>3, <1>4 DEF Inv, NoRoutesBefore, RoutesOwned, RouteMatchesConfig

\* The invariant holds for every set of applications, configurations and updates.
THEOREM InvariantHolds == Spec => []Inv
<1>1. Inv /\ [Next]_vars => Inv'
  BY NextInv
<1> QED BY <1>1, InitInv, PTL DEF Spec

\* The type invariant of the daemon and of its two components.
THEOREM TypeCorrect == Spec => []TypeOK
<1>1. M!TypeOK => PM!TypeOK
  BY SameConfigs DEF M!TypeOK, PM!TypeOK, M!EntryType, PM!EntryType, M!Statuses, PM!Statuses,
     M!OsStates, PM!OsStates, M!Held, PM!Held, M!Alive, PM!Alive, M!Managed, PM!Managed
<1>2. Inv => TypeOK
  BY <1>1, SameProxy DEF Inv, Typed, TypeOK, M!Inv
<1> QED BY <1>2, InvariantHolds, PTL

\* A daemon is a process manager and a proxy manager: whatever it does to restore a
\* list, roll a run back, move a route or exit, each of the two only sees calls it
\* allows, with arguments of its types. Hence every theorem about one of them holds of
\* it in the daemon.
THEOREM DaemonRunsComponents == Spec => PM!Spec /\ PX!Spec
<1>1. Init => PM!Init /\ PX!Init
  BY DEF Init
<1>2. Inv /\ [Next]_vars => [PM!Next]_PM!vars /\ [PX!Next]_PX!vars
  <2> SUFFICES ASSUME Inv, [Next]_vars PROVE [PM!Next]_PM!vars /\ [PX!Next]_PX!vars
    OBVIOUS
  <2>1. (PM!Next \/ UNCHANGED procVars) /\ (PX!Next \/ UNCHANGED proxyVars)
    BY NextSound DEF Sound
  <2> QED BY <2>1 DEF procVars, proxyVars, PM!vars, PX!vars, PX!controlVars
<1> QED BY <1>1, <1>2, InvariantHolds, PTL DEF Spec, PM!Spec, PX!Spec

\* While the daemon is up, a route belongs to a managed application or to one that was
\* refused for its certificate (server.rs, handle_run, handle_del and handle_update).
THEOREM RoutesAreOwned == Spec => []RoutesOwned
<1>1. Inv => RoutesOwned
  BY DEF Inv
<1> QED BY <1>1, InvariantHolds, PTL

\* The route of a process is the one its mapping in the process table asks for, on a
\* live port, through updates, restarts and requests for others (server.rs, handle_run
\* and handle_update; proxy.rs, remove_routes).
THEOREM RoutesMatchConfigs == Spec => []RouteMatchesConfig
<1>1. Inv => RouteMatchesConfig
  BY DEF Inv
<1> QED BY <1>1, InvariantHolds, PTL

\* Only an update makes a route that leads back to its own port: run gives the
\* application another one (server.rs, handle_run).
THEOREM RunNeverProxiesToItself == Spec => NoSelfProxy
<1>1. Inv /\ [Next]_vars =>
        [\A n \in SelfProxied' \ SelfProxied :
           /\ n \in Managed /\ n \in Managed'
           /\ processes'[n].config.mapping.app \in {None, processes'[n].config.mapping.port}]_vars
  BY NextInv DEF Remaps
<1> QED BY <1>1, InvariantHolds, PTL DEF Spec, NoSelfProxy

\* When a kill gives the mutex back, every child of the table is dead, and no other
\* child was the daemon's (server.rs, Kill; process.rs, kill_all).
THEOREM KillStopsEverything == Spec => KillStopsAll
<1>1. Inv /\ [Next]_vars =>
        [phase # "exiting" /\ phase' = "exiting" =>
           \A p \in Pids : os'[p] \in {"free", "orphan"}]_vars
  <2> SUFFICES ASSUME Inv, Next, phase # "exiting", phase' = "exiting", NEW p \in Pids
               PROVE  os'[p] \in {"free", "orphan"}
    OBVIOUS
  <2>1. Kill
    BY DEF Next, Pull, RunProcess, Bin, RunRolledBack, RunFailed, RunSite, BinFailed, Del, Restart,
       Update, SetCacheTtl, Save, Background, Boot, RestoreFailed, Restore, Serve, End, lifeVars
  <2>2. os' = PM!Reap(os, {processes[n].child : n \in Managed})
    BY <2>1 DEF Kill, PM!kill_all, Managed
  <2>3. os[p] \in M!OsStates
    BY DEF Inv, M!Inv, M!TypeOK
  <2>4. os[p] \in M!Held => p \in {processes[n].child : n \in Managed}
    BY DEF Inv, M!Inv, M!ChildOwned, Managed, PM!Managed, M!Managed
  <2>5. os'[p] = IF p \in {processes[n].child : n \in Managed} THEN "free" ELSE os[p]
    BY <2>2 DEF PM!Reap
  <2> QED BY <2>3, <2>4, <2>5 DEF M!OsStates
<1> QED BY <1>1, InvariantHolds, PTL DEF Spec, KillStopsAll
====
