---- MODULE ProxyManager ----
(***************************************************************************)
(* The reverse proxy's control plane (ProxyManager of proxy.rs and the     *)
(* certificate store of tls.rs): the route table, the ports that listen,   *)
(* the ports that are switched off, and the Pingora servers started so     *)
(* far. A server is never stopped: a port is closed by listing it in       *)
(* dead_ports, and each new port starts one more server on ALL ports.      *)
(*                                                                         *)
(* The calls are made under the daemon's mutex and are one step each; the  *)
(* server they start binds its ports later, on a thread of its own.        *)
(***************************************************************************)
EXTENDS Naturals, Sequences, FiniteSetsExt

CONSTANTS
  Names,          \* application names
  Ports,          \* public ports
  Hosts,          \* host names of host-based routes
  Backends,       \* local addresses and static directories
  Certs,          \* certificate/key file pairs given with --ssl
  BadCerts,       \* the pairs that cannot be read or parsed
  ServersMayFail, \* may Pingora fail to create a server or TLS settings?
  MaxBooting,     \* bound on the servers that are starting at the same time
  MaxCaches,      \* bound on the changes of the cache's time to live
  None            \* the absent Option

ASSUME ProxyAssumption ==
  /\ BadCerts \subseteq Certs
  /\ None \notin Certs
  /\ None \notin Hosts
  /\ None \notin Names
  /\ None \notin [name : Names, port : Ports, host : Hosts \cup {None}, backend : Backends]
  /\ ServersMayFail \in BOOLEAN
  /\ MaxBooting \in Nat
  /\ MaxCaches \in Nat

VARIABLES
  routes,      \* RouteTable.entries, in order
  ports,       \* ports with a listener, as far as the manager knows
  tls_ports,   \* ports a TLS route was added for
  dead_ports,  \* ports whose requests are refused
  cache,       \* the cache handed to the next server, numbered; servers keep theirs
  certs,       \* hosts with a certificate in the store; None is the default one
  booting,     \* snapshots handed to server threads that have not bound yet
  listeners,   \* the sockets the servers have bound, plain or TLS
  rejected,    \* applications whose last route was refused with an error
  failed,      \* history: ports no server was started for since one failed on them
  late_tls     \* history: ports that had been in use without TLS, or had to be

controlVars == <<routes, ports, tls_ports, dead_ports, cache, certs, rejected>>
vars == <<controlVars, booting, listeners, failed, late_tls>>

-----------------------------------------------------------------------------
RouteType == [name : Names, port : Ports, host : Hosts \cup {None}, backend : Backends]
ServerType == [ports : SUBSET Ports, tls : SUBSET Ports]
ListenerType == [port : Ports, tls : BOOLEAN]

TypeOK ==
  /\ routes \in Seq(RouteType)
  /\ ports \subseteq Ports
  /\ tls_ports \subseteq Ports
  /\ dead_ports \subseteq Ports
  /\ cache \in 0..MaxCaches
  /\ certs \subseteq Hosts \cup {None}
  /\ booting \subseteq ServerType
  /\ listeners \subseteq ListenerType
  /\ rejected \subseteq Names
  /\ failed \subseteq Ports
  /\ late_tls \subseteq Ports

Init ==
  /\ routes = <<>>
  /\ ports = {}
  /\ tls_ports = {}
  /\ dead_ports = {}
  /\ cache = 0
  /\ certs = {}
  /\ booting = {}
  /\ listeners = {}
  /\ rejected = {}
  /\ failed = {}
  /\ late_tls = {}

-----------------------------------------------------------------------------
\* RouteTable.find: the first route of the port for that host, else the first
\* one of the port for any host.
Matching(rs, port, host) == {i \in DOMAIN rs : rs[i].port = port /\ rs[i].host = host}

\* Wrong: a catch-all route is preferred to the route of the host.
find_catch_all_first(rs, port, host) ==
  LET exact == Matching(rs, port, host)
      rest  == Matching(rs, port, None)
  IN  IF rest # {} THEN rs[Min(rest)]
      ELSE IF exact # {} THEN rs[Min(exact)] ELSE None

find(rs, port, host) ==
  LET exact == Matching(rs, port, host)
      rest  == Matching(rs, port, None)
  IN  IF host # None /\ exact # {} THEN rs[Min(exact)]
      ELSE IF rest # {} THEN rs[Min(rest)] ELSE None

\* Which application answers a request (before dead_ports is looked at).
Answers(rs, port, host) ==
  LET r == find(rs, port, host) IN IF r = None THEN None ELSE r.name

\* The routes without those of one application, in order (entries.retain).
OtherRoutes(rs, name) ==
  LET retain[n \in 0..Len(rs)] ==
        IF n = 0 THEN <<>>
        ELSE IF rs[n].name = name THEN retain[n - 1]
        ELSE Append(retain[n - 1], rs[n])
  IN  retain[Len(rs)]

PortsOf(rs) == {rs[i].port : i \in DOMAIN rs}
PortsOfApp(rs, name) == {rs[i].port : i \in {j \in DOMAIN rs : rs[j].name = name}}

\* Wrong: routes of other applications on the port are not considered.
Orphaned_ignores_others(rs, name) == PortsOfApp(rs, name)

\* The ports that lose their last route when an application's routes go.
Orphaned(rs, name) == PortsOfApp(rs, name) \ PortsOf(OtherRoutes(rs, name))

\* add_route_with_tls, called when the live and the dead ports are `live' and
\* `dead'. The route is in the table before the certificate is read: a bad
\* certificate returns an error and leaves it there.
AddRoute(name, port, host, backend, ssl, live, dead) ==
  /\ routes' = Append(OtherRoutes(routes, name),
                      [name |-> name, port |-> port, host |-> host, backend |-> backend])
  /\ IF ssl \in BadCerts
     THEN /\ rejected' = rejected \cup {name}
          /\ ports' = live
          /\ dead_ports' = dead
          /\ UNCHANGED <<tls_ports, certs, booting, failed, late_tls>>
     ELSE /\ rejected' = rejected \ {name}
          /\ certs' = IF ssl = None THEN certs ELSE certs \cup {host}
          /\ tls_ports' = IF ssl = None THEN tls_ports ELSE tls_ports \cup {port}
          /\ dead_ports' = dead \ {port}
          /\ ports' = live \cup {port}
          /\ late_tls' = IF ssl # None /\ port \in (live \cup dead) \ tls_ports
                         THEN late_tls \cup {port} ELSE late_tls
          /\ IF port \in live
             THEN UNCHANGED <<booting, failed>>
             ELSE /\ Cardinality(booting) < MaxBooting
                  /\ failed' = failed \ ports'
                  /\ booting' = booting \cup {[ports |-> ports', tls |-> tls_ports']}
  /\ UNCHANGED <<cache, listeners>>

add_route_with_tls(name, port, host, backend, ssl) ==
  AddRoute(name, port, host, backend, ssl, ports, dead_ports)

\* Wrong: an orphaned port is forgotten, but not marked dead.
remove_routes_forgets_port(name) ==
  /\ routes' = OtherRoutes(routes, name)
  /\ ports' = ports \ Orphaned(routes, name)
  /\ rejected' = rejected \ {name}
  /\ UNCHANGED <<dead_ports, tls_ports, cache, certs, booting, listeners, failed, late_tls>>

\* Wrong: a port that is closed is no longer a TLS port.
remove_routes_ends_tls(name) ==
  /\ routes' = OtherRoutes(routes, name)
  /\ ports' = ports \ Orphaned(routes, name)
  /\ dead_ports' = dead_ports \cup Orphaned(routes, name)
  /\ tls_ports' = tls_ports \ Orphaned(routes, name)
  /\ rejected' = rejected \ {name}
  /\ UNCHANGED <<cache, certs, booting, listeners, failed, late_tls>>

remove_routes(name) ==
  /\ routes' = OtherRoutes(routes, name)
  /\ ports' = ports \ Orphaned(routes, name)
  /\ dead_ports' = dead_ports \cup Orphaned(routes, name)
  /\ rejected' = rejected \ {name}
  /\ UNCHANGED <<tls_ports, cache, certs, booting, listeners, failed, late_tls>>

\* handle_update with a new port mapping: remove_routes, then add_route, which
\* is add_route_with_tls without a certificate.
move_route(name, port, host, backend) ==
  AddRoute(name, port, host, backend, None,
           ports \ Orphaned(routes, name), dead_ports \cup Orphaned(routes, name))

\* A new cache is built for the servers to come; the ones that run keep theirs.
set_cache_ttl ==
  /\ cache < MaxCaches
  /\ cache' = cache + 1
  /\ UNCHANGED <<routes, ports, tls_ports, dead_ports, certs, booting, listeners, rejected,
                 failed, late_tls>>

\* Wrong: ports without TLS are not bound.
Sockets_tls_only(s, tls) == {[port |-> p, tls |-> TRUE] : p \in s.ports \cap tls}

\* The thread of start_pingora_server: it binds every port of its snapshot, with
\* TLS for those that were TLS ports then, next to the sockets older servers hold
\* on the same ports.
Sockets(s, tls) == {[port |-> p, tls |-> p \in tls] : p \in s.ports}

start_pingora_server(s) ==
  /\ s \in booting
  /\ booting' = booting \ {s}
  /\ listeners' = listeners \cup Sockets(s, s.tls)
  /\ UNCHANGED <<controlVars, failed, late_tls>>

\* No server can be created, or no TLS settings and the ports are bound plain.
FailServer(s) ==
  /\ ServersMayFail
  /\ s \in booting
  /\ booting' = booting \ {s}
  /\ \/ failed' = failed \cup s.ports /\ UNCHANGED <<listeners, late_tls>>
     \/ /\ listeners' = listeners \cup Sockets(s, {})
        /\ late_tls' = late_tls \cup (s.ports \cap s.tls)
        /\ UNCHANGED failed
  /\ UNCHANGED controlVars

\* The daemon process ends, and its routes, ports and servers with it.
Shutdown ==
  /\ routes' = <<>>
  /\ ports' = {} /\ tls_ports' = {} /\ dead_ports' = {}
  /\ cache' = 0
  /\ certs' = {}
  /\ booting' = {} /\ listeners' = {}
  /\ rejected' = {}
  /\ failed' = {} /\ late_tls' = {}

-----------------------------------------------------------------------------
Control ==
  \/ \E n \in Names, p \in Ports, h \in Hosts \cup {None}, b \in Backends,
        ssl \in Certs \cup {None} : add_route_with_tls(n, p, h, b, ssl)
  \/ \E n \in Names : remove_routes(n)
  \/ \E n \in Names, p \in Ports, h \in Hosts \cup {None}, b \in Backends :
        move_route(n, p, h, b)
  \/ set_cache_ttl

Boot == \E s \in booting : start_pingora_server(s) \/ FailServer(s)

Next == Control \/ Boot \/ Shutdown

Spec == Init /\ [][Next]_vars

\* A server thread that was started runs.
FairSpec == Spec /\ \A s \in ServerType : WF_vars(start_pingora_server(s))

-----------------------------------------------------------------------------
(* Properties. *)

Listening == {l.port : l \in listeners}

\* The bookkeeping of ports: no port is both live and dead, and no server listens
\* on a port the manager has forgotten, whatever was added, moved, removed and
\* added again, and whichever server started late.
PortBookkeeping ==
  /\ ports \cap dead_ports = {}
  /\ Listening \subseteq ports \cup dead_ports
  /\ \A s \in booting : s.ports \subseteq ports \cup dead_ports

\* A route the manager accepted is on a live port: removing or moving other
\* applications never closes it.
RoutesServed ==
  \A i \in DOMAIN routes :
    routes[i].name \notin rejected => routes[i].port \in ports

\* A step for one application does not disturb the others: it changes who
\* answers a request only if that application answered it before or answers it
\* afterwards, and it takes a request over only from a catch-all route, with a
\* route for that very host. In particular the first of two applications that
\* claim the same host and port keeps it. (The end of the daemon ends them all.)
\* Checked as RouteStability of ProxyRequest.
RoutesStable ==
  \/ routes' = routes
  \/ Shutdown
  \/ \E x \in Names : \A p \in Ports, h \in Hosts \cup {None} :
       LET old == Answers(routes, p, h)
           new == Answers(routes', p, h)
       IN  /\ old # new => x \in {old, new}
           /\ new = x /\ old \notin {x, None}
                => /\ find(routes, p, h).host = None
                   /\ find(routes', p, h).host = h
                   /\ h # None

\* Several servers share a port, and the kernel spreads the connections over their
\* sockets: all of them speak TLS or none does, except on a port that was used
\* without TLS before it got a certificate, or whose TLS settings failed. There the
\* plain sockets stay, and a connection may get one of them.
SocketsAgree ==
  \A k, l \in listeners : k.port = l.port /\ k.tls # l.tls => l.port \in late_tls

\* Every live port gets a listener, unless it is closed again first or no server
\* could be created: a port that counts as live is never tried again.
LivePortBound ==
  \A p \in Ports : p \in ports ~> (p \in Listening \/ p \notin ports \/ p \in failed)
====
