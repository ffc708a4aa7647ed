---- MODULE ProxyManagerProofs ----
(***************************************************************************)
(* Proofs about ProxyManager, for every set of applications, ports, hosts  *)
(* and certificates.                                                       *)
(***************************************************************************)
EXTENDS ProxyManager, WellFoundedInduction, TLAPS

-----------------------------------------------------------------------------
\* add_route_with_tls keeps the bookkeeping when it starts from live and dead
\* ports that account for every socket bound and every server starting.
LEMMA AddKeepsBookkeeping ==
  ASSUME NEW name, NEW port, NEW host, NEW backend, NEW ssl, NEW live, NEW dead,
         live \cap dead = {},
         Listening \subseteq live \cup dead,
         \A s \in booting : s.ports \subseteq live \cup dead,
         AddRoute(name, port, host, backend, ssl, live, dead)
  PROVE  PortBookkeeping'
<1>1. Listening' = Listening
  BY DEF AddRoute, Listening
<1>2. CASE ssl \in BadCerts
  <2>1. ports' = live /\ dead_ports' = dead /\ booting' = booting
    BY <1>2 DEF AddRoute
  <2> QED BY <1>1, <2>1 DEF PortBookkeeping
<1>3. CASE ssl \notin BadCerts
  <2>1. ports' = live \cup {port} /\ dead_ports' = dead \ {port}
    BY <1>3 DEF AddRoute
  <2>2. live \cup dead \subseteq ports' \cup dead_ports'
    BY <2>1
  <2>3. \A s \in booting' : s \in booting \/ s = [ports |-> ports', tls |-> tls_ports']
    BY <1>3 DEF AddRoute
  <2>4. \A s \in booting' : s.ports \subseteq ports' \cup dead_ports'
    <3> SUFFICES ASSUME NEW s \in booting'
                 PROVE  s.ports \subseteq ports' \cup dead_ports'
      OBVIOUS
    <3>1. CASE s \in booting
      BY <2>2, <3>1
    <3>2. CASE s = [ports |-> ports', tls |-> tls_ports']
      BY <3>2
    <3> QED BY <2>3, <3>1, <3>2
  <2> QED BY <1>1, <2>1, <2>2, <2>4 DEF PortBookkeeping
<1> QED BY <1>2, <1>3

\* Every step keeps the bookkeeping.
LEMMA NextKeepsBookkeeping ==
  ASSUME PortBookkeeping, [Next]_vars
  PROVE  PortBookkeeping'
<1>1. ASSUME NEW n, NEW p, NEW h, NEW b, NEW ssl, add_route_with_tls(n, p, h, b, ssl)
      PROVE  PortBookkeeping'
  BY <1>1, AddKeepsBookkeeping DEF add_route_with_tls, PortBookkeeping
<1>2. ASSUME NEW n, remove_routes(n) PROVE PortBookkeeping'
  <2>1. Listening' = Listening /\ booting' = booting
    BY <1>2 DEF remove_routes, Listening
  <2>2. ports' \cup dead_ports' = ports \cup dead_ports \cup Orphaned(routes, n)
    BY <1>2 DEF remove_routes
  <2> QED BY <1>2, <2>1, <2>2 DEF PortBookkeeping, remove_routes
<1>3. ASSUME NEW n, NEW p, NEW h, NEW b, move_route(n, p, h, b) PROVE PortBookkeeping'
  <2> DEFINE live == ports \ Orphaned(routes, n)
             dead == dead_ports \cup Orphaned(routes, n)
  <2>1. live \cap dead = {} /\ ports \cup dead_ports \subseteq live \cup dead
    BY DEF PortBookkeeping
  <2>2. AddRoute(n, p, h, b, None, live, dead)
    BY <1>3 DEF move_route
  <2> HIDE DEF live, dead
  <2>3. /\ Listening \subseteq live \cup dead
        /\ \A s \in booting : s.ports \subseteq live \cup dead
    BY <2>1 DEF PortBookkeeping
  <2> QED BY <2>1, <2>2, <2>3, AddKeepsBookkeeping
<1>4. ASSUME NEW s \in booting, start_pingora_server(s) \/ FailServer(s)
      PROVE  PortBookkeeping'
  <2>1. \A tls : \A l \in Sockets(s, tls) : l.port \in s.ports
    BY DEF Sockets
  <2>2. \A l \in listeners' : l \in listeners \/ l.port \in s.ports
    BY <1>4, <2>1 DEF start_pingora_server, FailServer
  <2>3. Listening' \subseteq Listening \cup s.ports
    BY <2>2 DEF Listening
  <2>4. booting' \subseteq booting /\ ports' = ports /\ dead_ports' = dead_ports
    BY <1>4 DEF start_pingora_server, FailServer, controlVars
  <2> QED BY <2>3, <2>4 DEF PortBookkeeping
<1>5. CASE UNCHANGED vars
  BY <1>5 DEF vars, controlVars, PortBookkeeping, Listening
<1>6. ASSUME Shutdown PROVE PortBookkeeping'
  BY <1>6 DEF Shutdown, PortBookkeeping, Listening
<1>7. ASSUME set_cache_ttl PROVE PortBookkeeping'
  BY <1>7 DEF set_cache_ttl, PortBookkeeping, Listening
<1> QED BY <1>1, <1>2, <1>3, <1>4, <1>5, <1>6, <1>7 DEF Next, Control, Boot

\* No port is both live and dead, and no socket and no starting server is on a
\* port the manager has forgotten (proxy.rs, add_route_with_tls and
\* remove_routes).
THEOREM PortsAccountedFor == Spec => []PortBookkeeping
<1>1. Init => PortBookkeeping
  BY DEF Init, PortBookkeeping, Listening
<1>2. PortBookkeeping /\ [Next]_vars => PortBookkeeping'
  BY NextKeepsBookkeeping
<1> QED BY <1>1, <1>2, PTL DEF Spec

-----------------------------------------------------------------------------
\* What makes SocketsAgree inductive: outside the ports TLS came late to, every
\* socket, and every socket a starting server is going to bind, is what tls_ports
\* says now, and not only what it said when the server was started.
TlsBooked ==
  /\ \A l \in listeners : l.port \notin late_tls => l.tls = (l.port \in tls_ports)
  /\ \A s \in booting : \A p \in s.ports \ late_tls : p \in s.tls <=> p \in tls_ports

\* A port that becomes a TLS port either has no socket and no server on its way to
\* it yet, because both would be on a live or a dead port, or TLS came late to it.
LEMMA AddKeepsTls ==
  ASSUME NEW name, NEW port, NEW host, NEW backend, NEW ssl, NEW live, NEW dead,
         Listening \subseteq live \cup dead,
         \A s \in booting : s.ports \subseteq live \cup dead,
         TlsBooked,
         AddRoute(name, port, host, backend, ssl, live, dead)
  PROVE  TlsBooked'
<1>1. listeners' = listeners
  BY DEF AddRoute
<1>2. CASE ssl \in BadCerts
  BY <1>1, <1>2 DEF AddRoute, TlsBooked
<1>3. CASE ssl \notin BadCerts
  <2>1. /\ late_tls \subseteq late_tls'
        /\ tls_ports' = tls_ports \/ tls_ports' = tls_ports \cup {port}
    BY <1>3 DEF AddRoute
  <2>2. \A p \in (live \cup dead) \ late_tls' : p \in tls_ports' <=> p \in tls_ports
    BY <1>3 DEF AddRoute
  <2>3. \A l \in listeners : l.port \in live \cup dead
    BY DEF Listening
  <2>4. \A l \in listeners' : l.port \notin late_tls' => l.tls = (l.port \in tls_ports')
    BY <1>1, <2>1, <2>2, <2>3 DEF TlsBooked
  <2>5. \A s \in booting' : s \in booting \/ s = [ports |-> ports', tls |-> tls_ports']
    BY <1>3 DEF AddRoute
  <2>6. \A s \in booting' : \A p \in s.ports \ late_tls' : p \in s.tls <=> p \in tls_ports'
    <3> SUFFICES ASSUME NEW s \in booting', NEW p \in s.ports \ late_tls'
                 PROVE  p \in s.tls <=> p \in tls_ports'
      OBVIOUS
    <3>1. CASE s \in booting
      BY <2>1, <2>2, <3>1 DEF TlsBooked
    <3>2. CASE s = [ports |-> ports', tls |-> tls_ports']
      BY <3>2
    <3> QED BY <2>5, <3>1, <3>2
  <2> QED BY <2>4, <2>6 DEF TlsBooked
<1> QED BY <1>2, <1>3

\* Every step keeps what tls_ports says of the sockets.
LEMMA NextKeepsTls ==
  ASSUME PortBookkeeping, TlsBooked, [Next]_vars
  PROVE  TlsBooked'
<1>1. ASSUME NEW n, NEW p, NEW h, NEW b, NEW ssl, add_route_with_tls(n, p, h, b, ssl)
      PROVE  TlsBooked'
  BY <1>1, AddKeepsTls DEF add_route_with_tls, PortBookkeeping
<1>2. ASSUME NEW n, remove_routes(n) PROVE TlsBooked'
  BY <1>2 DEF remove_routes, TlsBooked
<1>3. ASSUME NEW n, NEW p, NEW h, NEW b, move_route(n, p, h, b) PROVE TlsBooked'
  <2> DEFINE live == ports \ Orphaned(routes, n)
             dead == dead_ports \cup Orphaned(routes, n)
  <2>1. ports \cup dead_ports \subseteq live \cup dead
    OBVIOUS
  <2>2. AddRoute(n, p, h, b, None, live, dead)
    BY <1>3 DEF move_route
  <2> HIDE DEF live, dead
  <2>3. /\ Listening \subseteq live \cup dead
        /\ \A s \in booting : s.ports \subseteq live \cup dead
    BY <2>1 DEF PortBookkeeping
  <2> QED BY <2>2, <2>3, AddKeepsTls
<1>4. ASSUME NEW s \in booting, start_pingora_server(s) PROVE TlsBooked'
  <2>1. \A l \in Sockets(s, s.tls) : l.port \in s.ports /\ l.tls = (l.port \in s.tls)
    BY DEF Sockets
  <2>2. /\ listeners' = listeners \cup Sockets(s, s.tls) /\ booting' \subseteq booting
        /\ tls_ports' = tls_ports /\ late_tls' = late_tls
    BY <1>4 DEF start_pingora_server, controlVars
  <2>3. \A l \in Sockets(s, s.tls) : l.port \notin late_tls => l.tls = (l.port \in tls_ports)
    BY <2>1 DEF TlsBooked
  <2> QED BY <2>2, <2>3 DEF TlsBooked
<1>5. ASSUME NEW s \in booting, FailServer(s) PROVE TlsBooked'
  <2>1. tls_ports' = tls_ports /\ booting' \subseteq booting
    BY <1>5 DEF FailServer, controlVars
  <2>2. CASE listeners' = listeners /\ late_tls' = late_tls
    BY <2>1, <2>2 DEF TlsBooked
  <2>3. CASE /\ listeners' = listeners \cup Sockets(s, {})
             /\ late_tls' = late_tls \cup (s.ports \cap s.tls)
    <3>1. \A l \in Sockets(s, {}) : l.port \in s.ports /\ l.tls = (l.port \in {})
      BY DEF Sockets
    <3>2. \A l \in Sockets(s, {}) : l.port \notin late_tls' => l.port \notin tls_ports
      BY <2>3, <3>1 DEF TlsBooked
    <3>3. \A l \in Sockets(s, {}) : l.port \notin late_tls' => l.tls = (l.port \in tls_ports)
      <4> SUFFICES ASSUME NEW l \in Sockets(s, {}), l.port \notin late_tls'
                   PROVE  l.tls = (l.port \in tls_ports)
        OBVIOUS
      <4>1. l.tls = (l.port \in {}) /\ l.port \notin tls_ports
        BY <3>1, <3>2
      <4>2. (l.port \in {}) = (l.port \in tls_ports)
        BY <4>1
      <4> QED BY <4>1, <4>2
    <3> QED BY <2>1, <2>3, <3>3 DEF TlsBooked
  <2> QED BY <1>5, <2>2, <2>3 DEF FailServer
<1>6. CASE UNCHANGED vars
  BY <1>6 DEF vars, controlVars, TlsBooked
<1>7. ASSUME Shutdown PROVE TlsBooked'
  BY <1>7 DEF Shutdown, TlsBooked
<1>8. ASSUME set_cache_ttl PROVE TlsBooked'
  BY <1>8 DEF set_cache_ttl, TlsBooked
<1> QED BY <1>1, <1>2, <1>3, <1>4, <1>5, <1>6, <1>7, <1>8 DEF Next, Control, Boot

\* The sockets of a port, which servers started at different times have bound, all
\* speak TLS or none does, unless TLS came late to the port (proxy.rs,
\* start_pingora_server).
THEOREM SocketsOfPortAgree == Spec => []SocketsAgree
<1>1. Init => TlsBooked
  BY DEF Init, TlsBooked
<1>2. PortBookkeeping /\ TlsBooked /\ [Next]_vars => TlsBooked'
  BY NextKeepsTls
<1>3. TlsBooked => SocketsAgree
  BY DEF TlsBooked, SocketsAgree
<1> QED BY <1>1, <1>2, <1>3, PortsAccountedFor, PTL DEF Spec

-----------------------------------------------------------------------------
\* Every nonempty set of natural numbers has a least element.
LEMMA LeastExists ==
  ASSUME NEW T, T \subseteq Nat, T # {}
  PROVE  \E x \in T : \A y \in T : x <= y
<1> DEFINE R == {ss \in Nat \X Nat : ss[1] < ss[2]}
<1>1. OpToRel(<, Nat) = R
  BY Zenon DEF OpToRel
<1>2. IsWellFoundedOn(R, Nat)
  BY <1>1, NatLessThanWellFounded, Zenon
<1>3. \A x, y \in Nat : <<y, x>> \in R <=> y < x
  OBVIOUS
<1> HIDE DEF R
<1>4. \E x \in T : \A y \in T : ~(<<y, x>> \in R)
  BY <1>2, WFMin, Zenon
<1>5. PICK x \in T : \A y \in T : ~(<<y, x>> \in R)
  BY <1>4
<1>6. ASSUME NEW y \in T PROVE x <= y
  <2>1. x \in Nat /\ y \in Nat
    OBVIOUS
  <2>2. ~(y < x)
    BY <1>3, <1>5, <2>1, Zenon
  <2> QED BY <2>1, <2>2
<1> QED BY <1>6

\* Induction on the natural numbers, for a set.
LEMMA SetInduction ==
  ASSUME NEW S, 0 \in S, \A n \in Nat : n \in S => n + 1 \in S
  PROVE  Nat \subseteq S
<1> SUFFICES ASSUME Nat \ S # {} PROVE FALSE
  OBVIOUS
<1>1. PICK x \in Nat \ S : \A y \in Nat \ S : x <= y
  BY LeastExists
<1>2. x # 0 /\ x - 1 \in Nat /\ x - 1 \in S
  BY <1>1
<1>3. (x - 1) + 1 = x
  BY <1>1
<1> QED BY <1>1, <1>2, <1>3

\* The least number of a set, as find takes it.
LEMMA MinIsLeast ==
  ASSUME NEW T, T \subseteq Nat, T # {}
  PROVE  Min(T) \in T /\ \A y \in T : Min(T) <= y
<1>1. \E x \in T : \A y \in T : x <= y
  BY LeastExists
<1> QED BY <1>1 DEF Min

-----------------------------------------------------------------------------
\* f is the function retain that OtherRoutes defines, up to n.
Retains(rs, name, n, f) ==
  f = [m \in 0..n |-> IF m = 0 THEN <<>>
                      ELSE IF rs[m].name = name THEN f[m - 1]
                      ELSE Append(f[m - 1], rs[m])]

\* The recursive definition of retain has a solution.
LEMMA RetainExists ==
  ASSUME NEW rs, NEW name
  PROVE  \A n \in Nat : \E f : Retains(rs, name, n, f)
<1> DEFINE S == {n \in Nat : \E f : Retains(rs, name, n, f)}
           Next1(f, m) == IF m = 0 THEN <<>>
                          ELSE IF rs[m].name = name THEN f[m - 1]
                          ELSE Append(f[m - 1], rs[m])
<1>1. 0 \in S
  <2> DEFINE f == [m \in 0..0 |-> <<>>]
  <2>1. f = [m \in 0..0 |-> Next1(f, m)]
    OBVIOUS
  <2>2. Retains(rs, name, 0, f)
    BY <2>1 DEF Retains
  <2> QED BY <2>2
<1>2. ASSUME NEW n \in S PROVE n + 1 \in S
  <2>1. PICK f : Retains(rs, name, n, f)
    OBVIOUS
  <2> DEFINE g == [m \in 0..n + 1 |-> IF m = n + 1 THEN Next1(f, n + 1) ELSE f[m]]
  <2>2. \A m \in 0..n : g[m] = f[m]
    BY SMT
  <2>3. \A m \in 0..n : f[m] = Next1(f, m)
    BY <2>1 DEF Retains
  <2>4. \A m \in 0..n + 1 : g[m] = Next1(g, m)
    BY <2>2, <2>3
  <2>5. g = [m \in 0..n + 1 |-> Next1(g, m)]
    BY <2>4
  <2>6. Retains(rs, name, n + 1, g)
    BY <2>5 DEF Retains
  <2> HIDE DEF g
  <2> QED BY <2>6
<1> HIDE DEF S
<1>3. Nat \subseteq S
  BY <1>1, <1>2, SetInduction
<1> QED BY <1>3 DEF S

\* OtherRoutes is the value of such a function.
LEMMA RetainUsed ==
  ASSUME NEW rs, NEW name, Len(rs) \in Nat
  PROVE  \E f : Retains(rs, name, Len(rs), f) /\ OtherRoutes(rs, name) = f[Len(rs)]
<1>1. \E f : Retains(rs, name, Len(rs), f)
  BY RetainExists
<1> DEFINE k == CHOOSE f : Retains(rs, name, Len(rs), f)
<1>2. Retains(rs, name, Len(rs), k)
  BY <1>1
<1>3. OtherRoutes(rs, name) = k[Len(rs)]
  BY DEF OtherRoutes, Retains
<1> QED BY <1>2, <1>3

\* The sequence s holds, in their order and once each, the elements of rs up to n that
\* are not of the application: h says where each one is in rs.
Keeps(rs, name, n, s, h) ==
  /\ h \in [1..Len(s) -> 1..n]
  /\ \A i, j \in 1..Len(s) : i < j => h[i] < h[j]
  /\ \A i \in 1..Len(s) : s[i] = rs[h[i]] /\ rs[h[i]].name # name
  /\ \A j \in 1..n : rs[j].name # name => \E i \in 1..Len(s) : h[i] = j

\* What retain keeps, step by step.
LEMMA RetainStep ==
  ASSUME NEW T, NEW rs \in Seq(T), NEW name, NEW n \in Nat, n + 1 <= Len(rs),
         NEW s \in Seq(T), NEW h, Keeps(rs, name, n, s, h),
         NEW t, t = IF rs[n + 1].name = name THEN s ELSE Append(s, rs[n + 1])
  PROVE  t \in Seq(T) /\ \E g : Keeps(rs, name, n + 1, t, g)
<1>1. rs[n + 1] \in T
  OBVIOUS
<1>2. CASE rs[n + 1].name = name
  <2>1. Keeps(rs, name, n + 1, s, h)
    BY <1>2 DEF Keeps
  <2> QED BY <1>2, <2>1
<1>3. CASE rs[n + 1].name # name
  <2>1. /\ t = Append(s, rs[n + 1]) /\ t \in Seq(T) /\ Len(t) = Len(s) + 1
        /\ t[Len(s) + 1] = rs[n + 1] /\ \A i \in 1..Len(s) : t[i] = s[i]
    BY <1>1, <1>3
  <2> DEFINE g == [i \in 1..Len(s) + 1 |-> IF i = Len(s) + 1 THEN n + 1 ELSE h[i]]
  <2>2. g[Len(s) + 1] = n + 1 /\ \A i \in 1..Len(s) : g[i] = h[i]
    BY SMT
  <2>3. g \in [1..Len(t) -> 1..n + 1]
    BY <2>1 DEF Keeps
  <2> HIDE DEF g
  <2>4. \A i \in 1..Len(s) : h[i] \in 1..n
    BY DEF Keeps
  <2>5. \A i, j \in 1..Len(t) : i < j => g[i] < g[j]
    BY <2>1, <2>2, <2>4 DEF Keeps
  <2>6. \A i \in 1..Len(t) : t[i] = rs[g[i]] /\ rs[g[i]].name # name
    BY <1>3, <2>1, <2>2 DEF Keeps
  <2>7. \A j \in 1..n + 1 : rs[j].name # name => \E i \in 1..Len(t) : g[i] = j
    <3> SUFFICES ASSUME NEW j \in 1..n + 1, rs[j].name # name
                 PROVE  \E i \in 1..Len(t) : g[i] = j
      OBVIOUS
    <3>1. CASE j = n + 1
      <4>1. Len(s) + 1 \in 1..Len(t)
        BY <2>1
      <4> QED BY <2>2, <3>1, <4>1
    <3>2. CASE j \in 1..n
      <4>1. PICK i \in 1..Len(s) : h[i] = j
        BY <3>2 DEF Keeps
      <4>2. i \in 1..Len(t)
        BY <2>1
      <4> QED BY <2>2, <4>1, <4>2
    <3> QED BY <3>1, <3>2
  <2>8. Keeps(rs, name, n + 1, t, g)
    BY <2>3, <2>5, <2>6, <2>7 DEF Keeps
  <2> QED BY <2>1, <2>8
<1> QED BY <1>2, <1>3

\* OtherRoutes keeps the routes of the other applications, in their order.
LEMMA OthersKept ==
  ASSUME NEW T, NEW rs \in Seq(T), NEW name
  PROVE  /\ OtherRoutes(rs, name) \in Seq(T)
         /\ \E h : Keeps(rs, name, Len(rs), OtherRoutes(rs, name), h)
<1>0. Len(rs) \in Nat
  OBVIOUS
<1>1. PICK f : Retains(rs, name, Len(rs), f) /\ OtherRoutes(rs, name) = f[Len(rs)]
  BY <1>0, RetainUsed
<1>2. \A m \in 0..Len(rs) : f[m] = IF m = 0 THEN <<>>
                                   ELSE IF rs[m].name = name THEN f[m - 1]
                                   ELSE Append(f[m - 1], rs[m])
  BY <1>1 DEF Retains
<1> DEFINE S == {n \in Nat : n <= Len(rs) => f[n] \in Seq(T) /\ \E h : Keeps(rs, name, n, f[n], h)}
<1>3. 0 \in S
  <2>0. f[0] = <<>>
    <3>1. 0 \in 0..Len(rs)
      BY <1>0
    <3> QED BY <1>2, <3>1
  <2>1. f[0] \in Seq(T) /\ Len(f[0]) = 0
    BY <2>0
  <2>2. 1..Len(f[0]) = {} /\ 1..0 = {}
    BY <2>1
  <2>3. Keeps(rs, name, 0, f[0], [i \in {} |-> 0])
    BY <2>2 DEF Keeps
  <2> QED BY <2>1, <2>3
<1>4. ASSUME NEW n \in Nat, n \in S PROVE n + 1 \in S
  <2> SUFFICES ASSUME n + 1 <= Len(rs)
               PROVE  f[n + 1] \in Seq(T) /\ \E h : Keeps(rs, name, n + 1, f[n + 1], h)
    OBVIOUS
  <2>1. f[n] \in Seq(T) /\ \E h : Keeps(rs, name, n, f[n], h)
    BY <1>0, <1>4
  <2>2. PICK h : Keeps(rs, name, n, f[n], h)
    BY <2>1
  <2>3. f[n + 1] = IF rs[n + 1].name = name THEN f[n] ELSE Append(f[n], rs[n + 1])
    BY <1>0, <1>2
  <2> QED BY <2>1, <2>2, <2>3, RetainStep
<1> HIDE DEF S
<1>5. Len(rs) \in S
  BY <1>0, <1>3, <1>4, SetInduction
<1> QED BY <1>0, <1>1, <1>5 DEF S

\* As sets: the routes of the others, and no others.
LEMMA OthersAre ==
  ASSUME NEW T, NEW rs \in Seq(T), NEW name
  PROVE  /\ \A i \in DOMAIN OtherRoutes(rs, name) :
              \E j \in DOMAIN rs : OtherRoutes(rs, name)[i] = rs[j] /\ rs[j].name # name
         /\ \A j \in DOMAIN rs : rs[j].name # name =>
              \E i \in DOMAIN OtherRoutes(rs, name) : OtherRoutes(rs, name)[i] = rs[j]
<1>1. PICK o : o = OtherRoutes(rs, name)
  OBVIOUS
<1>2. o \in Seq(T) /\ \E h : Keeps(rs, name, Len(rs), o, h)
  BY <1>1, OthersKept
<1>3. PICK h : Keeps(rs, name, Len(rs), o, h)
  BY <1>2
<1>4. DOMAIN o = 1..Len(o) /\ DOMAIN rs = 1..Len(rs)
  BY <1>2
<1>5. \A i \in 1..Len(o) : h[i] \in 1..Len(rs) /\ o[i] = rs[h[i]] /\ rs[h[i]].name # name
  BY <1>3 DEF Keeps
<1>6. \A j \in 1..Len(rs) : rs[j].name # name => \E i \in 1..Len(o) : o[i] = rs[j]
  BY <1>3, <1>5 DEF Keeps
<1> QED BY <1>1, <1>4, <1>5, <1>6

\* A port that loses its last route had one.
LEMMA OrphanedArePorts ==
  ASSUME NEW rs \in Seq(RouteType), NEW name
  PROVE  Orphaned(rs, name) \subseteq Ports
<1>1. \A r \in RouteType : r.port \in Ports
  BY DEF RouteType
<1>2. \A i \in DOMAIN rs : rs[i] \in RouteType
  OBVIOUS
<1> QED BY <1>1, <1>2 DEF Orphaned, PortsOfApp

\* A route at the end of the table.
LEMMA AppendIs ==
  ASSUME NEW T, NEW o \in Seq(T), NEW r
  PROVE  /\ DOMAIN Append(o, r) = 1..Len(o) + 1
         /\ Append(o, r)[Len(o) + 1] = r
         /\ \A i \in 1..Len(o) : Append(o, r)[i] = o[i]
<1>1. o \in Seq(T \cup {r}) /\ r \in T \cup {r}
  OBVIOUS
<1> QED BY <1>1

-----------------------------------------------------------------------------
\* add_route_with_tls keeps the types.
LEMMA AddTyped ==
  ASSUME TypeOK, NEW name \in Names, NEW port \in Ports, NEW host \in Hosts \cup {None},
         NEW backend \in Backends, NEW ssl, NEW live \in SUBSET Ports, NEW dead \in SUBSET Ports,
         AddRoute(name, port, host, backend, ssl, live, dead)
  PROVE  TypeOK'
<1>1. routes' \in Seq(RouteType)
  <2>1. OtherRoutes(routes, name) \in Seq(RouteType)
    BY OthersKept DEF TypeOK
  <2>2. [name |-> name, port |-> port, host |-> host, backend |-> backend] \in RouteType
    BY DEF RouteType
  <2> QED BY <2>1, <2>2 DEF AddRoute
<1>2. ports' \subseteq Ports /\ dead_ports' \subseteq Ports
  BY DEF AddRoute
<1>3. tls_ports' \subseteq Ports /\ late_tls' \subseteq Ports /\ failed' \subseteq Ports
  BY DEF AddRoute, TypeOK
<1>4. booting' \subseteq ServerType
  <2>1. [ports |-> ports', tls |-> tls_ports'] \in ServerType
    BY <1>2, <1>3 DEF ServerType
  <2> QED BY <2>1 DEF AddRoute, TypeOK
<1>5. certs' \subseteq Hosts \cup {None} /\ rejected' \subseteq Names
  BY DEF AddRoute, TypeOK
<1> QED BY <1>1, <1>2, <1>3, <1>4, <1>5 DEF AddRoute, TypeOK

\* Every step keeps the types.
LEMMA NextTyped ==
  ASSUME TypeOK, [Next]_vars
  PROVE  TypeOK'
<1>1. ASSUME NEW n \in Names, NEW p \in Ports, NEW h \in Hosts \cup {None}, NEW b \in Backends,
             NEW ssl, add_route_with_tls(n, p, h, b, ssl)
      PROVE  TypeOK'
  BY <1>1, AddTyped DEF add_route_with_tls, TypeOK
<1>2. ASSUME NEW n \in Names, NEW p \in Ports, NEW h \in Hosts \cup {None}, NEW b \in Backends,
             move_route(n, p, h, b)
      PROVE  TypeOK'
  <2>1. ports \ Orphaned(routes, n) \in SUBSET Ports
    BY DEF TypeOK
  <2>2. dead_ports \cup Orphaned(routes, n) \in SUBSET Ports
    BY OrphanedArePorts DEF TypeOK
  <2> QED BY <1>2, <2>1, <2>2, AddTyped DEF move_route
<1>3. ASSUME NEW n \in Names, remove_routes(n) PROVE TypeOK'
  <2>1. routes' \in Seq(RouteType)
    BY <1>3, OthersKept DEF TypeOK, remove_routes
  <2>2. Orphaned(routes, n) \subseteq Ports
    BY OrphanedArePorts DEF TypeOK
  <2> QED BY <1>3, <2>1, <2>2 DEF TypeOK, remove_routes
<1>4. ASSUME set_cache_ttl PROVE TypeOK'
  BY <1>4, ProxyAssumption DEF set_cache_ttl, TypeOK
<1>5. ASSUME NEW s \in booting, start_pingora_server(s) \/ FailServer(s)
      PROVE  TypeOK'
  <2>1. s.ports \subseteq Ports
    BY DEF TypeOK, ServerType
  <2>2. \A tls : Sockets(s, tls) \subseteq ListenerType
    <3>1. \A tls : \A p \in s.ports : [port |-> p, tls |-> p \in tls] \in ListenerType
      BY <2>1 DEF ListenerType
    <3> QED BY <3>1 DEF Sockets
  <2>3. listeners' \subseteq ListenerType /\ failed' \subseteq Ports /\ late_tls' \subseteq Ports
    BY <1>5, <2>1, <2>2 DEF TypeOK, start_pingora_server, FailServer
  <2>4. booting' \subseteq ServerType /\ UNCHANGED controlVars
    BY <1>5 DEF TypeOK, start_pingora_server, FailServer
  <2> QED BY <2>3, <2>4 DEF TypeOK, controlVars
<1>6. ASSUME Shutdown PROVE TypeOK'
  BY <1>6, ProxyAssumption DEF Shutdown, TypeOK
<1>7. CASE UNCHANGED vars
  BY <1>7 DEF vars, controlVars, TypeOK
<1> QED BY <1>1, <1>2, <1>3, <1>4, <1>5, <1>6, <1>7 DEF Next, Control, Boot

\* The type invariant of ProxyManager: among others, retain never leaves anything but
\* routes in the table.
THEOREM TypeCorrect == Spec => []TypeOK
<1>1. Init => TypeOK
  BY ProxyAssumption DEF Init, TypeOK
<1>2. TypeOK /\ [Next]_vars => TypeOK'
  BY NextTyped
<1> QED BY <1>1, <1>2, PTL DEF Spec

-----------------------------------------------------------------------------
\* The ports of the other applications stay open when an application's routes go.
LEMMA OthersStayServed ==
  ASSUME NEW rs \in Seq(RouteType), NEW name, NEW live, NEW out,
         \A i \in DOMAIN rs : rs[i].name \notin out => rs[i].port \in live
  PROVE  \A i \in DOMAIN OtherRoutes(rs, name) :
           /\ OtherRoutes(rs, name)[i].name # name
           /\ OtherRoutes(rs, name)[i].name \notin out
                => OtherRoutes(rs, name)[i].port \in live \ Orphaned(rs, name)
<1>1. PICK o : o = OtherRoutes(rs, name)
  OBVIOUS
<1>2. \A i \in DOMAIN o : o[i].port \in PortsOf(o)
  BY DEF PortsOf
<1>3. \A i \in DOMAIN o : \E j \in DOMAIN rs : o[i] = rs[j] /\ rs[j].name # name
  BY <1>1, OthersAre
<1>4. \A i \in DOMAIN o : o[i].port \notin Orphaned(rs, name)
  BY <1>1, <1>2 DEF Orphaned
<1> QED BY <1>1, <1>3, <1>4

\* add_route_with_tls leaves the accepted routes on live ports.
LEMMA AddServed ==
  ASSUME TypeOK, NEW name, NEW port, NEW host, NEW backend, NEW ssl, NEW live, NEW dead,
         \A i \in DOMAIN OtherRoutes(routes, name) :
           /\ OtherRoutes(routes, name)[i].name # name
           /\ OtherRoutes(routes, name)[i].name \notin rejected
                => OtherRoutes(routes, name)[i].port \in live,
         AddRoute(name, port, host, backend, ssl, live, dead)
  PROVE  RoutesServed'
<1>1. PICK o, r : /\ o = OtherRoutes(routes, name)
                  /\ r = [name |-> name, port |-> port, host |-> host, backend |-> backend]
  OBVIOUS
<1>2. o \in Seq(RouteType) /\ routes' = Append(o, r) /\ r.name = name /\ r.port = port
  BY <1>1, OthersKept DEF AddRoute, TypeOK
<1>3. DOMAIN routes' = 1..Len(o) + 1 /\ routes'[Len(o) + 1] = r
      /\ \A i \in 1..Len(o) : routes'[i] = o[i]
  BY <1>2, AppendIs
<1>4. DOMAIN o = 1..Len(o) /\ Len(o) \in Nat
  BY <1>2
<1>5. \A i \in 1..Len(o) : o[i].name # name /\ (o[i].name \notin rejected => o[i].port \in live)
  BY <1>1, <1>4
<1>6. CASE ssl \in BadCerts
  <2>1. rejected' = rejected \cup {name} /\ ports' = live
    BY <1>6 DEF AddRoute
  <2> QED BY <1>2, <1>3, <1>4, <1>5, <2>1 DEF RoutesServed
<1>7. CASE ssl \notin BadCerts
  <2>1. rejected' = rejected \ {name} /\ ports' = live \cup {port}
    BY <1>7 DEF AddRoute
  <2> QED BY <1>2, <1>3, <1>4, <1>5, <2>1 DEF RoutesServed
<1> QED BY <1>6, <1>7

\* Every step leaves the accepted routes on live ports.
LEMMA NextServed ==
  ASSUME TypeOK, RoutesServed, [Next]_vars
  PROVE  RoutesServed'
<1>0. \A n : \A i \in DOMAIN OtherRoutes(routes, n) :
        /\ OtherRoutes(routes, n)[i].name # n
        /\ OtherRoutes(routes, n)[i].name \notin rejected
             => OtherRoutes(routes, n)[i].port \in ports \ Orphaned(routes, n)
  BY OthersStayServed DEF TypeOK, RoutesServed
<1>1. ASSUME NEW n, NEW p, NEW h, NEW b, NEW ssl, add_route_with_tls(n, p, h, b, ssl)
      PROVE  RoutesServed'
  BY <1>0, <1>1, AddServed DEF add_route_with_tls
<1>2. ASSUME NEW n, NEW p, NEW h, NEW b, move_route(n, p, h, b) PROVE RoutesServed'
  BY <1>0, <1>2, AddServed DEF move_route
<1>3. ASSUME NEW n, remove_routes(n) PROVE RoutesServed'
  BY <1>0, <1>3 DEF remove_routes, RoutesServed
<1>4. ASSUME NEW s \in booting, start_pingora_server(s) \/ FailServer(s)
      PROVE  RoutesServed'
  BY <1>4 DEF start_pingora_server, FailServer, controlVars, RoutesServed
<1>5. ASSUME Shutdown PROVE RoutesServed'
  BY <1>5 DEF Shutdown, RoutesServed
<1>6. ASSUME set_cache_ttl PROVE RoutesServed'
  BY <1>6 DEF set_cache_ttl, RoutesServed
<1>7. CASE UNCHANGED vars
  BY <1>7 DEF vars, controlVars, RoutesServed
<1> QED BY <1>1, <1>2, <1>3, <1>4, <1>5, <1>6, <1>7 DEF Next, Control, Boot

\* A route that was accepted is on a live port, whatever was added, moved and removed
\* for others before and after it (proxy.rs, remove_routes: a port is closed only when
\* no route of another application is on it).
THEOREM AcceptedRoutesServed == Spec => []RoutesServed
<1>1. Init => RoutesServed
  BY DEF Init, RoutesServed
<1>2. TypeOK /\ RoutesServed /\ [Next]_vars => RoutesServed'
  BY NextServed
<1> QED BY <1>1, <1>2, TypeCorrect, PTL DEF Spec

-----------------------------------------------------------------------------
\* The first match of a table is a route of the table that matches.
LEMMA FirstMatch ==
  ASSUME NEW rs \in Seq(RouteType), NEW p, NEW h, Matching(rs, p, h) # {}
  PROVE  /\ Min(Matching(rs, p, h)) \in Matching(rs, p, h)
         /\ \A j \in Matching(rs, p, h) : Min(Matching(rs, p, h)) <= j
         /\ rs[Min(Matching(rs, p, h))] \in RouteType
         /\ rs[Min(Matching(rs, p, h))].host = h
<1>1. Matching(rs, p, h) \subseteq 1..Len(rs)
  BY DEF Matching
<1>2. Matching(rs, p, h) \subseteq Nat
  BY <1>1
<1>3. /\ Min(Matching(rs, p, h)) \in Matching(rs, p, h)
      /\ \A j \in Matching(rs, p, h) : Min(Matching(rs, p, h)) <= j
  BY <1>2, MinIsLeast
<1> QED BY <1>1, <1>3 DEF Matching

\* retain keeps the first match, unless it is of the application that goes.
LEMMA FirstMatchKept ==
  ASSUME NEW rs \in Seq(RouteType), NEW x, NEW p, NEW h, Matching(rs, p, h) # {},
         rs[Min(Matching(rs, p, h))].name # x,
         NEW o, o = OtherRoutes(rs, x)
  PROVE  Matching(o, p, h) # {} /\ o[Min(Matching(o, p, h))] = rs[Min(Matching(rs, p, h))]
<1>1. o \in Seq(RouteType) /\ \E g : Keeps(rs, x, Len(rs), o, g)
  BY OthersKept
<1>2. PICK g : Keeps(rs, x, Len(rs), o, g)
  BY <1>1
<1>3. PICK m \in Matching(rs, p, h) : /\ m = Min(Matching(rs, p, h))
                                      /\ \A j \in Matching(rs, p, h) : m <= j
  BY FirstMatch
<1>4. /\ m \in 1..Len(rs) /\ rs[m].port = p /\ rs[m].host = h /\ rs[m].name # x
      /\ DOMAIN o = 1..Len(o) /\ DOMAIN rs = 1..Len(rs) /\ Len(o) \in Nat /\ Len(rs) \in Nat
  BY <1>1, <1>3 DEF Matching
<1>5. PICK i \in 1..Len(o) : g[i] = m
  BY <1>2, <1>4 DEF Keeps
<1>6. \A k \in 1..Len(o) : g[k] \in 1..Len(rs) /\ o[k] = rs[g[k]]
  BY <1>2 DEF Keeps
<1>7. i \in Matching(o, p, h)
  BY <1>4, <1>5, <1>6 DEF Matching
<1>8. PICK k \in Matching(o, p, h) : k = Min(Matching(o, p, h)) /\ k <= i
  BY <1>1, <1>7, FirstMatch
<1>9. k \in 1..Len(o) /\ g[k] \in Matching(rs, p, h)
  BY <1>4, <1>6, <1>8 DEF Matching
<1>10. m <= g[k] /\ ~(k < i)
  <2>1. k < i => g[k] < g[i]
    BY <1>2, <1>9 DEF Keeps
  <2> QED BY <1>3, <1>4, <1>5, <1>6, <1>9, <2>1
<1>11. k = i
  BY <1>8, <1>9, <1>10
<1> QED BY <1>3, <1>5, <1>6, <1>7, <1>8, <1>11

\* retain adds no match.
LEMMA NoMatchKept ==
  ASSUME NEW rs \in Seq(RouteType), NEW x, NEW p, NEW h, Matching(rs, p, h) = {},
         NEW o, o = OtherRoutes(rs, x)
  PROVE  Matching(o, p, h) = {}
<1>1. \A i \in DOMAIN o : \E j \in DOMAIN rs : o[i] = rs[j]
  BY OthersAre
<1> QED BY <1>1 DEF Matching

\* A table with one more route at its end.
Longer(a, o, r) == a = Append(o, r)

\* What matches in it.
LEMMA MatchesOfAppend ==
  ASSUME NEW o \in Seq(RouteType), NEW r \in RouteType, NEW p, NEW h,
         NEW a, Longer(a, o, r)
  PROVE  /\ a \in Seq(RouteType) /\ Len(o) \in Nat
         /\ a[Len(o) + 1] = r /\ \A i \in 1..Len(o) : a[i] = o[i]
         /\ \A i \in 1..Len(o) : i \in Matching(a, p, h) <=> i \in Matching(o, p, h)
         /\ Matching(a, p, h) \subseteq 1..Len(o) + 1 /\ Matching(o, p, h) \subseteq 1..Len(o)
<1>1. /\ DOMAIN a = 1..Len(o) + 1 /\ a[Len(o) + 1] = r /\ \A i \in 1..Len(o) : a[i] = o[i]
      /\ a \in Seq(RouteType) /\ DOMAIN o = 1..Len(o) /\ Len(o) \in Nat
  BY AppendIs DEF Longer
<1>2. \A i \in 1..Len(o) : i \in Matching(a, p, h) <=> i \in Matching(o, p, h)
  BY <1>1 DEF Matching
<1>3. Matching(a, p, h) \subseteq 1..Len(o) + 1 /\ Matching(o, p, h) \subseteq 1..Len(o)
  BY <1>1 DEF Matching
<1> QED BY <1>1, <1>2, <1>3

\* The first match stays first.
LEMMA AppendKeepsFirst ==
  ASSUME NEW o \in Seq(RouteType), NEW r \in RouteType, NEW p, NEW h, Matching(o, p, h) # {},
         NEW a, Longer(a, o, r)
  PROVE  Matching(a, p, h) # {} /\ a[Min(Matching(a, p, h))] = o[Min(Matching(o, p, h))]
<1>1. /\ a \in Seq(RouteType) /\ Len(o) \in Nat
      /\ Matching(a, p, h) \subseteq 1..Len(o) + 1 /\ Matching(o, p, h) \subseteq 1..Len(o)
  BY MatchesOfAppend
<1>2. \A i \in 1..Len(o) : a[i] = o[i]
  BY AppendIs DEF Longer
<1>3. \A i \in 1..Len(o) : i \in Matching(a, p, h) <=> i \in Matching(o, p, h)
  BY MatchesOfAppend
<1>4. PICK m \in Matching(o, p, h) : /\ m = Min(Matching(o, p, h))
                                     /\ \A j \in Matching(o, p, h) : m <= j
  BY FirstMatch
<1>5. m \in Matching(a, p, h) /\ m \in 1..Len(o)
  BY <1>1, <1>3, <1>4
<1>6. PICK k \in Matching(a, p, h) : k = Min(Matching(a, p, h)) /\ k <= m
  BY <1>1, <1>5, FirstMatch
<1>7. k \in 1..Len(o)
  BY <1>1, <1>5, <1>6
<1>8. k = m
  BY <1>1, <1>3, <1>4, <1>5, <1>6, <1>7
<1> QED BY <1>2, <1>4, <1>5, <1>6, <1>8

\* The new route is the first match only where there was none.
LEMMA AppendIsFirst ==
  ASSUME NEW o \in Seq(RouteType), NEW r \in RouteType, NEW p, NEW h, Matching(o, p, h) = {},
         NEW a, Longer(a, o, r), Matching(a, p, h) # {}
  PROVE  a[Min(Matching(a, p, h))] = r
<1>1. /\ a \in Seq(RouteType) /\ Len(o) \in Nat /\ a[Len(o) + 1] = r
      /\ \A i \in 1..Len(o) : i \notin Matching(a, p, h)
      /\ Matching(a, p, h) \subseteq 1..Len(o) + 1
  BY MatchesOfAppend
<1>2. Min(Matching(a, p, h)) \in Matching(a, p, h)
  BY <1>1, FirstMatch
<1>3. Min(Matching(a, p, h)) = Len(o) + 1
  BY <1>1, <1>2
<1> QED BY <1>1, <1>3

\* A table that was changed for the application x: the first matches of the others are
\* still first, and where nothing matched at most a route of x does.
ChangedFor(x, rs, new) ==
  /\ new \in Seq(RouteType)
  /\ \A p, h :
       /\ Matching(rs, p, h) # {} /\ rs[Min(Matching(rs, p, h))].name # x =>
            /\ Matching(new, p, h) # {}
            /\ new[Min(Matching(new, p, h))] = rs[Min(Matching(rs, p, h))]
       /\ Matching(rs, p, h) = {} /\ Matching(new, p, h) # {} =>
            new[Min(Matching(new, p, h))].name = x

\* Who answers then changes only to or from x, and to x only from a catch-all route.
LEMMA ChangeIsLocal ==
  ASSUME NEW rs \in Seq(RouteType), NEW new, NEW x \in Names, ChangedFor(x, rs, new),
         NEW p, NEW h
  PROVE  /\ Answers(rs, p, h) # Answers(new, p, h) => x \in {Answers(rs, p, h), Answers(new, p, h)}
         /\ Answers(new, p, h) = x /\ Answers(rs, p, h) \notin {x, None}
              => find(rs, p, h).host = None /\ find(new, p, h).host = h /\ h # None
<1> DEFINE exact(t) == Matching(t, p, h)
           rest(t)  == Matching(t, p, None)
<1>0. new \in Seq(RouteType)
  BY DEF ChangedFor
<1>1. \A t \in Seq(RouteType) :
        /\ exact(t) # {} => t[Min(exact(t))] \in RouteType /\ t[Min(exact(t))].host = h
        /\ rest(t) # {} => t[Min(rest(t))] \in RouteType /\ t[Min(rest(t))].host = None
  BY FirstMatch
<1>2. /\ exact(rs) # {} /\ rs[Min(exact(rs))].name # x =>
           exact(new) # {} /\ new[Min(exact(new))] = rs[Min(exact(rs))]
      /\ rest(rs) # {} /\ rs[Min(rest(rs))].name # x =>
           rest(new) # {} /\ new[Min(rest(new))] = rs[Min(rest(rs))]
      /\ exact(rs) = {} /\ exact(new) # {} => new[Min(exact(new))].name = x
      /\ rest(rs) = {} /\ rest(new) # {} => new[Min(rest(new))].name = x
  BY Zenon DEF ChangedFor
<1>3. \A t : find(t, p, h) = IF h # None /\ exact(t) # {} THEN t[Min(exact(t))]
                             ELSE IF rest(t) # {} THEN t[Min(rest(t))] ELSE None
  BY DEF find
<1>4. \A t : Answers(t, p, h) = IF find(t, p, h) = None THEN None ELSE find(t, p, h).name
  BY DEF Answers
<1>5. None \notin RouteType /\ None \notin Names /\ \A r \in RouteType : r.name \in Names
  BY ProxyAssumption DEF RouteType
<1> HIDE DEF exact, rest
<1>6. CASE h # None /\ exact(rs) # {}
  BY <1>0, <1>1, <1>2, <1>3, <1>4, <1>5, <1>6
<1>7. CASE h # None /\ exact(rs) = {} /\ exact(new) # {}
  BY <1>0, <1>1, <1>2, <1>3, <1>4, <1>5, <1>7
<1>8. CASE h = None \/ (exact(rs) = {} /\ exact(new) = {})
  BY <1>0, <1>1, <1>2, <1>3, <1>4, <1>5, <1>8
<1> QED BY <1>6, <1>7, <1>8

\* remove_routes changes the table for one application.
LEMMA RemoveIsLocal ==
  ASSUME NEW rs \in Seq(RouteType), NEW x
  PROVE  ChangedFor(x, rs, OtherRoutes(rs, x))
<1>1. OtherRoutes(rs, x) \in Seq(RouteType)
  BY OthersKept
<1> QED BY <1>1, FirstMatchKept, NoMatchKept DEF ChangedFor

\* add_route_with_tls too: the route of r is put at the end of what is left.
LEMMA AddIsLocal ==
  ASSUME NEW rs \in Seq(RouteType), NEW r \in RouteType
  PROVE  ChangedFor(r.name, rs, Append(OtherRoutes(rs, r.name), r))
<1>1. PICK o : o = OtherRoutes(rs, r.name)
  OBVIOUS
<1>2. PICK a : Longer(a, o, r)
  BY DEF Longer
<1>3. o \in Seq(RouteType)
  BY <1>1, OthersKept
<1>4. a \in Seq(RouteType)
  BY <1>2, <1>3 DEF Longer
<1>5. ASSUME NEW p, NEW h, Matching(rs, p, h) # {}, rs[Min(Matching(rs, p, h))].name # r.name
      PROVE  Matching(a, p, h) # {} /\ a[Min(Matching(a, p, h))] = rs[Min(Matching(rs, p, h))]
  <2>1. Matching(o, p, h) # {} /\ o[Min(Matching(o, p, h))] = rs[Min(Matching(rs, p, h))]
    BY <1>1, <1>5, FirstMatchKept
  <2>2. Matching(a, p, h) # {} /\ a[Min(Matching(a, p, h))] = o[Min(Matching(o, p, h))]
    BY <1>2, <1>3, <2>1, AppendKeepsFirst
  <2> QED BY <2>1, <2>2
<1>6. ASSUME NEW p, NEW h, Matching(rs, p, h) = {}, Matching(a, p, h) # {}
      PROVE  a[Min(Matching(a, p, h))].name = r.name
  <2>1. Matching(o, p, h) = {}
    BY <1>1, <1>6, NoMatchKept
  <2> QED BY <1>2, <1>3, <1>6, <2>1, AppendIsFirst
<1>7. ChangedFor(r.name, rs, a)
  BY <1>4, <1>5, <1>6 DEF ChangedFor
<1> QED BY <1>1, <1>2, <1>7 DEF Longer

\* Every step changes the table for at most one application, or ends the daemon.
LEMMA NextStable ==
  ASSUME TypeOK, [Next]_vars
  PROVE  RoutesStable
<1>0. routes \in Seq(RouteType)
  BY DEF TypeOK
<1>1. ASSUME NEW x \in Names, ChangedFor(x, routes, routes') PROVE RoutesStable
  <2>1. \A p \in Ports, h \in Hosts \cup {None} :
          /\ Answers(routes, p, h) # Answers(routes', p, h)
               => x \in {Answers(routes, p, h), Answers(routes', p, h)}
          /\ Answers(routes', p, h) = x /\ Answers(routes, p, h) \notin {x, None}
               => /\ find(routes, p, h).host = None
                  /\ find(routes', p, h).host = h
                  /\ h # None
    BY <1>0, <1>1, ChangeIsLocal
  <2> QED BY <2>1, Zenon DEF RoutesStable
<1>2. ASSUME NEW n \in Names, NEW p \in Ports, NEW h \in Hosts \cup {None}, NEW b \in Backends,
             routes' = Append(OtherRoutes(routes, n),
                              [name |-> n, port |-> p, host |-> h, backend |-> b])
      PROVE  RoutesStable
  <2>1. PICK r \in RouteType : r = [name |-> n, port |-> p, host |-> h, backend |-> b]
    BY DEF RouteType
  <2>2. r.name = n
    BY <2>1
  <2>3. ChangedFor(n, routes, routes')
    BY <1>0, <1>2, <2>1, <2>2, AddIsLocal
  <2> QED BY <1>1, <2>3
<1>3. ASSUME NEW n \in Names, remove_routes(n) PROVE RoutesStable
  BY <1>0, <1>1, <1>3, RemoveIsLocal DEF remove_routes
<1>4. ASSUME routes' = routes PROVE RoutesStable
  BY <1>4 DEF RoutesStable
<1>5. ASSUME Shutdown PROVE RoutesStable
  BY <1>5 DEF RoutesStable
<1>6. ASSUME Boot \/ set_cache_ttl \/ UNCHANGED vars PROVE routes' = routes
  BY <1>6 DEF Boot, start_pingora_server, FailServer, set_cache_ttl, vars, controlVars
<1> QED BY <1>2, <1>3, <1>4, <1>5, <1>6
     DEF Next, Control, add_route_with_tls, move_route, AddRoute

\* Adding, moving or removing the routes of one application changes who answers a
\* request only to or from that application, for every table, port and host: the first
\* of two applications that claim a host keeps it (proxy.rs, RouteTable::find, retain).
THEOREM RoutesAreStable == Spec => [][RoutesStable]_vars
<1>1. TypeOK /\ [Next]_vars => [RoutesStable]_vars
  BY NextStable
<1> QED BY <1>1, TypeCorrect, PTL DEF Spec
====
