---- MODULE ProxyRequestProofs ----
(***************************************************************************)
(* Proofs about ProxyRequest, for every set of routes users ask for and    *)
(* any number of requests: only whole bodies are cached, and whoever       *)
(* answers a request has a route for its host. What is proved about the    *)
(* route table in ProxyManagerProofs is used through an instance.          *)
(***************************************************************************)
EXTENDS ProxyRequest, TLAPS

P == INSTANCE ProxyManagerProofs WITH Certs <- {}, BadCerts <- {}, MaxCaches <- 0

-----------------------------------------------------------------------------
\* A route that users asked for leads from the host, or from any host, to the backend.
Allowed(backend, host) == \E t \in Routes : t.backend = backend /\ t.host \in {host, None}

\* What may be in the cache, or on its way there.
Cacheable(e) == e \in EntryType /\ e.whole /\ Allowed(e.answer, e.key)

\* What is true of a request at each of its stages.
Explained(q) ==
  /\ q.body = q.got
  /\ q.key \in {None, CacheKey(q)}
  /\ q.stage = "cache" => q.key = CacheKey(q)
  /\ q.should_cache => q.key = CacheKey(q)
  /\ q.stage \in {"response", "body"} => Allowed(q.answer, q.host)
  /\ q.stage = "done" => q.answer = None \/ Reasons(q) # {}

\* A request that has not begun, or is explained.
Good(q) == q = Idle \/ (q \in RequestType /\ Explained(q))

\* The inductive invariant: routes users asked for, cacheable entries, good requests.
Inv ==
  /\ PX!TypeOK
  /\ routes \in Seq(Routes)
  /\ \A e \in entries \cup inserts : Cacheable(e)
  /\ requests \in [Requests -> {Idle} \cup RequestType]
  /\ \A r \in Requests : Good(requests[r])

-----------------------------------------------------------------------------
\* The two instances of the route table are one.
LEMMA SameTable ==
  /\ P!TypeOK <=> PX!TypeOK
  /\ \A rs, n : P!OtherRoutes(rs, n) = PX!OtherRoutes(rs, n)
  /\ \A rs, p, h : P!find(rs, p, h) = PX!find(rs, p, h)
<1>1. P!TypeOK <=> PX!TypeOK
  BY DEF P!TypeOK, PX!TypeOK, P!RouteType, PX!RouteType, P!ServerType, PX!ServerType,
     P!ListenerType, PX!ListenerType
<1>2. \A rs, n : P!OtherRoutes(rs, n) = PX!OtherRoutes(rs, n)
  BY Zenon DEF P!OtherRoutes, PX!OtherRoutes
<1>3. \A rs, p, h : P!find(rs, p, h) = PX!find(rs, p, h)
  BY Zenon DEF P!find, PX!find, P!Matching, PX!Matching, P!Min, PX!Min
<1> QED BY <1>1, <1>2, <1>3

\* What ProxyManager assumes of its constants.
LEMMA TableAssumption ==
  /\ {} \subseteq {} /\ None \notin {} /\ None \notin Hosts /\ None \notin Names
  /\ None \notin [name : Names, port : Ports, host : Hosts \cup {None}, backend : Backends]
  /\ ServersMayFail \in BOOLEAN /\ MaxBooting \in Nat /\ 0 \in Nat
  BY RequestAssumption

\* The route of a request is one that users asked for, for its host or for any host.
LEMMA RouteFound ==
  ASSUME NEW rs \in Seq(Routes), NEW p, NEW h
  PROVE  \/ PX!find(rs, p, h) = None
         \/ PX!find(rs, p, h) \in Routes /\ PX!find(rs, p, h).host \in {h, None}
<1>0. Routes \subseteq P!RouteType
  BY RequestAssumption DEF P!RouteType
<1>1. rs \in Seq(P!RouteType)
  BY <1>0
<1>2. \A g : P!Matching(rs, p, g) # {} => P!Min(P!Matching(rs, p, g)) \in P!Matching(rs, p, g)
  BY <1>1, P!FirstMatch, TableAssumption
<1>3. \A g : \A i \in P!Matching(rs, p, g) : rs[i] \in Routes /\ rs[i].host = g
  BY DEF P!Matching
<1> QED BY <1>2, <1>3, SameTable DEF P!find

-----------------------------------------------------------------------------
\* At first there is nothing to explain.
LEMMA InitInv == Init => Inv
<1> SUFFICES ASSUME Init PROVE Inv
  OBVIOUS
<1>1. PX!TypeOK
  BY RequestAssumption DEF Init, PX!Init, PX!TypeOK
<1>2. routes \in Seq(Routes)
  BY DEF Init, PX!Init
<1>3. /\ requests \in [Requests -> {Idle} \cup RequestType]
      /\ \A r \in Requests : Good(requests[r])
  BY DEF Init, Good
<1> QED BY <1>1, <1>2, <1>3 DEF Init, Inv

\* A step of one request.
LEMMA RequestMoves ==
  ASSUME Inv, NEW r \in Requests, NEW q, Good(q), Become(r, q), UNCHANGED <<proxyVars, entries>>,
         \A e \in inserts' : Cacheable(e)
  PROVE  Inv'
<1>1. requests' \in [Requests -> {Idle} \cup RequestType]
  BY DEF Inv, Become, Good
<1>2. \A x \in Requests : Good(requests'[x])
  BY DEF Inv, Become
<1>3. PX!TypeOK'
  BY DEF Inv, proxyVars, PX!TypeOK
<1>4. routes' \in Seq(Routes)
  BY DEF Inv, proxyVars
<1>5. \A e \in entries' \cup inserts' : Cacheable(e)
  BY DEF Inv
<1> QED BY <1>1, <1>2, <1>3, <1>4, <1>5 DEF Inv

\* A request that is not idle is explained.
LEMMA AtWork ==
  ASSUME Inv, NEW r \in Requests, ~At(r, "idle")
  PROVE  requests[r] \in RequestType /\ Explained(requests[r])
<1>1. Idle.stage = "idle"
  BY DEF Idle
<1> QED BY <1>1 DEF Inv, Good, At

\* A request that is over is explained by who answered it.
LEMMA AnswerGood ==
  ASSUME NEW q \in RequestType, NEW from \in Backends \cup {None},
         from = None \/ Allowed(from, q.host) \/ Allowed(from, CacheKey(q))
  PROVE  Good(Answer(q, from))
<1>1. PICK a : a = Answer(q, from)
  OBVIOUS
<1>2. /\ a \in RequestType /\ a.stage = "done" /\ a.key = None /\ a.should_cache = FALSE
      /\ a.got = 0 /\ a.body = 0 /\ a.answer = from /\ a.host = q.host
  <2>1. 0 \in 0..MaxBody /\ 0 \in 0..MaxCached
    BY RequestAssumption
  <2>2. a = [q EXCEPT !.stage = "done", !.key = None, !.should_cache = FALSE,
                      !.got = 0, !.body = 0, !.answer = from]
    BY <1>1 DEF Answer
  <2>3. a \in RequestType
    BY <2>1, <2>2 DEF RequestType
  <2> QED BY <2>2, <2>3 DEF RequestType
<1>3. from = None \/ Reasons(a) # {}
  <2>1. ASSUME NEW t \in Routes, t.backend = from, t.host \in {q.host, CacheKey(q), None}
        PROVE  t \in Reasons(a)
    BY <1>2, <2>1 DEF Reasons, CacheKey
  <2> QED BY <2>1 DEF Allowed
<1> QED BY <1>1, <1>2, <1>3 DEF Good, Explained

-----------------------------------------------------------------------------
\* A request arrives: it has read nothing yet.
LEMMA ArriveInv ==
  ASSUME Inv, NEW r \in Requests, NEW l, NEW host \in Hosts \cup {None}, Arrive(r, l, host)
  PROVE  Inv'
<1>1. PICK q : q = [stage |-> "route", port |-> l.port, host |-> host, key |-> None,
                    should_cache |-> FALSE, got |-> 0, body |-> 0, answer |-> None]
  OBVIOUS
<1>2. l.port \in Ports
  BY DEF Arrive, Inv, PX!TypeOK, PX!ListenerType
<1>3. q \in RequestType /\ Explained(q)
  BY <1>1, <1>2, RequestAssumption DEF RequestType, Explained
<1> QED BY <1>1, <1>3, RequestMoves DEF Arrive, Good, Inv

\* request_filter finds a route, redirects, or refuses the request.
LEMMA RequestFilterInv ==
  ASSUME Inv, NEW r \in Requests, NEW get \in BOOLEAN, request_filter(r, get)
  PROVE  Inv'
<1>1. PICK q : q = requests[r]
  OBVIOUS
<1>2. q \in RequestType /\ Explained(q) /\ q.stage = "route"
  BY <1>1, AtWork DEF request_filter, At
<1>3. PICK route : route = RouteOf(q)
  OBVIOUS
<1>4. route = None \/ (route \in Routes /\ route.host \in {q.host, None})
  BY <1>3, RouteFound DEF RouteOf, Inv
<1>5. PICK n : n = IF route = None THEN Answer(q, None)
                   ELSE IF route.backend = Site THEN Answer(q, Site)
                   ELSE IF get THEN [q EXCEPT !.stage = "cache", !.key = CacheKey(q)]
                   ELSE Step(q, "peer")
  OBVIOUS
<1>6. Good(n)
  <2>1. CASE route = None
    BY <1>2, <1>5, <2>1, AnswerGood
  <2>2. CASE route # None /\ route.backend = Site
    <3>1. Allowed(Site, q.host)
      BY <1>4, <2>2 DEF Allowed
    <3> QED BY <1>2, <1>5, <2>2, <3>1, AnswerGood, RequestAssumption
  <2>3. CASE route # None /\ route.backend # Site /\ get
    <3>1. n = [q EXCEPT !.stage = "cache", !.key = CacheKey(q)]
      BY <1>5, <2>3
    <3>2. CacheKey(q) \in Hosts \cup {None, Localhost}
      BY <1>2 DEF CacheKey, RequestType
    <3>3. /\ n \in RequestType /\ n.stage = "cache" /\ n.key = CacheKey(q)
          /\ n.body = q.body /\ n.got = q.got /\ n.host = q.host
      BY <1>2, <3>1, <3>2 DEF RequestType
    <3> QED BY <1>2, <3>3 DEF Good, Explained, CacheKey
  <2>4. CASE route # None /\ route.backend # Site /\ ~get
    <3>1. n = [q EXCEPT !.stage = "peer"]
      BY <1>5, <2>4 DEF Step
    <3>2. /\ n \in RequestType /\ n.stage = "peer" /\ n.key = q.key
          /\ n.should_cache = q.should_cache
          /\ n.body = q.body /\ n.got = q.got /\ n.host = q.host
      BY <1>2, <3>1 DEF RequestType
    <3> QED BY <1>2, <3>2 DEF Good, Explained, CacheKey
  <2> QED BY <2>1, <2>2, <2>3, <2>4
<1>7. Become(r, n) /\ UNCHANGED <<proxyVars, entries, inserts>>
  BY <1>1, <1>3, <1>5 DEF request_filter
<1> QED BY <1>6, <1>7, RequestMoves DEF Inv

\* A cached answer is one that a route for its key allowed.
LEMMA CacheLookupInv ==
  ASSUME Inv, NEW r \in Requests, CacheLookup(r)
  PROVE  Inv'
<1>1. PICK q : q = requests[r]
  OBVIOUS
<1>2. q \in RequestType /\ Explained(q) /\ q.stage = "cache" /\ q.key = CacheKey(q)
  BY <1>1, AtWork DEF CacheLookup, At, Explained
<1>3. UNCHANGED <<proxyVars, entries, inserts>>
  BY DEF CacheLookup
<1>4. CASE Become(r, Step(q, "peer"))
  <2>1. PICK n : n = [q EXCEPT !.stage = "peer"]
    OBVIOUS
  <2>2. /\ n \in RequestType /\ n.stage = "peer" /\ n.key = q.key
        /\ n.should_cache = q.should_cache
        /\ n.body = q.body /\ n.got = q.got /\ n.host = q.host
    BY <1>2, <2>1 DEF RequestType
  <2>3. Good(n)
    BY <1>2, <2>2 DEF Good, Explained, CacheKey
  <2> QED BY <1>3, <1>4, <2>1, <2>3, RequestMoves DEF Inv, Step
<1>5. ASSUME NEW e \in entries, e.key = q.key, Become(r, Answer(q, e.answer))
      PROVE  Inv'
  <2>1. Cacheable(e)
    BY DEF Inv
  <2>2. e.answer \in Backends /\ Allowed(e.answer, CacheKey(q))
    BY <1>2, <1>5, <2>1 DEF Cacheable, EntryType
  <2>3. Good(Answer(q, e.answer))
    BY <1>2, <2>2, AnswerGood
  <2> QED BY <1>3, <1>5, <2>3, RequestMoves DEF Inv
<1> QED BY <1>1, <1>4, <1>5 DEF CacheLookup

\* upstream_peer looks the route up a second time, and may find another one.
LEMMA UpstreamPeerInv ==
  ASSUME Inv, NEW r \in Requests, upstream_peer(r)
  PROVE  Inv'
<1>1. PICK q : q = requests[r]
  OBVIOUS
<1>2. q \in RequestType /\ Explained(q) /\ q.stage = "peer"
  BY <1>1, AtWork DEF upstream_peer, At
<1>3. PICK route : route = RouteOf(q)
  OBVIOUS
<1>4. route = None \/ (route \in Routes /\ route.host \in {q.host, None})
  BY <1>3, RouteFound DEF RouteOf, Inv
<1>5. PICK n : n = IF route = None \/ route.backend = Site THEN Answer(q, None)
                   ELSE [q EXCEPT !.stage = "response", !.answer = route.backend]
  OBVIOUS
<1>6. Good(n)
  <2>1. CASE route = None \/ route.backend = Site
    BY <1>2, <1>5, <2>1, AnswerGood
  <2>2. CASE ~(route = None \/ route.backend = Site)
    <3>1. Allowed(route.backend, q.host) /\ route.backend \in Backends
      BY <1>4, <2>2, RequestAssumption DEF Allowed
    <3>2. n = [q EXCEPT !.stage = "response", !.answer = route.backend]
      BY <1>5, <2>2
    <3>3. /\ n \in RequestType /\ n.stage = "response" /\ n.key = q.key
          /\ n.should_cache = q.should_cache /\ n.answer = route.backend
          /\ n.body = q.body /\ n.got = q.got /\ n.host = q.host
      BY <1>2, <3>1, <3>2 DEF RequestType
    <3> QED BY <1>2, <3>1, <3>3 DEF Good, Explained, CacheKey
  <2> QED BY <2>1, <2>2
<1>7. Become(r, n) /\ UNCHANGED <<proxyVars, entries, inserts>>
  BY <1>1, <1>3, <1>5 DEF upstream_peer
<1> QED BY <1>6, <1>7, RequestMoves DEF Inv

\* response_filter decides whether the answer will be stored.
LEMMA ResponseFilterInv ==
  ASSUME Inv, NEW r \in Requests, NEW ok \in BOOLEAN, response_filter(r, ok)
  PROVE  Inv'
<1>1. PICK q : q = requests[r]
  OBVIOUS
<1>2. q \in RequestType /\ Explained(q) /\ q.stage = "response"
  BY <1>1, AtWork DEF response_filter, At
<1>3. PICK s \in BOOLEAN : s = (ok /\ q.key # None)
  OBVIOUS
<1>4. PICK n : n = [q EXCEPT !.stage = "body", !.should_cache = s]
  OBVIOUS
<1>5. /\ n \in RequestType /\ n.stage = "body" /\ n.key = q.key
      /\ n.should_cache = s /\ n.answer = q.answer
      /\ n.body = q.body /\ n.got = q.got /\ n.host = q.host
  BY <1>2, <1>4 DEF RequestType
<1>6. Good(n)
  BY <1>2, <1>3, <1>5 DEF Good, Explained, CacheKey
<1>7. Become(r, n) /\ UNCHANGED <<proxyVars, entries, inserts>>
  BY <1>1, <1>3, <1>4 DEF response_filter
<1> QED BY <1>6, <1>7, RequestMoves DEF Inv

\* A body is collected from its first chunk on, or not at all.
LEMMA CollectExplained ==
  ASSUME NEW q \in RequestType, Explained(q), q.stage = "body", q.got < MaxBody
  PROVE  /\ Collect(q) \in RequestType /\ Explained(Collect(q))
         /\ Collect(q).stage = "body" /\ Collect(q).host = q.host
<1>0. q.body \in Nat /\ q.got \in Nat /\ q.body <= MaxCached /\ MaxBody \in Nat /\ MaxCached \in Nat
  BY RequestAssumption DEF RequestType
<1>1. PICK n : n = Collect(q)
  OBVIOUS
<1>2. CASE ~q.should_cache
  BY <1>2 DEF Collect
<1>3. CASE q.should_cache /\ q.body + 1 > MaxCached
  <2>1. n = [q EXCEPT !.should_cache = FALSE, !.body = 0, !.got = 0]
    BY <1>1, <1>3 DEF Collect
  <2>2. 0 \in 0..MaxBody /\ 0 \in 0..MaxCached
    BY <1>0
  <2>3. /\ n \in RequestType /\ n.stage = "body" /\ n.key = q.key
        /\ n.should_cache = FALSE /\ n.answer = q.answer
        /\ n.body = 0 /\ n.got = 0 /\ n.host = q.host
    BY <2>1, <2>2 DEF RequestType
  <2>4. Explained(n)
    BY <2>3 DEF Explained, CacheKey
  <2> QED BY <1>1, <2>3, <2>4
<1>4. CASE q.should_cache /\ ~(q.body + 1 > MaxCached)
  <2>1. n = [q EXCEPT !.body = q.body + 1, !.got = q.got + 1]
    BY <1>1, <1>4 DEF Collect
  <2>2. q.got + 1 \in 0..MaxBody /\ q.body + 1 \in 0..MaxCached
    BY <1>0, <1>4
  <2>3. /\ n \in RequestType /\ n.stage = "body" /\ n.key = q.key
        /\ n.should_cache = q.should_cache /\ n.answer = q.answer
        /\ n.body = q.body + 1 /\ n.got = q.got + 1 /\ n.host = q.host
    BY <2>1, <2>2 DEF RequestType
  <2>4. Explained(n)
    BY <2>3 DEF Explained, CacheKey
  <2> QED BY <1>1, <2>3, <2>4
<1> QED BY <1>2, <1>3, <1>4

\* response_body_filter collects the body and, at its end, stores it.
LEMMA ResponseBodyFilterInv ==
  ASSUME Inv, NEW r \in Requests, NEW chunk \in BOOLEAN, NEW last \in BOOLEAN,
         response_body_filter(r, chunk, last)
  PROVE  Inv'
<1>1. PICK q : q = IF chunk THEN Collect(requests[r]) ELSE requests[r]
  OBVIOUS
<1>2. q \in RequestType /\ Explained(q) /\ q.stage = "body"
  <2>1. requests[r] \in RequestType /\ Explained(requests[r]) /\ requests[r].stage = "body"
    BY AtWork DEF response_body_filter, At
  <2>2. chunk => requests[r].got < MaxBody
    BY DEF response_body_filter
  <2>3. CASE chunk
    BY <1>1, <2>1, <2>2, <2>3, CollectExplained
  <2> QED BY <1>1, <2>1, <2>3
<1>3. q.answer \in Backends /\ Allowed(q.answer, q.host)
  BY <1>2, RequestAssumption DEF Explained, Allowed
<1>4. Become(r, IF last THEN Answer(q, q.answer) ELSE q)
  BY <1>1 DEF response_body_filter
<1>5. Good(IF last THEN Answer(q, q.answer) ELSE q)
  <2>1. Good(Answer(q, q.answer))
    BY <1>2, <1>3, AnswerGood
  <2>2. Good(q)
    BY <1>2 DEF Good
  <2> QED BY <2>1, <2>2
<1>6. PICK e : e = [key |-> q.key, answer |-> q.answer, whole |-> q.body = q.got]
  OBVIOUS
<1>7. inserts' = IF last /\ q.should_cache THEN inserts \cup {e} ELSE inserts
  BY <1>1, <1>6 DEF response_body_filter
<1>8. q.should_cache => Cacheable(e)
  <2> SUFFICES ASSUME q.should_cache PROVE Cacheable(e)
    OBVIOUS
  <2>1. q.key = CacheKey(q) /\ q.body = q.got
    BY <1>2 DEF Explained
  <2>2. q.key \in Hosts \cup {Localhost} /\ (q.host # None => q.key = q.host)
    BY <1>2, <2>1 DEF CacheKey, RequestType
  <2>3. e \in EntryType /\ e.whole /\ e.key = q.key /\ e.answer = q.answer
    BY <1>3, <1>6, <2>1, <2>2 DEF EntryType
  <2>4. Allowed(q.answer, q.key)
    BY <1>3, <2>2 DEF Allowed
  <2> QED BY <2>3, <2>4 DEF Cacheable
<1>9. \A i \in inserts' : Cacheable(i)
  BY <1>7, <1>8 DEF Inv
<1>10. UNCHANGED <<proxyVars, entries>>
  BY DEF response_body_filter
<1> QED BY <1>4, <1>5, <1>9, <1>10, RequestMoves

\* A request that is broken off, or is over.
LEMMA EndsInv ==
  ASSUME Inv, NEW r \in Requests, Abort(r) \/ logging(r)
  PROVE  Inv'
<1>1. CASE Abort(r)
  <2>1. requests[r] \in RequestType
    BY <1>1, AtWork DEF Abort, At
  <2>2. Good(Answer(requests[r], None))
    BY <2>1, AnswerGood
  <2> QED BY <1>1, <2>2, RequestMoves DEF Abort, Inv
<1>2. CASE logging(r)
  BY <1>2, RequestMoves DEF logging, Good, Inv
<1> QED BY <1>1, <1>2

\* Entries that reach the cache, or leave it.
LEMMA CacheInv ==
  ASSUME Inv, (\E e \in inserts : Insert(e)) \/ (\E e \in entries : Expire(e))
  PROVE  Inv'
<1>1. /\ UNCHANGED <<proxyVars, requests>>
      /\ entries' \cup inserts' \subseteq entries \cup inserts
  BY DEF Insert, Expire
<1>2. PX!TypeOK'
  BY <1>1 DEF Inv, proxyVars, PX!TypeOK
<1>3. routes' \in Seq(Routes)
  BY <1>1 DEF Inv, proxyVars
<1> QED BY <1>1, <1>2, <1>3 DEF Inv

\* The routes change under the requests, and are still ones that users asked for.
LEMMA ControlStep ==
  ASSUME Inv, Control
  PROVE  P!Next /\ routes' \in Seq(Routes)
<1>1. routes \in Seq(Routes)
  BY DEF Inv
<1>2. \A n : PX!OtherRoutes(routes, n) \in Seq(Routes)
  BY <1>1, P!OthersKept, SameTable, TableAssumption
<1>3. ASSUME NEW t \in Routes, PX!add_route_with_tls(t.name, t.port, t.host, t.backend, None)
      PROVE  P!Next /\ routes' \in Seq(Routes)
  <2>1. t \in [name : Names, port : Ports, host : Hosts \cup {None}, backend : Backends]
    BY RequestAssumption
  <2>2. t = [name |-> t.name, port |-> t.port, host |-> t.host, backend |-> t.backend]
    BY <2>1
  <2>3. routes' = Append(PX!OtherRoutes(routes, t.name), t)
    BY <1>3, <2>2 DEF PX!add_route_with_tls, PX!AddRoute
  <2>4. routes' \in Seq(Routes)
    BY <1>2, <2>3
  <2>5. P!add_route_with_tls(t.name, t.port, t.host, t.backend, None)
    BY <1>3, Zenon DEF PX!add_route_with_tls, PX!AddRoute, P!add_route_with_tls, P!AddRoute,
       PX!OtherRoutes, P!OtherRoutes, PX!Cardinality, P!Cardinality
  <2>6. P!Next
    BY <2>1, <2>5 DEF P!Next, P!Control
  <2> QED BY <2>4, <2>6
<1>4. ASSUME NEW n \in Names, PX!remove_routes(n)
      PROVE  P!Next /\ routes' \in Seq(Routes)
  <2>1. routes' \in Seq(Routes)
    BY <1>2, <1>4 DEF PX!remove_routes
  <2>2. P!remove_routes(n)
    BY <1>4, SameTable, Zenon DEF PX!remove_routes, P!remove_routes, PX!Orphaned, P!Orphaned,
       PX!PortsOf, P!PortsOf, PX!PortsOfApp, P!PortsOfApp
  <2> QED BY <2>1, <2>2 DEF P!Next, P!Control
<1>5. ASSUME PX!Boot PROVE P!Next /\ routes' \in Seq(Routes)
  <2>1. P!Boot
    BY <1>5, Zenon DEF PX!Boot, P!Boot, PX!start_pingora_server, P!start_pingora_server,
       PX!FailServer, P!FailServer, PX!Sockets, P!Sockets, PX!controlVars, P!controlVars
  <2>2. routes' = routes
    BY <1>5 DEF PX!Boot, PX!start_pingora_server, PX!FailServer, PX!controlVars
  <2> QED BY <1>1, <2>1, <2>2 DEF P!Next
<1> QED BY <1>3, <1>4, <1>5 DEF Control

\* A change of the route table under the requests that are on their way.
LEMMA ControlInv ==
  ASSUME Inv, Control
  PROVE  Inv'
<1>1. P!Next /\ routes' \in Seq(Routes)
  BY ControlStep
<1>2. P!TypeOK
  BY SameTable DEF Inv
<1>3. P!TypeOK'
  BY <1>1, <1>2, P!NextTyped, TableAssumption
<1>4. PX!TypeOK'
  BY <1>3 DEF P!TypeOK, PX!TypeOK, P!RouteType, PX!RouteType, P!ServerType, PX!ServerType,
     P!ListenerType, PX!ListenerType
<1>5. UNCHANGED <<entries, requests, inserts>>
  BY DEF Control
<1> QED BY <1>1, <1>4, <1>5 DEF Inv

\* Every step keeps the invariant.
LEMMA NextInv ==
  ASSUME Inv, [Next]_vars
  PROVE  Inv'
<1>1. CASE UNCHANGED vars
  BY <1>1 DEF Inv, vars, proxyVars, PX!TypeOK
<1>2. CASE Next
  BY <1>2, ControlInv, ArriveInv, RequestFilterInv, CacheLookupInv, UpstreamPeerInv,
     ResponseFilterInv, ResponseBodyFilterInv, EndsInv, CacheInv DEF Next
<1> QED BY <1>1, <1>2

-----------------------------------------------------------------------------
\* In every reachable state routes, cache and requests are as Inv says.
THEOREM InvariantHolds == Spec => []Inv
<1>1. Inv /\ [Next]_vars => Inv'
  BY NextInv
<1> QED BY InitInv, <1>1, PTL DEF Spec

\* The type invariant of ProxyRequest: the counts of chunks stay within their limits.
THEOREM TypeCorrect == Spec => []TypeOK
<1>1. Inv => TypeOK
  BY DEF Inv, TypeOK, Cacheable
<1> QED BY InvariantHolds, <1>1, PTL

\* Whatever the limits, the chunks and the interleaving of requests, insertions and
\* expiry: what is in the cache is a whole body (proxy.rs, response_body_filter).
THEOREM CacheIsComplete == Spec => []CacheComplete
<1>1. Inv => CacheComplete
  BY DEF Inv, Cacheable, CacheComplete
<1> QED BY InvariantHolds, <1>1, PTL

\* For every set of routes users ask for: whoever answers a request, directly or from
\* the cache and through routes that change on the way, has a route for its host or for
\* any host (proxy.rs, request_filter, upstream_peer and the key of the cache).
THEOREM HostsAreIsolated == Spec => []HostIsolation
<1>1. Inv => HostIsolation
  <2> SUFFICES ASSUME Inv, NEW r \in Requests, At(r, "done"), requests[r].answer # None
               PROVE  Reasons(requests[r]) # {}
    BY DEF HostIsolation, Answered
  <2>1. Explained(requests[r]) /\ requests[r].stage = "done"
    BY AtWork DEF At
  <2> QED BY <2>1 DEF Explained
<1> QED BY InvariantHolds, <1>1, PTL

\* Under the requests, too, a change for one application leaves what the others answer
\* (proxy.rs, RouteTable::find, add_route_with_tls and remove_routes).
THEOREM RoutesStayStable == Spec => RouteStability
<1>1. Inv /\ [Next]_vars => [PX!RoutesStable]_vars
  <2> SUFFICES ASSUME Inv, Next PROVE PX!RoutesStable
    OBVIOUS
  <2>1. CASE Control
    <3>1. P!Next /\ P!TypeOK
      BY <2>1, ControlStep, SameTable DEF Inv
    <3>2. P!RoutesStable
      BY <3>1, P!NextStable, TableAssumption
    <3> QED BY <3>2 DEF P!RoutesStable, PX!RoutesStable, P!Answers, PX!Answers,
          P!Shutdown, PX!Shutdown, P!find, PX!find, P!Matching, PX!Matching, P!Min, PX!Min
  <2>2. CASE routes' = routes
    BY <2>2 DEF PX!RoutesStable
  <2>3. ~Control => UNCHANGED proxyVars
    BY Zenon DEF Next, Arrive, request_filter, CacheLookup, upstream_peer, response_filter,
       response_body_filter, Abort, logging, Insert, Expire
  <2>4. UNCHANGED proxyVars => routes' = routes
    BY DEF proxyVars
  <2> QED BY <2>1, <2>2, <2>3, <2>4
<1> QED BY InvariantHolds, <1>1, PTL DEF Spec, RouteStability
====
