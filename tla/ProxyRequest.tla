---- MODULE ProxyRequest ----
(***************************************************************************)
(* The proxy's data plane (NyrunProxy of proxy.rs): what happens to the    *)
(* requests on its sockets while routes are added and removed. A request   *)
(* reads dead_ports, the route table and the cache one after the other,    *)
(* looks its route up again to choose the upstream, and hands a copy of    *)
(* the response to a task that inserts it into the cache later.            *)
(*                                                                         *)
(* All requests are for one URI: the others have cache entries of their    *)
(* own. Bodies are counted in chunks. The time to live is not changed: the *)
(* servers started after a change have a cache of their own.               *)
(***************************************************************************)
EXTENDS Naturals, Sequences, FiniteSets

CONSTANTS
  Names, Ports, Hosts, Backends, ServersMayFail, MaxBooting, None,
  Site,        \* the backend of a static site
  Localhost,   \* the host name a request without one is cached under
  Routes,      \* the routes users ask for
  Requests,    \* identities of the requests in flight
  MaxCached,   \* the largest body that is cached (5 MB)
  MaxBody,     \* the largest body
  MaxInserts   \* bound on the insertions that are under way

ASSUME RequestAssumption ==
  /\ Site \in Backends
  /\ Localhost # None
  /\ None \notin Names \cup Hosts
  /\ None \notin [name : Names, port : Ports, host : Hosts \cup {None}, backend : Backends]
  /\ ServersMayFail \in BOOLEAN /\ MaxBooting \in Nat
  /\ Routes \subseteq [name : Names, port : Ports, host : Hosts \cup {None}, backend : Backends]
  /\ MaxCached \in Nat /\ MaxBody \in Nat \ {0} /\ MaxInserts \in Nat

VARIABLES
  routes, ports, tls_ports, dead_ports, cache, certs, booting, listeners, rejected,
  failed, late_tls,
  entries,     \* what is in the cache
  requests,    \* the requests in flight and their ProxyCtx
  inserts      \* cache insertions handed to tasks

proxyVars == <<routes, ports, tls_ports, dead_ports, cache, certs, booting, listeners, rejected,
               failed, late_tls>>
vars == <<proxyVars, entries, requests, inserts>>

PX == INSTANCE ProxyManager WITH Certs <- {}, BadCerts <- {}, MaxCaches <- 0

-----------------------------------------------------------------------------
Idle == [stage |-> "idle"]

\* stage: which call comes next; key: the cache key, None when the response is not
\* to be cached; got: chunks of a body to be cached that came;
\* body: chunks kept for the cache; answer: the backend the client's response is
\* from, None for an error.
RequestType ==
  [stage : {"route", "cache", "peer", "response", "body", "done"},
   port : Ports, host : Hosts \cup {None},
   key : Hosts \cup {None, Localhost}, should_cache : BOOLEAN,
   got : 0..MaxBody, body : 0..MaxCached,
   answer : Backends \cup {None}]

\* Of a body in the cache only matters whether it is whole.
EntryType == [key : Hosts \cup {Localhost}, answer : Backends, whole : BOOLEAN]

TypeOK ==
  /\ PX!TypeOK
  /\ entries \subseteq EntryType
  /\ requests \in [Requests -> {Idle} \cup RequestType]
  /\ inserts \subseteq EntryType

Init ==
  /\ PX!Init
  /\ entries = {}
  /\ requests = [r \in Requests |-> Idle]
  /\ inserts = {}

-----------------------------------------------------------------------------
RouteOf(q) == PX!find(routes, q.port, q.host)

At(r, stage) == requests[r].stage = stage
Become(r, q) == requests' = [requests EXCEPT ![r] = q]
Step(q, stage) == [q EXCEPT !.stage = stage]
Answer(q, from) ==
  [q EXCEPT !.stage = "done", !.key = None, !.should_cache = FALSE,
            !.got = 0, !.body = 0, !.answer = from]

\* Wrong: the host is not part of the key.
CacheKey_without_host(q) == Localhost

\* The port is not part of the key.
CacheKey(q) == IF q.host = None THEN Localhost ELSE q.host

\* new_ctx, and the start of request_filter: the port is not dead. On a dead port
\* the request ends here.
Arrive(r, l, host) ==
  /\ At(r, "idle")
  /\ l \in listeners
  /\ l.port \notin dead_ports
  /\ Become(r, [stage |-> "route", port |-> l.port, host |-> host, key |-> None,
                should_cache |-> FALSE, got |-> 0, body |-> 0, answer |-> None])
  /\ UNCHANGED <<proxyVars, entries, inserts>>

\* request_filter with the route table (challenges are answered in Acme): no route is a 404, a static site is
\* served at once, and only a GET for a proxied backend looks at the cache.
request_filter(r, get) ==
  /\ At(r, "route")
  /\ LET q == requests[r]
         route == RouteOf(q)
     IN  Become(r, IF route = None THEN Answer(q, None)
                   ELSE IF route.backend = Site THEN Answer(q, Site)
                   ELSE IF get THEN [q EXCEPT !.stage = "cache", !.key = CacheKey(q)]
                   ELSE Step(q, "peer"))
  /\ UNCHANGED <<proxyVars, entries, inserts>>

\* The rest of request_filter: a hit ends the request.
CacheLookup(r) ==
  /\ At(r, "cache")
  /\ LET q == requests[r]
         hits == {e \in entries : e.key = q.key}
     IN  \/ hits = {} /\ Become(r, Step(q, "peer"))
         \/ \E e \in hits : Become(r, Answer(q, e.answer))
  /\ UNCHANGED <<proxyVars, entries, inserts>>

\* upstream_peer: the route may have changed; one that is gone or now a static
\* site is a 502.
upstream_peer(r) ==
  /\ At(r, "peer")
  /\ LET q == requests[r]
         route == RouteOf(q)
     IN  Become(r, IF route = None \/ route.backend = Site THEN Answer(q, None)
                   ELSE [q EXCEPT !.stage = "response", !.answer = route.backend])
  /\ UNCHANGED <<proxyVars, entries, inserts>>

\* response_filter: the header of the upstream's answer. ok is status 200.
response_filter(r, ok) ==
  /\ At(r, "response")
  /\ LET q == requests[r] IN
       Become(r, [q EXCEPT !.stage = "body", !.should_cache = ok /\ q.key # None])
  /\ UNCHANGED <<proxyVars, entries, inserts>>

\* Wrong: a chunk that does not fit is skipped, and collecting goes on.
Collect_after_overflow(q) ==
  IF ~q.should_cache THEN q
  ELSE IF q.body + 1 > MaxCached THEN [q EXCEPT !.body = 0, !.got = @ + 1]
  ELSE [q EXCEPT !.body = @ + 1, !.got = @ + 1]

\* response_body_filter on a chunk: a body that grows too large is given up.
Collect(q) ==
  IF ~q.should_cache THEN q
  ELSE IF q.body + 1 > MaxCached THEN [q EXCEPT !.should_cache = FALSE, !.body = 0, !.got = 0]
  ELSE [q EXCEPT !.body = @ + 1, !.got = @ + 1]

\* The body, chunk by chunk; the end of the stream may come without one. Then what
\* was collected goes to a task that inserts it.
response_body_filter(r, chunk, last) ==
  /\ At(r, "body")
  /\ chunk => requests[r].got < MaxBody
  /\ LET q == IF chunk THEN Collect(requests[r]) ELSE requests[r] IN
       /\ last => Cardinality(inserts) < MaxInserts
       /\ Become(r, IF last THEN Answer(q, q.answer) ELSE q)
       /\ inserts' = IF last /\ q.should_cache
                     THEN inserts \cup {[key |-> q.key, answer |-> q.answer,
                                         whole |-> q.body = q.got]}
                     ELSE inserts
  /\ UNCHANGED <<proxyVars, entries>>

\* The upstream or the client goes away.
Abort(r) ==
  /\ requests[r].stage \in {"response", "body"}
  /\ Become(r, Answer(requests[r], None))
  /\ UNCHANGED <<proxyVars, entries, inserts>>

\* logging: the request is over.
logging(r) ==
  /\ At(r, "done")
  /\ Become(r, Idle)
  /\ UNCHANGED <<proxyVars, entries, inserts>>

-----------------------------------------------------------------------------
\* cache.insert replaces the entry of the key.
Insert(e) ==
  /\ e \in inserts
  /\ inserts' = inserts \ {e}
  /\ entries' = {f \in entries : f.key # e.key} \cup {e}
  /\ UNCHANGED <<proxyVars, requests>>

\* moka: the time to live of an entry is over, or it is evicted.
Expire(e) ==
  /\ entries' = entries \ {e}
  /\ UNCHANGED <<proxyVars, requests, inserts>>

-----------------------------------------------------------------------------
\* Routes change under the requests.
Control ==
  /\ \/ \E t \in Routes : PX!add_route_with_tls(t.name, t.port, t.host, t.backend, None)
     \/ \E n \in Names : PX!remove_routes(n)
     \/ PX!Boot
  /\ UNCHANGED <<entries, requests, inserts>>

Next ==
  \/ Control
  \/ \E r \in Requests :
       \/ \E l \in listeners, h \in Hosts \cup {None} : Arrive(r, l, h)
       \/ \E get \in BOOLEAN : request_filter(r, get)
       \/ CacheLookup(r)
       \/ upstream_peer(r)
       \/ \E ok \in BOOLEAN : response_filter(r, ok)
       \/ \E chunk, last \in BOOLEAN : response_body_filter(r, chunk, last)
       \/ Abort(r)
       \/ logging(r)
  \/ \E e \in inserts : Insert(e)
  \/ \E e \in entries : Expire(e)

Spec == Init /\ [][Next]_vars

-----------------------------------------------------------------------------
(* Properties. *)

Answered == {requests[r] : r \in {x \in Requests : At(x, "done") /\ requests[x].answer # None}}

\* What is cached is a whole body: a response that was cut off, or that outgrew
\* the limit on the way, never reaches the cache.
CacheComplete == \A e \in entries : e.whole

\* The routes that can send a request to the backend that answered it. What was
\* cached for localhost also answers requests without a host.
Reasons(q) ==
  {t \in Routes :
     /\ t.backend = q.answer
     /\ t.host \in {q.host, None} \/ (q.host = None /\ t.host = Localhost)}

\* "multiple services sharing the same port via different hostnames": whoever
\* answers a request, directly or from the cache, was given a route for the host
\* the request is for, or for any host.
HostIsolation == \A q \in Answered : Reasons(q) # {}

\* A route that is added or removed for one application does not disturb the others:
\* who answers changes only to or from that application, and it takes requests over
\* only from a catch-all route, with a route for that very host.
RouteStability == [][PX!RoutesStable]_vars
====
