---- MODULE MCProxyRequest ----
(* Small instances of ProxyRequest for TLC. *)
EXTENDS ProxyRequest, TLC

Route(n, port, host, backend) ==
  [name |-> n, port |-> port, host |-> host, backend |-> backend]

\* One port: an application and a static site that want the same host, localhost,
\* and a program that serves the rest.
HostRoutes ==
  {Route("a", 80, Localhost, 8000), Route("b", 80, Localhost, Site), Route("b", 80, None, 9000)}

RequestSymmetry == Permutations(Requests)
====
