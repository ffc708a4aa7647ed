---- MODULE MCDaemon ----
(* Small instances of Daemon for TLC. *)
EXTENDS Daemon, TLC

To(port, app) == [port |-> port, host |-> None, app |-> app]
At(host, port, app) == [port |-> port, host |-> host, app |-> app]

Program(n, mapping) ==
  [name |-> n, path |-> "command", args |-> <<>>, deny |-> {}, allow |-> {},
   spa |-> FALSE, is_oci |-> FALSE, mapping |-> mapping, ssl |-> None, acme |-> None]
Image(n) == [Program(n, None) EXCEPT !.path = "reference", !.is_oci = TRUE]
StaticSite(n, mapping) ==
  [Program(n, mapping) EXCEPT !.path = "folder", !.spa = TRUE]

Change(mapping) ==
  [mapping |-> mapping, ssl |-> None, acme |-> None, args |-> None, image |-> FALSE]

MCImageArgs == <<>>
MCMappings == [port : Ports, host : Hosts \cup {None}, app : Ports \cup AppPorts \cup {None, AutoPort}]

\* A proxied program with a certificate to be issued, the same with a bad one, a
\* static site of that name, and an image without a proxy.
MCConfigs ==
  {[Program("a", At("h", 80, 80)) EXCEPT !.acme = "email"],
   [Program("a", To(80, None)) EXCEPT !.ssl = "bad"],
   StaticSite("a", To(80, None)), Image("b")}
MCSavedLists ==
  {{}, {[Program("a", At("h", 80, AutoPort)) EXCEPT !.acme = "email"],
       StartConfig(Image("b"), "none")}}
MCUpdates == {Change(To(443, None))}

PidSymmetry == Permutations(Pids)
====
