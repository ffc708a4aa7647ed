---- MODULE MCProcessManager ----
(* Small instances of ProcessManager for TLC. *)
EXTENDS ProcessManager, TLC

Base(n) ==
  [name |-> n, path |-> "source", args |-> <<"user">>, deny |-> {"net"}, allow |-> {},
   spa |-> FALSE, is_oci |-> FALSE, mapping |-> None, ssl |-> None, acme |-> None]

Command(n) == [Base(n) EXCEPT !.path = "command", !.deny = {}]
Image(n, granted) ==
  [Base(n) EXCEPT !.path = "reference", !.is_oci = TRUE, !.allow = granted]
Site(n) == [Base(n) EXCEPT !.path = "folder", !.spa = TRUE, !.args = <<>>]

MCImageArgs == <<"image">>

NewArgs  == [mapping |-> None, ssl |-> None, acme |-> None, args |-> <<"user">>, image |-> FALSE]
NewImage == [NewArgs EXCEPT !.args = None, !.image = TRUE]

\* One name of each kind, and a name that may be either a program or a site.
MCConfigs == {Base("a"), Image("a", {"path"}), Command("b"), Site("b")}
MCUpdates == {NewArgs, NewImage}

\* A local program in a sandbox only.
SourceConfigs == {Base("a")}
NoUpdates == {}

====
