---- MODULE MCManifest ----
(* A small instance of Manifest for TLC. *)
EXTENDS Manifest

App(n, path) == [kind |-> "Process", name |-> <<n>>, path |-> path, port |-> Absent,
                 args |-> Absent, env_file |-> Absent, env |-> NoVars, deny |-> {},
                 allow |-> {}, volumes |-> {}, spa |-> FALSE]
Map(n) == [kind |-> "ConfigMap", name |-> n]
Mount(n) == [kind |-> "configmap", name |-> n, dest |-> "etc"]
Other == [kind |-> "Other"]

Short == Reference(Absent, Absent, Absent, "nginx", "latest")
Full == Reference("ghcr.io", Absent, "org", "app", Absent)

\* Short and full references, ports with and without a host, a ConfigMap behind the
\* process that mounts it, arguments and restrictions, everything granted, and files
\* that are refused in the middle.
MCFiles ==
  {<<[App("a", Short) EXCEPT !.port = <<"80">>, !.volumes = {Mount("m")}, !.args = <<"v">>], Map("m"),
     [App("b", Local) EXCEPT !.port = <<"h", "80", "8000">>, !.env = [v \in {"x"} |-> "1"],
                             !.args = <<"v">>, !.deny = {"net"}]>>,
   <<Map("m"), [App("a", Full) EXCEPT !.port = <<"80", "8000">>], Other>>,
   <<[App("a", Full) EXCEPT !.port = <<"80", "8000">>, !.env_file = "f", !.allow = {"all"}],
     [App("b", Local) EXCEPT !.port = <<"h">>]>>}

\* A registry with a port, whose images all get its name unless they are given one, here
\* with a comma; and a directory of static files.
Args(path) == [name |-> Absent, path |-> path, port |-> Absent, args |-> Absent,
               env_file |-> Absent, deny |-> {}, allow |-> {}, spa |-> FALSE]
MCRuns ==
  {[Args(Reference("local", "5000", Absent, "app", Absent)) EXCEPT !.name = <<"a,">>, !.port = <<"80">>,
                                                                   !.args = Unbalanced],
   [Args(Local) EXCEPT !.port = <<"80">>, !.spa = TRUE]}
MCTexts == {"docker.io", "ghcr.io", "local", "80", "8000", "5000", "h", "a", "a,", "b", "m",
            "etc", "nginx", "latest", "library", "org", "app"}
MCEnvContents == {[v \in {"x"} |-> "1"], [v \in {"x", "PORT"} |-> "80"]}
MCNames == {<<"b">>}
MCLocalName == <<"b">>
MCImageArgs == <<"serve">>
MCValues == {"1", "80", "8000", "5000"}

MCRegistries == {[host |-> "local", port |-> "5000"], [host |-> "local", port |-> Absent]}
====
