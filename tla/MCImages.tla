---- MODULE MCImages ----
(* A small instance of Images for TLC. *)
EXTENDS Images, TLC

\* The path "lib" is a directory that holds "lib/so", or a file.
MCPaths == {"app", "tool", "lib/so", "lib"}
MCBelow == [p \in MCPaths |-> IF p = "lib" THEN {"lib", "lib/so"} ELSE {p}]
MCVolumes == <<"tool">>

File(p) == [kind |-> "file", path |-> p]
Whiteout(p) == [kind |-> "whiteout", path |-> p]
Opaque(p) == [kind |-> "opaque", path |-> p]
Layer(entries) == [known |-> TRUE, entries |-> entries]

\* v1 has a library that it deletes and makes again. v2 has a program under the volume,
\* a layer of an unknown type, deletes a program it does not have, and hides its
\* library. v3 has a file where the others have a directory, deletes what it has just
\* added, and names no entrypoint.
MCImage ==
  "v1" :> [entrypoint |-> "app",
           layers |-> <<Layer(<<File("app"), File("lib/so")>>), Layer(<<Whiteout("lib")>>),
                        Layer(<<File("lib/so")>>)>>]
  @@ "v2" :> [entrypoint |-> "tool",
              layers |-> <<Layer(<<File("tool"), File("lib/so")>>),
                           [known |-> FALSE, entries |-> <<File("app")>>],
                           Layer(<<Whiteout("app"), Opaque("lib")>>)>>]
  @@ "v3" :> [entrypoint |-> Absent,
              layers |-> <<Layer(<<File("lib"), File("app"), Whiteout("app")>>)>>]
====
