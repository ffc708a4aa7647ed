---- MODULE ProcessConfig ----
(***************************************************************************)
(* The configuration of one application (ProcessConfig of protocol.rs) and *)
(* what the daemon turns it into when it starts the application.           *)
(*                                                                         *)
(* The data is abstracted to what decides how the program is started:      *)
(*                                                                         *)
(*   path   "source"     a file of the user, outside the app directory     *)
(*          "command"    a name looked up in PATH: no such file            *)
(*          "deployed"   the copy under /var/run/nyrun/apps/<name>/        *)
(*          "reference"  an image reference                                *)
(*          "entrypoint" the program found in an extracted image           *)
(*          "folder"     a directory of static files                       *)
(*   args   which arguments came from the image and which from the user    *)
(*   deny   the restrictions of the sandbox                                *)
(*   allow  "all", the application's own directory, or some other path     *)
(*   mapping, ssl, acme   what the proxy needs; opaque here                *)
(*                                                                         *)
(* An Option of the code is the value or None.                             *)
(***************************************************************************)
EXTENDS Naturals, Sequences

CONSTANTS
  Names,      \* application names
  Mappings,   \* port mappings
  Certs,      \* certificate/key file pairs given with --ssl
  Emails,     \* contact addresses given with --acme
  ImageArgs,  \* the arguments an image's entrypoint brings along
  None        \* the absent Option

Paths        == {"source", "command", "deployed", "reference", "entrypoint", "folder"}
ArgKinds     == {"image", "user"}
Restrictions == {"net", "io"}
Grants       == {"all", "own", "path"}

\* Every configuration the daemon can hold.
ConfigType ==
  [name    : Names,
   path    : Paths,
   args    : Seq(ArgKinds),
   deny    : SUBSET Restrictions,
   allow   : SUBSET Grants,
   spa     : BOOLEAN,
   is_oci  : BOOLEAN,
   mapping : Mappings \cup {None},
   ssl     : Certs \cup {None},
   acme    : Emails \cup {None}]

ASSUME ConfigAssumption ==
  /\ None \notin Names
  /\ ImageArgs \in Seq(ArgKinds)

-----------------------------------------------------------------------------
\* Does start_process copy the program into the app directory? Only a local
\* program whose path exists is copied; app_file is what apps/<name>/ holds.
CopiesBinary(c, app_file) ==
  /\ ~c.is_oci
  /\ ~c.spa
  /\ c.path = "source" \/ (c.path = "deployed" /\ app_file # "none")

\* What apps/<name>/ holds after that copy. Copying the deployed program onto
\* itself opens it for writing with truncation before a byte is read.
CopiedFile(c, app_file) ==
  IF ~CopiesBinary(c, app_file) THEN app_file
  ELSE IF c.path = "source" THEN "good" ELSE "empty"

\* An image is confined to its own directory unless --allow all was given;
\* "all" is consumed by lifting the restriction.
SandboxedImage(c) ==
  IF "all" \in c.allow
  THEN [c EXCEPT !.deny = @ \ {"io"}, !.allow = @ \ {"all"}]
  ELSE IF "io" \in c.deny THEN c
       ELSE [c EXCEPT !.deny = @ \cup {"io"}, !.allow = @ \cup {"own"}]

\* The configuration start_process runs, and stores in the process table.
StartConfig(c, app_file) ==
  IF c.is_oci
  THEN [SandboxedImage(c) EXCEPT !.path = "entrypoint", !.args = ImageArgs \o @]
  ELSE IF CopiesBinary(c, app_file) THEN [c EXCEPT !.path = "deployed"]
       ELSE c

\* Is there a program to execute at all? (A directory cannot be executed, and
\* a deployed program may be gone.) The truncated copy of a deployed program runs
\* in a sandbox only, where the exec falls back to a shell that takes the empty
\* file for a script; without a sandbox its exec fails.
Executable(c, app_file) ==
  \/ c.is_oci
  \/ c.path \in {"source", "command"}
  \/ c.path = "deployed" /\ app_file # "none" /\ c.deny # {}

\* What the new child runs: the application, or the truncated copy of it.
ProgramRun(c, app_file) ==
  IF CopiesBinary(c, app_file) /\ c.path = "deployed" THEN "empty" ELSE "app"

\* update_config followed by update_oci_config: u holds one Option per field
\* (image: whether a new image was given).
UpdateConfig(c, u) ==
  [c EXCEPT !.mapping = IF u.mapping = None THEN @ ELSE u.mapping,
            !.ssl     = IF u.ssl = None THEN @ ELSE u.ssl,
            !.acme    = IF u.acme = None THEN @ ELSE u.acme,
            !.args    = IF u.args = None THEN @ ELSE u.args,
            !.path    = IF u.image THEN "entrypoint" ELSE @,
            !.is_oci  = @ \/ u.image]

UpdateType ==
  [mapping : Mappings \cup {None},
   ssl     : Certs \cup {None},
   acme    : Emails \cup {None},
   args    : Seq(ArgKinds) \cup {None},
   image   : BOOLEAN]
====
