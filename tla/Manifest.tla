---- MODULE Manifest ----
(***************************************************************************)
(* The configuration file of nyrun (main.rs, and the references of         *)
(* oci.rs): `nyrun start' reads its documents, writes the ConfigMaps and   *)
(* runs the processes; `nyrun export' writes the running processes as such *)
(* a file; `nyrun run' makes a process of its arguments. The daemon is     *)
(* reduced to its table of configurations, which holds what handle_run and *)
(* start_process made of the ones it was sent.                             *)
(*                                                                         *)
(* A path is a file of the host (Local; Deployed, the copy of it under     *)
(* apps/<name>/; Entrypoint, the program of an extracted image), or what   *)
(* is written host:port/org/image:tag, an image reference or not:          *)
(*   [host, port, org, image, tag]                                         *)
(* whose parts, but for the image, may be missing (Absent). A host is      *)
(* dotted or plain. A name is the sequence of the texts it is put together *)
(* from. Arguments are written as one quoted text (the words of it, or     *)
(* Unbalanced), restrictions and grants as one with commas (their set; the *)
(* empty one for a text that is missing).                                  *)
(* Certificates, ACME addresses and pid files are copied like spa.         *)
(***************************************************************************)
EXTENDS Naturals, Sequences, FiniteSets, SequencesExt

CONSTANTS
  Texts,          \* what names, references and port mappings are put together from
  Names,          \* application names given to --only
  DottedHosts,    \* registries with a dot in their name
  PlainHosts,     \* registries without
  Hub,            \* docker.io
  Registries,     \* the values given to `nyrun set default-registry'
  Ports,          \* the texts that parse as a u16
  FreePorts,      \* those the system gives to a process that has none of its own
  Vars, Values,   \* environment variables
  PortVar,        \* PORT
  Words,          \* arguments, restrictions and grants
  CutTexts,       \* the texts with a comma
  Pieces,         \* what the directory of a name with a comma is split into
  ImageArgs,      \* the arguments of an image's entrypoint
  EnvFiles,       \* environment files
  EnvContents,    \* what users write to them
  Files,          \* the configuration files users write
  Runs,           \* the arguments given to `nyrun run'
  Local, Deployed, Entrypoint,   \* paths of the host
  LocalName,      \* the last part of Local and Deployed
  Unbalanced,     \* arguments with an open quote
  MaxProcesses,   \* bound: processes in the table
  MaxArgs,        \* bound: arguments of a process
  Absent

-----------------------------------------------------------------------------
Name == Seq(Texts)
Host == DottedHosts \cup PlainHosts
Registry == [host : Host, port : Ports \cup {Absent}]
ReferenceType == [host : Host \cup {Absent}, port : Ports \cup {Absent},
                  org : Texts \cup {Absent}, image : Texts, tag : Texts \cup {Absent}]
HostPath == {Local, Deployed, Entrypoint}
Path == ReferenceType \cup HostPath
Mapping == [host : Texts \cup {Absent}, port : Texts, app : Texts \cup {Absent}]
Volume == [kind : {"configmap", "directory", "host"}, name : Texts, dest : Texts]
Variables == UNION {[d -> Values] : d \in SUBSET Vars}
ArgsText == Seq(Words) \cup {Absent, Unbalanced}

\* The documents of a configuration file, the arguments of `nyrun run', and the
\* configurations they become (ProcessManifest, ConfigMap, ProcessConfig).
Process == [kind : {"Process"}, name : Name, path : Path, port : Seq(Texts) \cup {Absent},
            args : ArgsText, env_file : EnvFiles \cup {Absent}, env : Variables,
            deny : SUBSET Words, allow : SUBSET Words, volumes : SUBSET Volume, spa : BOOLEAN]
ConfigMap == [kind : {"ConfigMap"}, name : Texts]
Document == Process \cup ConfigMap \cup [kind : {"Other"}]
Arguments == [name : Name \cup {Absent}, path : Path, port : Seq(Texts) \cup {Absent},
              args : ArgsText, env_file : EnvFiles \cup {Absent},
              deny : SUBSET Words, allow : SUBSET Words, spa : BOOLEAN]
Config == [name : Name, path : Path, is_oci : BOOLEAN,
           oci_reference : ReferenceType \cup {Absent}, mapping : Mapping \cup {Absent},
           args : Seq(Words), env_file : EnvFiles \cup {Absent}, env : Variables,
           deny : SUBSET Words, allow : SUBSET Words, volumes : SUBSET Volume, spa : BOOLEAN]

\* What is absent or a path of the host is told from everything else.
ASSUME ManifestAssumption ==
  /\ Hub \in DottedHosts
  /\ DottedHosts \cap PlainHosts = {}
  /\ Host \cup Ports \cup {"library"} \subseteq Texts
  /\ Absent \notin Texts \cup EnvFiles
  /\ Absent \notin Seq(Texts)
  /\ Absent \notin Mapping
  /\ Absent \notin ReferenceType /\ HostPath \cap ReferenceType = {}
  /\ Absent \notin HostPath /\ Local # Deployed /\ Entrypoint \notin {Local, Deployed}
  /\ FreePorts \subseteq Ports /\ PortVar \in Vars /\ Ports \subseteq Values
  /\ {"all", "io", "own"} \cup Pieces \subseteq Words /\ CutTexts \subseteq Texts
  /\ ImageArgs \in Seq(Words)
  /\ {Absent, Unbalanced} \cap Seq(Words) = {}
  /\ LocalName \in Name
  /\ Registries \subseteq Registry
  /\ EnvContents \subseteq Variables
  /\ Files \subseteq Seq(Document)
  /\ Runs \subseteq Arguments
  /\ MaxProcesses \in Nat /\ MaxArgs \in Nat

VARIABLES
  registry,    \* the default registry in settings.json
  env_files,   \* what the environment files hold; Absent: no such file
  configmaps,  \* the ConfigMaps on disk
  processes,   \* the configurations in the daemon's table
  emptied,     \* the applications whose copy under apps/ was truncated
  file,        \* ecosystem.yaml
  start        \* `nyrun start': the documents, how many were read, what it collected

manifestVars == <<registry, env_files, configmaps, processes, emptied, file, start>>

-----------------------------------------------------------------------------
\* References. (oci.rs)

Reference(host, port, org, image, tag) ==
  [host |-> host, port |-> port, org |-> org, image |-> image, tag |-> tag]
HasSlash(r) == r.host # Absent \/ r.org # Absent

\* What stands before the first slash looks like a registry: it has a dot or a
\* port. Without a host it is the organisation.
HasRegistry(r) == HasSlash(r) /\ r.host # Absent /\ (r.host \in DottedHosts \/ r.port # Absent)

is_oci_reference(p) ==
  /\ p \notin HostPath
  /\ HasRegistry(p) \/ (~HasSlash(p) /\ p.tag # Absent)

\* A short name gets the default registry in front; on docker.io also "library".
normalize_reference(r) ==
  IF HasRegistry(r) THEN r
  ELSE Reference(registry.host, registry.port,
                 IF registry = [host |-> Hub, port |-> Absent] THEN "library" ELSE r.org,
                 r.image, r.tag)

\* The name of a process that was given none: what precedes the first colon, after
\* its last slash. Behind a registry with a port that is the registry.
image_name_from_ref(r) == IF r.host # Absent /\ r.port # Absent THEN <<r.host>> ELSE <<r.image>>
derive_name(p, n) ==
  CASE n # Absent -> n
    [] n = Absent /\ p \in HostPath -> LocalName
    [] n = Absent /\ is_oci_reference(p) -> image_name_from_ref(p)
    [] OTHER -> IF p.tag = Absent THEN <<p.image>> ELSE <<p.image, p.tag>>

-----------------------------------------------------------------------------
\* Port mappings: the parts of "host:public:app".

format_port_mapping(m) ==
  IF m.host # Absent THEN <<m.host, m.port, IF m.app = Absent THEN m.port ELSE m.app>>
  ELSE IF m.app # Absent THEN <<m.port, m.app>> ELSE <<m.port>>

\* parse_port_mapping, and parse_port_mapping_str of the daemon.
PortsParse(parts) ==
  /\ Len(parts) \in 1..3
  /\ \A i \in DOMAIN parts : Len(parts) < 3 \/ i > 1 => parts[i] \in Ports
parse_port_mapping(parts) ==
  CASE Len(parts) = 1 -> [host |-> Absent, port |-> parts[1], app |-> Absent]
    [] Len(parts) = 2 -> [host |-> Absent, port |-> parts[1], app |-> parts[2]]
    [] Len(parts) = 3 -> [host |-> parts[1], port |-> parts[2], app |-> parts[3]]

\* A volume of a ConfigMap becomes one of the directory the ConfigMap is written
\* to; others are left alone.
resolve_configmap_volumes(volumes) ==
  {IF v.kind = "configmap" THEN [v EXCEPT !.kind = "directory"] ELSE v : v \in volumes}

-----------------------------------------------------------------------------
\* Arguments are split like a shell does, and joined so that they can be; a text with
\* an open quote is none.
parse_args_string(text) == IF text \in {Absent, Unbalanced} THEN <<>> ELSE text
JoinedArgs(args) == IF args = <<>> THEN Absent ELSE args

\* parse_deny and parse_allow split at commas, and a missing text is no word. A word of
\* the user has no comma, but the directory of an application may, which is granted to
\* its image.
Cut(n) == \E i \in DOMAIN n : n[i] \in CutTexts
JoinedList(list, n) ==
  IF "own" \in list /\ Cut(n) THEN (list \ {"own"}) \cup Pieces ELSE list

-----------------------------------------------------------------------------
NoVars == [v \in {} |-> v]

\* Wrong: the file has the last word.
Environment_file_last(ef, extra) ==
  [v \in DOMAIN ef \cup DOMAIN extra |-> IF v \in DOMAIN ef THEN ef[v] ELSE extra[v]]

\* The environment file, extended by the variables of the manifest.
Environment(ef, extra) ==
  [v \in DOMAIN ef \cup DOMAIN extra |-> IF v \in DOMAIN extra THEN extra[v] ELSE ef[v]]

\* A manifest that can be turned into a configuration.
Convertible(m) ==
  /\ m.env_file # Absent => env_files[m.env_file] # Absent
  /\ m.port # Absent => PortsParse(m.port)

manifest_to_config(m) ==
  LET oci  == is_oci_reference(m.path)
      path == IF oci THEN normalize_reference(m.path) ELSE m.path
      ef   == IF m.env_file = Absent THEN NoVars ELSE env_files[m.env_file]
  IN  [name |-> m.name, path |-> path, is_oci |-> oci,
       oci_reference |-> IF oci THEN path ELSE Absent,
       mapping |-> IF m.port = Absent THEN Absent ELSE parse_port_mapping(m.port),
       args |-> parse_args_string(m.args),
       env_file |-> m.env_file, env |-> Environment(ef, m.env),
       deny |-> m.deny, allow |-> m.allow,
       volumes |-> resolve_configmap_volumes(m.volumes), spa |-> m.spa]

config_to_manifest(c) ==
  [kind |-> "Process", name |-> c.name,
   path |-> IF c.oci_reference = Absent THEN c.path ELSE c.oci_reference,
   port |-> IF c.mapping = Absent THEN Absent ELSE format_port_mapping(c.mapping),
   args |-> JoinedArgs(c.args), env_file |-> c.env_file, env |-> c.env,
   deny |-> JoinedList(c.deny, c.name), allow |-> JoinedList(c.allow, c.name),
   volumes |-> c.volumes, spa |-> c.spa]

-----------------------------------------------------------------------------
\* What the daemon makes of a configuration before it stores it.

\* handle_run: a process without a port of its own is given a free one.
Remaps(c) == c.mapping # Absent /\ c.mapping.app \in {Absent, c.mapping.port}
Remapped(c) ==
  IF Remaps(c)
  THEN {[c EXCEPT !.mapping.app = p, !.env = Environment(@, [v \in {PortVar} |-> p])] : p \in FreePorts}
  ELSE {c}

\* An image is confined to its own directory unless "all" was granted.
Sandboxed(c) ==
  IF "all" \in c.allow
  THEN [c EXCEPT !.deny = @ \ {"io"}, !.allow = @ \ {"all"}]
  ELSE IF "io" \in c.deny THEN c
       ELSE [c EXCEPT !.deny = @ \cup {"io"}, !.allow = @ \cup {"own"}]

\* start_process: an image is pulled, a local program that exists is copied. Static
\* files behind a port are not started; a reference is not a directory of them.
start_process(c) ==
  CASE c.is_oci /\ c.spa /\ c.mapping # Absent -> {}
    [] c.is_oci /\ ~(c.spa /\ c.mapping # Absent) ->
         {[Sandboxed(c) EXCEPT !.path = Entrypoint, !.args = ImageArgs \o @]}
    [] ~c.is_oci /\ (c.spa \/ c.path = Deployed) -> {c}
    [] OTHER -> {c, [c EXCEPT !.path = Deployed]}
Stored(c) == UNION {start_process(d) : d \in Remapped(c)}

-----------------------------------------------------------------------------
EnvFileContents == EnvContents \cup {Absent}
Managed == {c.name : c \in processes}
IdleStart == [at |-> "idle", docs |-> <<>>, next |-> 0, manifests |-> <<>>]

ManifestTypeOK ==
  /\ registry \in Registry
  /\ env_files \in [EnvFiles -> EnvFileContents]
  /\ configmaps \subseteq Texts
  /\ processes \subseteq Config
  /\ emptied \subseteq Name
  /\ file \in Seq(Document)
  /\ start \in [at : {"idle", "read", "run"}, docs : Seq(Document), next : Nat,
                manifests : Seq(Process)]

ManifestInit ==
  /\ registry = [host |-> Hub, port |-> Absent]
  /\ env_files = [f \in EnvFiles |-> Absent]
  /\ configmaps = {}
  /\ processes = {}
  /\ emptied = {}
  /\ file = <<>>
  /\ start = IdleStart

\* `nyrun start file', or with --only.
BeginStart ==
  /\ start = IdleStart
  /\ start' = [at |-> "read", docs |-> file, next |-> 1, manifests |-> <<>>]
  /\ UNCHANGED <<registry, env_files, configmaps, processes, emptied, file>>

\* Wrong: a process is collected before the ConfigMaps after it are written, and
\* reading stops there.
ReadDocument_stops ==
  /\ start.at = "read"
  /\ start.next <= Len(start.docs)
  /\ LET doc == start.docs[start.next] IN
       CASE doc.kind = "ConfigMap" ->
              /\ configmaps' = configmaps \cup {doc.name}
              /\ start' = [start EXCEPT !.next = @ + 1]
         [] doc.kind = "Process" ->
              /\ start' = [start EXCEPT !.at = "run", !.manifests = Append(@, doc)]
              /\ UNCHANGED configmaps
         [] OTHER -> start' = IdleStart /\ UNCHANGED configmaps
  /\ UNCHANGED <<registry, env_files, processes, emptied, file>>

\* One document after the other. A ConfigMap is written at once; a process is kept
\* for later; anything else ends the command, and the ConfigMaps stay.
ReadDocument ==
  /\ start.at = "read"
  /\ start.next <= Len(start.docs)
  /\ LET doc == start.docs[start.next] IN
       CASE doc.kind = "ConfigMap" ->
              /\ configmaps' = configmaps \cup {doc.name}
              /\ start' = [start EXCEPT !.next = @ + 1]
         [] doc.kind = "Process" ->
              /\ start' = [start EXCEPT !.next = @ + 1, !.manifests = Append(@, doc)]
              /\ UNCHANGED configmaps
         [] OTHER -> start' = IdleStart /\ UNCHANGED configmaps
  /\ UNCHANGED <<registry, env_files, processes, emptied, file>>

\* The end of the file: no process is an error; --only keeps one of them, the first
\* of that name, and it is an error if there is none.
FirstNamed(manifests, n) ==
  {manifests[i] : i \in {k \in DOMAIN manifests :
     manifests[k].name = n /\ \A j \in 1..(k - 1) : manifests[j].name # n}}

DocumentsRead(only) ==
  /\ start.at = "read"
  /\ start.next > Len(start.docs)
  /\ LET chosen == IF only = Absent THEN {start.manifests} \ {<<>>}
                   ELSE {<<m>> : m \in FirstNamed(start.manifests, only)} IN
       \/ chosen = {} /\ start' = IdleStart
       \/ \E manifests \in chosen :
            start' = [start EXCEPT !.at = "run", !.manifests = manifests]
  /\ UNCHANGED <<registry, env_files, configmaps, processes, emptied, file>>

\* start_process refuses a volume whose source does not exist.
VolumesExist(c) == \A v \in c.volumes : v.kind = "directory" => v.name \in configmaps

\* The copy of a local program comes first, whatever happens then. A deployed program is
\* copied onto itself: the copy is truncated before it is read.
Emptied(c, s) ==
  CASE c.is_oci \/ s.spa \/ s.path # Deployed -> emptied
    [] OTHER -> IF c.path = Deployed THEN emptied \cup {c.name} ELSE emptied \ {c.name}

\* An empty file is only run in a sandbox, by the shell the exec falls back to.
Executable(c, s) == s.path = Deployed /\ s.name \in Emptied(c, s) => s.deny # {}

\* The daemon answers a Run or Bin request: it refuses a name it has, and may always
\* fail to pull the image or to start the program.
Accept(c) ==
  /\ c.name \notin Managed
  /\ \E s \in Stored(c) :
       /\ emptied' = Emptied(c, s)
       /\ \/ UNCHANGED processes
          \/ /\ Cardinality(processes) < MaxProcesses /\ Len(s.args) <= MaxArgs
             /\ VolumesExist(s) /\ Executable(c, s)
             /\ processes' = processes \cup {s}

\* One process after the other: a manifest that cannot be converted is counted and
\* skipped, and so is a process the daemon refuses.
RunManifest ==
  /\ start.at = "run"
  /\ LET m == Head(start.manifests) IN
       \/ Convertible(m) /\ Accept(manifest_to_config(m))
       \/ UNCHANGED <<processes, emptied>>
  /\ start' = IF Len(start.manifests) = 1 THEN IdleStart
              ELSE [start EXCEPT !.manifests = Tail(@)]
  /\ UNCHANGED <<registry, env_files, configmaps, file>>

\* `nyrun run', which has neither variables of its own nor volumes. The name is
\* derived from the normalised path.
RunCommand(r) ==
  LET m == [name |-> r.name, path |-> r.path, port |-> r.port, args |-> r.args,
            env_file |-> r.env_file, env |-> NoVars, deny |-> r.deny, allow |-> r.allow,
            volumes |-> {}, spa |-> r.spa]
      c == manifest_to_config(m)
  IN  /\ Convertible(m)
      /\ Accept([c EXCEPT !.name = derive_name(c.path, r.name)])
      /\ UNCHANGED <<registry, env_files, configmaps, file, start>>

\* `nyrun export': one document per process, in any order.
Export ==
  /\ start = IdleStart
  /\ file' \in {[i \in DOMAIN s |-> config_to_manifest(s[i])] : s \in SetToSeqs(processes)}
  /\ UNCHANGED <<registry, env_files, configmaps, processes, emptied, start>>

\* `nyrun del'.
Del(n) ==
  /\ n \in Managed
  /\ processes' = {c \in processes : c.name # n}
  /\ UNCHANGED <<registry, env_files, configmaps, emptied, file, start>>

-----------------------------------------------------------------------------
\* `nyrun set default-registry'.
save_default_registry(r) ==
  /\ registry' = r
  /\ UNCHANGED <<env_files, configmaps, processes, emptied, file, start>>

\* The user writes a configuration file, or edits or removes an environment file.
WriteFile(f) ==
  /\ file' = f
  /\ UNCHANGED <<registry, env_files, configmaps, processes, emptied, start>>

EditEnvFile(f, e) ==
  /\ env_files' = [env_files EXCEPT ![f] = e]
  /\ UNCHANGED <<registry, configmaps, processes, emptied, file, start>>

ManifestNext ==
  \/ BeginStart \/ ReadDocument \/ RunManifest \/ Export
  \/ \E only \in Names \cup {Absent} : DocumentsRead(only)
  \/ \E n \in Managed : Del(n)
  \/ \E r \in Runs : RunCommand(r)
  \/ \E r \in Registries : save_default_registry(r)
  \/ \E f \in Files : WriteFile(f)
  \/ \E f \in EnvFiles, e \in EnvFileContents : EditEnvFile(f, e)

ManifestSpec == ManifestInit /\ [][ManifestNext]_manifestVars

-----------------------------------------------------------------------------
(* Properties. *)

\* The exported configuration is read as it was, and the daemon stores it again, with any
\* default registry and environment file by then. The file must still be there, may
\* add variables, and does not change those the process had. What the daemon does not
\* undo, and does again: an image gets its own arguments once more; one that everything
\* was granted is confined; the directory of a name with a comma is split; a port that
\* equals the public one is replaced. An image from a registry without a dot or a port
\* in its name is taken for a file of the host.
ExportRoundTrip ==
  \A c \in processes :
    LET m == config_to_manifest(c) IN
      /\ Convertible(m) \/ (c.env_file # Absent /\ env_files[c.env_file] = Absent)
      /\ Convertible(m) => \A s \in Stored(manifest_to_config(m)) :
           /\ s.name = c.name /\ s.spa = c.spa /\ s.volumes = c.volumes
           /\ ~Remaps(c) => s.mapping = c.mapping /\ \A v \in DOMAIN c.env : s.env[v] = c.env[v]
           /\ ~c.is_oci => /\ ~s.is_oci /\ s.path \in {c.path, Deployed}
                           /\ s.args = c.args
                           /\ Cut(c.name) \/ (s.deny = c.deny /\ s.allow = c.allow)
           /\ c.is_oci /\ HasRegistry(c.oci_reference) =>
                /\ s.is_oci /\ s.oci_reference = c.oci_reference
                /\ s.args = ImageArgs \o c.args
                /\ "io" \in c.deny /\ "all" \notin c.allow /\ ~Cut(c.name)
                     => s.deny = c.deny /\ s.allow = c.allow

\* "First pass: process ConfigMaps, second pass: process Process manifests": when the
\* first process is run, every document of the file has been read and found good,
\* and every ConfigMap of it is on disk, wherever in the file it stands.
StartsAfterReading ==
  start.at = "run" =>
    \A i \in DOMAIN start.docs :
      /\ start.docs[i].kind \in {"ConfigMap", "Process"}
      /\ start.docs[i].kind = "ConfigMap" => start.docs[i].name \in configmaps
====
