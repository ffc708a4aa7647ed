---- MODULE Images ----
(***************************************************************************)
(* Images (oci.rs) and the directory oci/<name>/ one of them is extracted  *)
(* to, for one application: pull_and_extract, find_entrypoint, and who     *)
(* calls them. start_process pulls under the daemon's mutex, each time the *)
(* application is started. handle_update pulls before it takes the mutex   *)
(* and before it knows whether the application exists, into the directory  *)
(* of the application that may be running or starting; then it restarts    *)
(* it, which pulls again. The directory is never emptied.                  *)
(*                                                                         *)
(* An entry of a layer that cannot be unpacked is passed over: the pull    *)
(* goes on. The volumes of the application are copied into the directory   *)
(* after the entrypoint was found.                                         *)
(***************************************************************************)
EXTENDS Naturals, Sequences

CONSTANTS
  References,  \* image references
  Image,       \* the image of a reference in the registry
  Paths,       \* paths of files, in an image or in the directory
  Programs,    \* executables in the directories that are searched for one
  Below,       \* the files that removing a path removes with it
  Volumes,     \* where the volumes of the application are copied to, in order
  Faulty,      \* the paths where writing and removing may fail for no reason
  Updates,     \* update requests
  MaxStarts,   \* bound on the times the application is started
  Host,        \* what a volume holds
  Partial,     \* a file that was not written to its end
  Absent       \* no file, no application, no entrypoint

\* An image: the entrypoint its configuration names, and its layers, which are of a
\* known type or skipped, and have entries: a file with its contents, a whiteout
\* (.wh.<name>) that deletes a path, or an opaque marker (.wh..wh..opq).
Entry == [kind : {"file", "whiteout", "opaque"}, path : Paths]
ImageType == [entrypoint : Paths \cup {Absent},
              layers : Seq([known : BOOLEAN, entries : Seq(Entry)])]

Start == "start"

ASSUME ImagesAssumption ==
  /\ Image \in [References -> ImageType]
  /\ Below \in [Paths -> SUBSET Paths]
  /\ \A p \in Paths : p \in Below[p]
  /\ Volumes \in Seq(Paths)
  /\ Start \notin Updates
  /\ Absent \notin References
  /\ MaxStarts \in Nat

VARIABLES
  dir,         \* what the files of the directory hold
  config,      \* the reference that .oci-config.json came from
  pulls,       \* the pulls: one under the mutex, one per update request
  skipped,     \* the paths whose last entry the pull under the mutex has passed over
  found,       \* the program that start_process has found
  mounted,     \* how many volumes it has copied
  app,         \* the entry of the process table
  starts,
  alone        \* has the pull under the mutex been the only one so far?

startVars == <<found, mounted>>
vars == <<dir, config, pulls, skipped, startVars, app, starts, alone>>

-----------------------------------------------------------------------------
Pullers == Updates \cup {Start}
Data(r, p) == <<r, p>>

IdlePull == [at |-> "idle", ref |-> Absent, layer |-> 1, entry |-> 1]
NewPull(r) == [at |-> "manifest", ref |-> r, layer |-> 1, entry |-> 1]

Layers(r) == Image[r].layers

Contents == {Data(r, p) : r \in References, p \in Paths} \cup {Host, Partial, Absent}

TypeOK ==
  /\ dir \in [Paths -> Contents]
  /\ config \in References \cup {Absent}
  /\ pulls \in [Pullers -> {IdlePull} \cup
                 [at : {"manifest", "config", "layers", "entrypoint", "volumes", "apply"},
                  ref : References, layer : Nat \ {0}, entry : Nat \ {0}]]
  /\ skipped \subseteq Paths
  /\ found \in Paths \cup {Absent}
  /\ mounted \in 0..Len(Volumes)
  /\ app \in {Absent} \cup [ref : References, running : BOOLEAN, program : Paths \cup {Absent}]
  /\ starts \in 0..MaxStarts
  /\ alone \in BOOLEAN

Init ==
  /\ dir = [p \in Paths |-> Absent]
  /\ config = Absent
  /\ pulls = [t \in Pullers |-> IdlePull]
  /\ skipped = {}
  /\ found = Absent
  /\ mounted = 0
  /\ app = Absent
  /\ starts = 0
  /\ alone = FALSE

-----------------------------------------------------------------------------
LockFree == pulls[Start] = IdlePull
Others == {t \in Updates : pulls[t].at \in {"manifest", "config", "layers"}}
Go(t, at) == pulls' = [pulls EXCEPT ![t].at = at]
Returns(t) == pulls' = [pulls EXCEPT ![t] = IdlePull]

\* The mutex is taken and start_process begins to pull.
BeginPull ==
  /\ starts < MaxStarts
  /\ starts' = starts + 1
  /\ alone' = (Others = {})
  /\ skipped' = {}
  /\ mounted' = 0
  /\ UNCHANGED found

\* spawn_process, for a name that is free.
Run(r) ==
  /\ LockFree
  /\ app = Absent
  /\ BeginPull
  /\ pulls' = [pulls EXCEPT ![Start] = NewPull(r)]
  /\ UNCHANGED <<dir, config, app>>

\* restart, by a request or by the health check: the child is killed first.
Restart ==
  /\ LockFree
  /\ app # Absent
  /\ BeginPull
  /\ app' = [app EXCEPT !.running = FALSE]
  /\ pulls' = [pulls EXCEPT ![Start] = NewPull(app.ref)]
  /\ UNCHANGED <<dir, config>>

\* The child exits.
Exit ==
  /\ app # Absent /\ app.running
  /\ app' = [app EXCEPT !.running = FALSE]
  /\ UNCHANGED <<dir, config, pulls, skipped, startVars, starts, alone>>

\* The entry is deleted, the directory is not.
Delete ==
  /\ LockFree
  /\ app # Absent
  /\ app' = Absent
  /\ UNCHANGED <<dir, config, pulls, skipped, startVars, starts, alone>>

\* handle_update with an image, up to the mutex.
BeginUpdate(t, r) ==
  /\ pulls[t] = IdlePull
  /\ pulls' = [pulls EXCEPT ![t] = NewPull(r)]
  /\ alone' = FALSE
  /\ UNCHANGED <<dir, config, skipped, startVars, app, starts>>

-----------------------------------------------------------------------------
\* pull_and_extract: the manifest, the configuration, the layers.
PullManifest(t) ==
  /\ pulls[t].at = "manifest"
  /\ Go(t, "config")
  /\ UNCHANGED <<dir, config, skipped, startVars, app, starts, alone>>

\* Wrong: a configuration that is there is kept.
WriteConfig_once(t) ==
  /\ pulls[t].at = "config"
  /\ config' = IF config = Absent THEN pulls[t].ref ELSE config
  /\ Go(t, "layers")
  /\ UNCHANGED <<dir, skipped, startVars, app, starts, alone>>

WriteConfig(t) ==
  /\ pulls[t].at = "config"
  /\ config' = pulls[t].ref
  /\ Go(t, "layers")
  /\ UNCHANGED <<dir, skipped, startVars, app, starts, alone>>

\* A file cannot be where a directory is, or below a file.
Blocked(p) == \E q \in Paths \ {p} : dir[q] # Absent /\ (q \in Below[p] \/ p \in Below[q])

\* What the pull under the mutex has done and passed over.
Note(t, done, passed) ==
  skipped' = IF t = Start THEN (skipped \ done) \cup passed ELSE skipped

\* A file is unpacked, in the place of the one that is there. An error is ignored:
\* then the old file is there, or none, or a part of the new one. What blocks the
\* path stays.
UnpackFile(t, p) ==
  \/ /\ ~Blocked(p)
     /\ dir' = [dir EXCEPT ![p] = Data(pulls[t].ref, p)]
     /\ Note(t, {p}, {})
  \/ /\ Blocked(p) /\ UNCHANGED dir
     /\ Note(t, {}, {p})
  \/ /\ ~Blocked(p) /\ p \in Faulty
     /\ \E left \in {dir[p], Absent, Partial} : dir' = [dir EXCEPT ![p] = left]
     /\ Note(t, {}, {p})

\* Wrong: whiteouts are skipped like any unknown entry.
RemoveWhiteout_never(t, p) == UNCHANGED dir /\ Note(t, Below[p], {})

\* A whiteout removes the path and all below it, and errors are ignored.
RemoveWhiteout(t, p) ==
  LET there == {q \in Below[p] : dir[q] # Absent} IN
    \E kept \in SUBSET (there \cap Faulty) :
      /\ dir' = [q \in Paths |-> IF q \in there \ kept THEN Absent ELSE dir[q]]
      /\ Note(t, Below[p], kept)

\* extract_layer goes through the entries of a layer, unless its type is unknown.
CurrentLayer(t) == Layers(pulls[t].ref)[pulls[t].layer]
MoreLayers(t) == pulls[t].layer <= Len(Layers(pulls[t].ref))
MoreEntries(t) ==
  MoreLayers(t) /\ CurrentLayer(t).known /\ pulls[t].entry <= Len(CurrentLayer(t).entries)

\* extract_tar_entries, for one entry. The opaque marker is taken for the whiteout of a
\* file that does not exist.
ExtractEntry(t) ==
  /\ pulls[t].at = "layers"
  /\ MoreEntries(t)
  /\ LET e == CurrentLayer(t).entries[pulls[t].entry] IN
       \/ e.kind = "file" /\ UnpackFile(t, e.path)
       \/ e.kind = "whiteout" /\ RemoveWhiteout(t, e.path)
       \/ e.kind = "opaque" /\ UNCHANGED <<dir, skipped>>
  /\ pulls' = [pulls EXCEPT ![t].entry = @ + 1]
  /\ UNCHANGED <<config, startVars, app, starts, alone>>

NextLayer(t) ==
  /\ pulls[t].at = "layers"
  /\ MoreLayers(t) /\ ~MoreEntries(t)
  /\ pulls' = [pulls EXCEPT ![t].layer = @ + 1, ![t].entry = 1]
  /\ UNCHANGED <<dir, config, skipped, startVars, app, starts, alone>>

Pulled(t) ==
  /\ pulls[t].at = "layers"
  /\ ~MoreLayers(t)
  /\ Go(t, "entrypoint")
  /\ UNCHANGED <<dir, config, skipped, startVars, app, starts, alone>>

\* The registry does not answer, a blob or an archive cannot be read, the child not be
\* spawned or the rest of an update not be read: what was extracted stays, and so does
\* an entry without a child.
Fails(t) ==
  /\ pulls[t].at \in {"manifest", "config", "layers", "entrypoint", "volumes"}
  /\ Returns(t)
  /\ UNCHANGED <<dir, config, skipped, startVars, app, starts, alone>>

\* find_entrypoint: the program the configuration names, at its path in the
\* directory if that exists and as a program of the host otherwise; or else any
\* executable, in the order of the directory.
Present(d) == {p \in Programs : d[p] # Absent}
FindEntrypoint(d, c) ==
  IF c # Absent /\ Image[c].entrypoint # Absent
  THEN {Image[c].entrypoint}
  ELSE Present(d)

\* start_process has found the entrypoint and turns to the volumes.
StartFound(p) ==
  /\ pulls[Start].at = "entrypoint"
  /\ p \in FindEntrypoint(dir, config)
  /\ found' = p
  /\ Go(Start, "volumes")
  /\ UNCHANGED <<dir, config, skipped, mounted, app, starts, alone>>

\* A volume is copied over what the image has there. If it cannot be copied the start
\* fails, with a part of it in place or none.
MountVolume ==
  /\ pulls[Start].at = "volumes"
  /\ mounted < Len(Volumes)
  /\ LET v == Volumes[mounted + 1] IN
       \/ /\ ~Blocked(v)
          /\ dir' = [dir EXCEPT ![v] = Host]
          /\ mounted' = mounted + 1
          /\ UNCHANGED pulls
       \/ /\ ~Blocked(v) /\ v \in Faulty
          /\ dir' = [dir EXCEPT ![v] = Partial]
          /\ Returns(Start)
          /\ UNCHANGED mounted
  /\ UNCHANGED <<config, skipped, found, app, starts, alone>>

\* The child is spawned. The entry holds the reference, for the next start.
Spawn ==
  /\ pulls[Start].at = "volumes"
  /\ mounted = Len(Volumes)
  /\ app' = [ref |-> pulls[Start].ref, running |-> TRUE, program |-> found]
  /\ Returns(Start)
  /\ UNCHANGED <<dir, config, skipped, startVars, starts, alone>>

NoEntrypoint(t) ==
  /\ pulls[t].at = "entrypoint"
  /\ FindEntrypoint(dir, config) = {}
  /\ Returns(t)
  /\ UNCHANGED <<dir, config, skipped, startVars, app, starts, alone>>

\* handle_update found an entrypoint and waits for the mutex.
UpdateFound(t) ==
  /\ t # Start
  /\ pulls[t].at = "entrypoint"
  /\ FindEntrypoint(dir, config) # {}
  /\ Go(t, "apply")
  /\ UNCHANGED <<dir, config, skipped, startVars, app, starts, alone>>

\* Then the reference is stored and the application restarted, if there is one.
Update(t) ==
  /\ LockFree
  /\ pulls[t].at = "apply"
  /\ IF app = Absent
     THEN Returns(t) /\ UNCHANGED <<skipped, startVars, app, starts, alone>>
     ELSE /\ BeginPull
          /\ app' = [app EXCEPT !.ref = pulls[t].ref, !.running = FALSE]
          /\ pulls' = [pulls EXCEPT ![t] = IdlePull,
                         ![Start] = NewPull(pulls[t].ref)]
  /\ UNCHANGED <<dir, config>>

-----------------------------------------------------------------------------
pull_and_extract(t) ==
  PullManifest(t) \/ WriteConfig(t) \/ ExtractEntry(t) \/ NextLayer(t) \/ Pulled(t)

Next ==
  \/ \E r \in References : Run(r) \/ \E t \in Updates : BeginUpdate(t, r)
  \/ Restart \/ Exit \/ Delete
  \/ \E t \in Pullers : pull_and_extract(t) \/ Fails(t) \/ NoEntrypoint(t)
  \/ \E p \in Paths : StartFound(p)
  \/ MountVolume \/ Spawn
  \/ \E t \in Updates : UpdateFound(t) \/ Update(t)

Spec == Init /\ [][Next]_vars

-----------------------------------------------------------------------------
(* Properties. *)

\* What the layers of an image mean: a file is the one of the topmost layer that has
\* it, unless a layer above that one deletes it or a directory it is in. Only lower
\* layers are affected by a whiteout or an opaque marker.
AddsAt(layer, i, p) == layer.entries[i].kind = "file" /\ layer.entries[i].path = p
DeletesAt(layer, i, p) == layer.entries[i].kind = "whiteout" /\ p \in Below[layer.entries[i].path]
HidesAt(layer, i, p) ==
  layer.entries[i].kind = "opaque" /\ p \in Below[layer.entries[i].path] \ {layer.entries[i].path}
Mentions(layer, p) ==
  \E i \in DOMAIN layer.entries : AddsAt(layer, i, p) \/ DeletesAt(layer, i, p) \/ HidesAt(layer, i, p)
Adds(layer, p) == \E i \in DOMAIN layer.entries : AddsAt(layer, i, p)
Mentioning(r, p) == {i \in DOMAIN Layers(r) : Layers(r)[i].known /\ Mentions(Layers(r)[i], p)}
TopLayer(r, p) ==
  Layers(r)[CHOOSE i \in Mentioning(r, p) : \A j \in Mentioning(r, p) : j <= i]
Overlay(r, p) == IF Adds(TopLayer(r, p), p) THEN Data(r, p) ELSE Absent

Mentioned(r) == {p \in Paths : Mentioning(r, p) # {}}

\* Where the code reads a layer otherwise: an opaque marker deletes nothing, and a
\* whiteout deletes a file that stands before it in the same layer.
Misread(layer, p) ==
  \/ \A i \in DOMAIN layer.entries : ~AddsAt(layer, i, p) /\ ~DeletesAt(layer, i, p)
  \/ \E i, j \in DOMAIN layer.entries : i < j /\ AddsAt(layer, i, p) /\ DeletesAt(layer, j, p)

VolumePaths == {Volumes[i] : i \in DOMAIN Volumes}

Spawned == app' # Absent /\ app'.running /\ ~(app # Absent /\ app.running)

\* The file system a program starts in is its volumes over its image, on every path the
\* image says something about: whatever an earlier image, a failed pull or an update
\* that was given up left in the directory. It differs only where the pull passed over
\* an entry, where an opaque marker or a whiteout in the file's own layer is misread,
\* and if an update was pulling into the directory during the start.
ImageInPlace ==
  [][Spawned /\ alone =>
       /\ \A v \in VolumePaths : dir'[v] = Host
       /\ \A p \in Mentioned(app'.ref) \ VolumePaths :
            \/ p \in skipped'
            \/ Misread(TopLayer(app'.ref, p), p)
            \/ dir'[p] = Overlay(app'.ref, p)]_vars

\* A program that starts is the one the image of the entry names, under the same
\* condition, and not the one of an image the application had before or failed to
\* get. An image that names none starts any program that is there.
RightProgram ==
  [][Spawned /\ alone /\ Image[app'.ref].entrypoint # Absent
       => app'.program = Image[app'.ref].entrypoint]_vars
====
