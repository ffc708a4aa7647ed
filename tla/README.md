# Verification of nyrun

TLA+ models of nyrun (process manager, reverse proxy, certificate issue, saved state,
cloud agent, logs, images, command line and daemon start), TLC runs on small instances,
and TLAPS proofs. Paths like `process.rs:341` are relative to `src/src/`.

## 1. The system

`nyrun` is a command line that talks over a Unix socket to one daemon. The daemon
starts applications as ordinary processes, restarts them when they crash, puts an
HTTP proxy in front of them, fetches certificates for them, saves the list of them
and can be driven from a cloud service. The shared state of the daemon is `DaemonState`
behind **one** tokio mutex.

| Component | State | Operations | Interacts through |
|---|---|---|---|
| Process manager (`process.rs`) | table name → configuration, child, status, restart count; a gauge | spawn, register_spa, delete, restart/reload, update, kill_all, health check every 2 s | called under the mutex; children exit on their own |
| Proxy manager (`proxy.rs`, `tls.rs`) | route table, live/TLS/dead ports, certificate store, cache handed to servers | add_route(_with_tls), remove_routes, set_cache_ttl | starts Pingora servers on threads that share the table, the dead ports and the cache |
| Request pipeline (`proxy.rs`) | per-request context, cache | request_filter, upstream_peer, response filters, insert task | reads the table and the dead ports without the mutex |
| Request handlers and life of the daemon (`server.rs`, `daemon.rs`) | `DaemonState` | Run, Bin, Del, Restart, Reload, Update, Set, Save, Kill; restore at start; exit 100 ms after Kill | calls the managers and the store |
| State store (`state.rs`) | saved configurations in SlateDB; an old `state.json` | open, migrate, load, save, close | called at start and by Save and Kill |
| ACME (`acme.rs`) | challenge tokens, `account.json`, `cert.pem`, `key.pem`, hosts to renew | issue_cert, renewal loop every 12 h | tasks without the mutex; tokens read by the proxy; certificates go to the store of `tls.rs` |
| Cloud agent (`cloud.rs`) | agent task, stop channel, API key in the store | link, unlink, connect, commands, backoff | sends requests to the daemon's own socket |
| Log capture and rotation (`process.rs`) | a pipe and a task per child, the log and its rotated files | open, copy, rotate every 60 s | tasks open the log by path and without the mutex; rotation renames it under them |
| OCI images (`oci.rs`) | `oci/<name>/` and its `.oci-config.json` | pull_and_extract, find_entrypoint | start_process under the mutex, handle_update before it takes the mutex |
| Client and daemon start (`client.rs`, `daemon.rs`, `main.rs`) | `nyrun.sock`, `nyrun.pid` | look for a daemon, start one, send, wait; kill and clean up | every command, the daemons and the agent see the same two files |
| Command line and manifests (`main.rs`, `oci.rs`) | configuration files, environment files, ConfigMaps, default registry | run, start, export, set default-registry | turns files and arguments into requests, and the table into a file |
| Metrics server, sandbox, static files, backup, systemd | see section 8 | | |

What is hard here: a restart is not atomic for anyone but the mutex holder, and what
it leaves behind when it fails is permanent; servers bind their ports long after they
were asked for and are never stopped; requests read the route table twice; tasks that
issue certificates, copy logs and pull images know no lock at all; the store is written
key by key; a kill leaves the socket open for 100 ms, and its files are removed by the
command, not by the daemon; a configuration is transformed when it is started and the
result is started again.

What makes each component correct: no child escapes the table and the status tells the
truth (process manager); every port is live or dead, accepted routes are on live ports,
the sockets of a port speak the same protocol (proxy manager); only whole responses are
cached, they reach only the host they belong to, nobody's requests are taken over
(pipeline); the route table and the process table agree and a kill leaves no child
(daemon); no save brings back the past and no acknowledged save is lost (store); tokens
are there when they are asked for and are removed in the end, the certificate goes with
its key, and it is renewed (ACME); at most one agent, with the stored key, that stops when
told (cloud agent); output reaches the log and recent output stays there (logs); a program
starts in its own image (images); commands find one daemon and end (client); what was
exported can be started again (manifests). Several of these hold only up to exceptions the
code makes. The properties name the exceptions, and section 3 lists them.

## 2. Modules

| Module | Models | Composes |
|---|---|---|
| `ProcessConfig` | the configuration of an application and what starting and updating make of it (pure operators) | |
| `ProcessManager` | the process table, children, health check | extends `ProcessConfig` |
| `ProxyManager` | routes, ports, certificates, servers | |
| `ProxyRequest` | requests in flight and the cache | instance of `ProxyManager` |
| `Daemon` | request handlers, restore, kill, exit | instances of `ProcessManager` and `ProxyManager` |
| `SavedList` | what the store promises (abstract) | |
| `StateStore` | saving, loading, migrating | implements `SavedList` |
| `Acme` | issuing and renewing a certificate | |
| `CloudAgent` | linking, the agent, its commands | |
| `Logs` | the log of one application | |
| `Images` | the image directory of one application | |
| `Client` | commands, daemons, socket and pid files | |
| `Manifest` | configuration files, port mappings, image references | |
| `ProcessManagerProofs`, `ProxyManagerProofs`, `ProxyRequestProofs`, `DaemonProofs`, `StateStoreProofs` | theorems about the module of that name | extend it |
| `TaskProofs` | theorems about the tasks beside the mutex | extends `Acme` and `CloudAgent` |
| `FilesProofs` | theorems about the files of an application | extends `Logs` and `Images` |
| `CommandProofs` | theorems about commands and their files | extends `Client` and `Manifest` |
| `MC…` | values of the constants for TLC | extend the module |

Definitions have the names of the functions they model (`spawn_process`, `kill_child`,
`add_route_with_tls`, `upstream_peer`, `migrate_json_to_slatedb`, `ensure_daemon`);
variables have the names of the fields. `PROJECT.json` maps each definition to its lines.
A definition whose name ends in a description of an error (`delete_without_lock`) is
preceded by a comment beginning with *Wrong:*; it is no part of a specification. It is
the mutated form used to show that a property would notice the error. `TypeOK` documents
the types of a module's variables; it is among the checked properties where it says more
(a bounded pause, a restart of an entry that exists). Where one module of proofs extends
two components, the second has its name in front of the usual ones (`CloudSpec`,
`LogSpec`, `ManifestSpec`, `LogTypeOK`).

### How the models correspond to the code

**ProcessManager.** Operations run under the mutex, so an operation that cannot be seen
halfway is one step. A restart can: the child is dead while the new one is started. It
is `BeginRestart` (or `update`, or `TickRestart` of the health check) followed by
`FinishRestart` or `FailRestart`; `starting` names the entry and stands, with
`to_restart`, for the mutex being held. `os` is the operating system's view of the
children, `app_file` what is in `apps/<name>/`. `FailSpawn` and `FailRestart` are the
error returns of `start_process`, after or before the copy of the program. `Exit`,
`OrphanExit` and `Vanish` are external: children and the daemon end at any time. While
`Pulling` holds, the holder of the mutex waits for a registry: between `BeginPull` and
`EndPull` of a new application (`starting = Spawning`), or in the restart of an image.
Configurations keep what decides how a program is started; names of files, variables of
the environment, volumes, pid files and statistics are left out, and so is a directory
that is run as a program. An error of `try_wait` changes nothing and is no step.

**ProxyManager.** `booting` holds the snapshots of ports that were handed to server
threads; `start_pingora_server` binds them later, `FailServer` is the error path and the
fallback to plain TCP. Servers never stop, so `listeners` only grows until the daemon
ends. `rejected` records which routes were refused after they had been entered. Two
history variables name the exceptions the properties make: `failed`, the ports whose
server could not be created and that count as live nevertheless, and `late_tls`, the ports
that were in use without TLS when a certificate came, or whose TLS settings failed.

**ProxyRequest.** A request goes through the calls Pingora makes, one step each, so that
routes can change between the check of the dead ports, the lookup of the route, the
cache, the second lookup and the chunks of the body. The end of the stream may come with
the last chunk or without one. One URI; the size of a body is its number of chunks, and of
a cached body only matters whether it is whole. The challenge branch of `request_filter`
is answered in `Acme`.

**Daemon.** A request is one step: the conjunction of what it does to the process
manager and to the proxy. Refusals that change nothing are no steps; refusals that have
already changed something are (`RunRolledBack`, `RunSite`). `Save` may stop halfway. The
initial `saved` is a list an earlier daemon left. The certificate that is issued for a
registered host goes to `Acme`, the pull of an update to `Images`.

**StateStore.** Writes are visible at once, reach the disk in order and later; `flush`
and `close` wait. This is how `state.rs` uses SlateDB (it flushes what must last); it
is weaker than what SlateDB may promise. A `state.json` that cannot be read stays where
it is and is as good as none.

**Acme.** One host. Files are torn from the moment they are opened for writing until the
write is complete. The challenge store is a set of tokens, as in the code, and not of
tasks: the ACME server may hand out the token of a pending order again, so a task can
remove what another one waits for (`shared` records it). A failed poll leaves the removal
to a spawned task: `PollFailed` puts the token into `cleaning`, and `Clean` may run during
the next order. `stranded` records a token whose `set_ready` failed. The history variable
`disturbed` records that tasks overlapped, or that one was cut off between its two files,
until a matching pair is in place again. `Order` may always go straight to the poll: that
is the ACME server's memory of an earlier validation.

**CloudAgent.** `told` is the order in the channel. A command is executed by the daemon
whether or not the agent is still there for the answer. `Kill` closes the store, so
later links and unlinks of the last 100 ms fail. `on_disk` holds the keys the next start
may find: `put` flushes and `delete` does not, so a key that was unlinked can come back
after a crash, and its agent with it.

**Logs.** One of `stdout.log` and `stderr.log`; sizes are numbers of lines. Files have
numbers, paths (`slots`) have files, tasks keep the file they opened. A rotation removes the
oldest file (`rotate_log_file`), renames the others one by one (`Rename`; `rotating` is the
place that is free) and creates the log (`CreateLog`): tasks run on other threads, and the
daemon may end in between, which `interrupted` counts. A capture task ends at the end of
the pipe, when it cannot open its file (`OpenFails`), and at a line that is not UTF-8
(`ReadFails`) while its child goes on; a line that cannot be written is skipped (`CopyLine`).
`lost` collects the lines these leave in no file. The rotation holds the mutex, so no start
and no delete comes in the middle of it.

**Images.** One application, one pull under the mutex and one per update request, entry by
entry of layer by layer (`ExtractEntry`, `NextLayer`); a layer of unknown type has no
entries to extract. Of a file matters which image it is from. `Below` says which paths a
path contains, so it also says when a file and a directory are in each other's way
(`Blocked`): such an entry is passed over and the pull goes on, and so is one that cannot
be written for another reason (`Faulty`; it may leave the old file, none, or a part of the
new one). `skipped` are the paths whose last entry was passed over. Whiteouts remove what
is there, also a file of their own layer; the opaque marker removes nothing. Once the
entrypoint is found, the volumes are copied over the image (`MountVolume`), and stay there.
`alone` records whether a start had the directory for itself.

**Client.** A command is a sequence of steps, and so is the start of a daemon (process
id, restore, removal of the socket file, bind). `Stale` is a file whose daemon is gone.
`calm` records that commands did not overlap and no daemon took longer than the 500 ms
`spawn_daemon` waits. An error response of the daemon is an answer like any other; a
message beyond the 10 MiB limit of `read_message` is none (`Oversized`). `handle_client` is
not a step of the command: the daemon may never get to it.

**Manifest.** References are records of their parts, names and mappings sequences of texts;
texts are taken apart where the code does it. The sets at the beginning of the module
(`Process`, `Config`, `Arguments`) are the types `ProcessManifest`, `ProcessConfig` and the
arguments of `run`; `ManifestAssumption` types the files and arguments users give, and
tells what is absent from everything else. Start reads document by document. The daemon is
reduced to its table, which holds what the code stores: `Remapped` is the port `handle_run`
gives to a process that has none of its own, `Sandboxed` what an image is denied and
granted, and `start_process` the path of the deployed copy or of the entrypoint and the
arguments of the image in front of the user's (`Stored` is all of it). Arguments are a
sequence of words that is joined and split again, restrictions and grants a set whose text
is split at commas (`JoinedArgs`, `JoinedList`). `emptied` collects the programs that were
copied onto themselves. The table refuses what `spawn_process` refuses for a reason the
manifest decides, and anything else at will; `nyrun update` does not reach it. Users edit
files between any two steps.

## 3. Runs

| Run | Checks | Instance and bounds |
|---|---|---|
| `ProcessManager` | `TypeOK`, `ChildOwned`, `StatusMatchesChild`, `GaugeMatchesTable`, `RestartsCounted`, `ExitedReaped`, `MutexReleased` | 2 names (one a program or an image, one a command or a site), 2 children, 2 restarts per entry, registries that may not answer, fair |
| `ProxyManager` | `PortBookkeeping`, `RoutesServed`, `SocketsAgree`, `LivePortBound` | 2 applications, 2 ports, with and without a certificate, 2 servers starting at a time, servers may fail, 1 change of the cache, fair |
| `ProxyRequest` | `CacheComplete`, `HostIsolation`, `RouteStability` | 2 requests, bodies of up to 2 chunks with room for 1, routes for a host, for localhost and for any, a site |
| `Daemon` | `RoutesOwned`, `RouteMatchesConfig`, `NoSelfProxy`, `KillStopsAll` | a program with a certificate to be issued, the same with a bad one, a site of the same name, a program without a proxy, an update to another port, an empty or a saved list, one life and its end |
| `StateStore` | `NoResurrection`, `MigrationKeepsList`, `RestoresLastSave`, `Implements` | 2 names, 2 configurations, 2 saves, 3 lives, every `state.json` and none to begin with, the store and the removal may fail |
| `Acme` | `ChallengeAnswered`, `PairMatches`, `TokensRemoved`, `EventuallyServed` | a run task and the renewal loop, overlapping or not, 6 certificates, 2 tokens, 1 fault, which may be the end of the daemon, fair |
| `CloudAgent` | `CloudTypeOK`, `OneAgent`, `KeyAgrees`, `StopsWhenTold` | 2 agents, 2 keys, 2 lives, the store may fail, fair |
| `Client` | `OneDaemon`, `CommandSucceeds`, `CommandEnds` | 2 shells, 2 process ids, slow starts, 1 crash, fair |
| `Manifest` | `ExportRoundTrip`, `StartsAfterReading` | 3 files, 2 run commands (an image whose name has a comma and whose arguments have an open quote; a directory of static files), 3 registries (the default, one with a port, one without), an environment file with 1 or 2 variables or none, 2 processes of at most 2 arguments |
| `Logs` | `RecentOutputKept`, `FilesOnlyGrow`, `OutputDrained` | 3 children, 4 lines together, files of 1 line, 2 rotated files, every fault, fair |
| `Images` | `ImageInPlace`, `RightProgram` | 3 images (whiteouts before and behind a file, opaque markers, a file where another image has a directory, skipped layers, no entrypoint), a volume, 2 paths that may fail, 2 starts, 1 update request at a time |
| `Program` | `ProgramIntact` is **violated** | one local program, one restart is enough |

What the passing runs show: whatever requests, crashes and health checks do to each
other, no child escapes the table and `ls` tells the truth, and the mutex comes back as long as the
registry always answers in the end (`ProcessManager`); ports are never forgotten, however late a server binds them, and the
sockets of a port disagree about TLS only where TLS came late (`ProxyManager`); routes
that change under a request do not put half a body into the cache, answer one host with
the response of another, or let an application take over requests but by a more specific
route (`ProxyRequest`); no request leaves a route behind (but one that was refused for its
certificate), a process keeps the route its configuration asks for (but for a site that is
asked for under its name), only an update makes the proxy forward to itself, and a kill
stops every child, also one that is being restarted (`Daemon`); what a save leaves on disk when it fails or is cut off is never older than the
last acknowledged save, except for the list of `state.json` (`StateStore`); a task removes the challenge of another only where the ACME server gave both
the same token, no token is left behind but one that the server could not be told of, and
certificates are renewed again and again unless a damaged file is left behind
(`Acme`); a relinked daemon has one agent (`CloudAgent`); stale files, crashes and kills
never keep a user's next command from the one daemon, and no command hangs but on a daemon
that serves and never answers it (`Client`); the daemon makes of an exported document what
it had stored, but for what it does to every configuration a second time (`Manifest`); it
takes two further restarts, not time, to lose a child's log, or rotations that were cut off,
and a line is lost only for one of the reasons `OutputDrained` lists (`Logs`); what other
images and failed pulls left in the directory does no harm to an image that names its
program, except where it keeps an entry from being unpacked (`Images`).

Why the bounds are enough to be interesting: two names on a port are what a shared port
and a contested host need; two restarts let a configuration be transformed twice; two
servers starting at a time bind in either order; three lives are a save, a restore and a
restore of what was restored; six certificates are the ones that can be in use at once and
a fresh one; two tokens are one handed out twice and one that is not; one fault leaves a
damaged file or a token whose removal is pending, and the tasks that follow repair it or
not (what happens when they fail again is only proved, of the two invariants); two starts of an image are one that leaves something behind
and one that finds it, with an update before, between or during them; three children fill the log and both rotated files; two shells and two process ids are
what it takes to have two daemons. `MaxRestarts` also limits how often children crash,
`MaxFaults` how often the network, the disk or the daemon fails, `MaxInserts` the
insertions under way, `MaxCaches` the changes of the cache's time to live, `MaxStarts` the
starts of an image, `MaxProcesses` the table of `Manifest` and `MaxArgs` how often the
arguments of an image are put in front, `MaxLines` what the children print.

Deadlock is not checked where a bound (lives, children, starts, process ids) ends every
behaviour. Symmetry is used for children, requests, names and configurations, in runs
without liveness properties.

### Disagreements

One run states what the documentation says, and TLC finds a behaviour of the code that
contradicts it. `Program`: `start_process` stores the path of the copy under
`apps/<name>/` as the configured path, so a restart copies the deployed program onto
itself, which empties it (`process.rs:102`), while the README promises restarts and
"auto-restart on crash".

The models contain other behaviours that a comment, a help text or the README contradicts, or
that its reader would not expect. They are steps of the modules, the properties above are stated around them and name them,
and no run is devoted to them:

| Code | Model | What happens |
|---|---|---|
| `process.rs:119` | `start_process`, `Emptied` of `Manifest` | `nyrun export` writes the path of the deployed copy, so starting the file empties the program (the help of `export`: "for use with `nyrun start`", `cli.rs:100`) |
| `process.rs:126` | `Pulling` | a registry that never answers holds the mutex, and with it every request and the health check |
| `process.rs:145` | `ProcessConfig`, `start_process` of `Manifest` | every restart of an image repeats its entrypoint's arguments; so does an export and start |
| `process.rs:153` | `Sandboxed` | the directory granted to an image whose name has a comma is split by an export and start |
| `process.rs:162` | `ProcessConfig`, `Sandboxed` | `--allow all` is forgotten at the first restart, and by an export and start |
| `process.rs:382` | `BeginRestart` | the zero-downtime reload has no child for a while |
| `process.rs:598` | `FailRestart` | one failed start after a crash is final |
| `process.rs:619` | `rotate_log_file` | after a rotation the running child's output goes to `log.1`, and `nyrun logs` shows nothing new until a restart |
| `process.rs:657` | `ReadFails` | a line that is not UTF-8 ends the capture and closes the pipe of a child that goes on |
| `process.rs:622` | `CreateLog` | a rotation truncates a log that a capture task has just made |
| `proxy.rs:592` | `AddRoute` | a certificate route on a live port is served in plain text; the plain sockets stay when later servers bind the port with TLS |
| `proxy.rs:664` | `FailServer` | a port whose server failed counts as live and is not tried again until another port is opened |
| `proxy.rs:525` | `set_cache_ttl` | `set cache-ttl` does not reach running servers |
| `proxy.rs:185` | `CacheKey` | applications on different ports of one host share cache entries |
| `daemon.rs:127` | `Restore` | restored applications have no routes |
| `server.rs:226` | `Kill`, `End` | a request in the 100 ms after a kill starts a child that survives the daemon |
| `server.rs:525` | `RunSite` | a refused site takes a route away and leaves its port live |
| `server.rs:367` | `Update` | an update without an application port, or with the public one, makes the proxy forward a port to itself |
| `state.rs:163` | `migrate_json_to_slatedb` | a `state.json` whose migration failed overwrites newer saves at the next start |
| `acme.rs:151` | `SetReadyFails` | a token stays after a failed `set_ready` |
| `acme.rs:165` | `Clean`, `PollReady` | orders that get the same token remove it from under each other |
| `state.rs:118` | `Unlink` of `CloudAgent` | an unlink is not flushed: a crash may bring the link back |
| `acme.rs:112` | `WriteAccount`, `Stuck` | an account file that was cut off fails every later attempt |
| `acme.rs:196` | `WriteCert`, `WriteKey` | tasks that overlap, or a crash between the files, pair a certificate with another's key |
| `proxy.rs:695` | `ListenPorts` of `Acme` | with a route on 443 only, nobody listens where the challenge is fetched |
| `daemon.rs:52`, `main.rs:628` | `spawn_daemon`, `cleanup` | commands that overlap, or a restore that takes longer than 500 ms, leave a second daemon no command reaches |
| `oci.rs:14` | `is_oci_reference` | a bare `nginx`, which the comment says is accepted, is taken for a file |
| `oci.rs:101` | `image_name_from_ref` | `localhost:5000/app` is called `localhost` |
| `oci.rs:66` | `normalize_reference` | with a default registry without dot or port, normalised references are no references any more |
| `oci.rs:234` | `ExtractEntry` | opaque whiteouts are not honoured |
| `oci.rs:238` | `RemoveWhiteout` | a whiteout behind a file of its own layer deletes that file |
| `oci.rs:250` | `UnpackFile`, `Blocked` | an entry that cannot be unpacked, for example because an earlier image left a directory in its place, is passed over and the program starts |
| `oci.rs:292` | `FindEntrypoint` | an image without an entrypoint may start a program an earlier image left |

## 4. Fairness

* `ProcessManager.FairSpec`: strong fairness of `TickScan`, because the health check
  asks for the mutex every two seconds for ever and tokio's mutex is first come, first
  served, so requests cannot keep it out; weak fairness of the restarts it has queued
  and of `Start` **while no image is pulled**. Pulls run under the mutex and have no timeout
  (`process.rs:126`, `oci.rs:133`, `oci.rs:146`, `oci.rs:167`), so nothing makes them end.
  `ExitedReaped` and `MutexReleased` are therefore implications: they hold of the behaviours
  in which the registry always answers in the end (`RegistryAnswers`), and fail without it.
* `ProxyManager.FairSpec`: a thread that was spawned runs. Failures are allowed, and the
  property names the ports they leave.
* `Acme.FairSpec`: the renewal loop ticks, a task that can go on does, and so does one that
  was spawned to remove tokens. A poll has a timeout of 60 s in the code; that the other
  requests to the ACME server end, with an answer or an error, is an assumption. Failures
  are bounded, which stands for a network that works often enough.
* `CloudAgent.FairCloudSpec`: a task whose channel holds an order is polled. That the cloud
  answers, or the daemon a command, is not assumed.
* `Client.FairSpec`: the process of a command goes on with what it can do alone, and `exit(0)`
  comes after its 100 ms whatever other tasks wait for. That the daemon answers is **not**
  assumed: a handler waits for the mutex and for registries, and the client reads without a
  timeout (`client.rs:32`). `CommandEnds` says of each command that it ends if it is not
  left waiting for ever by a daemon that serves. That daemons are fast, or bind their socket
  at all, is not assumed either.
* `Logs.FairLogSpec`: the runtime polls a task that can go on. Nothing is assumed of
  children, rotations and requests.

## 5. Refinement

`SavedList` is the promise of the store: a list that changes only while a save is pending,
each entry to nothing, to what it was or to what a pending save has for it; a save is done
only when exactly its list is stored. `StateStore.Implements` is that specification with
the disk as `stored` and, as `pending`, the lists tried without success together with a
`state.json` that still has to be migrated. TLC checks it over failures, restarts and the
migration, and `StoreImplementsSavedList` proves it for every set of names and lists.

The other compositions are shown the same way: `DaemonRunsComponents` proves that the
daemon implements the specifications of the process manager and of the proxy manager, and
`ProxyRequestProofs` uses what is proved about the route table through an instance.

## 6. Proofs

| Module | Theorems |
|---|---|
| `ProcessManagerProofs` | `InvariantHolds`, `TypeCorrect`, `ChildrenOwned`, `StatusCorrect`, `GaugeCorrect`, `RestartsAreCounted` |
| `ProxyManagerProofs` | `PortsAccountedFor`, `SocketsOfPortAgree`, `TypeCorrect`, `AcceptedRoutesServed`, `RoutesAreStable` |
| `ProxyRequestProofs` | `InvariantHolds`, `TypeCorrect`, `CacheIsComplete`, `HostsAreIsolated`, `RoutesStayStable` |
| `DaemonProofs` | `InvariantHolds`, `TypeCorrect`, `DaemonRunsComponents`, `RoutesAreOwned`, `RoutesMatchConfigs`, `RunNeverProxiesToItself`, `KillStopsEverything` |
| `StateStoreProofs` | `InvariantHolds`, `NothingComesBack`, `MigrationIsSafe`, `LastSaveIsRestored`, `StoreImplementsSavedList` |
| `CommandProofs` | of `Client`: `InvariantHolds`, `TypeCorrect`, `OneDaemonHolds`, `CommandSucceedsHolds`; of `Manifest`: `ManifestInvariantHolds`, `ManifestTypeCorrect`, `StartsAfterReadingHolds`, `ExportRoundTripHolds` |
| `TaskProofs` | of `Acme`: `InvariantHolds`, `TokensAnswered`, `PairsMatch`; of `CloudAgent`: `CloudInvariantHolds`, `AtMostOneAgent`, `StoredKeyRuns`, `CloudTypeCorrect` |
| `FilesProofs` | of `Logs`: `LogInvariantHolds`, `RecentOutputIsKept`, `FilesOnlyGrowHolds`; of `Images`: `ImageInvariantHolds`, `ImageIsInPlace`, `RightProgramHolds` |

They hold for every value of the constants that satisfies the assumptions named in the
modules: the values that stand for something absent (`None`, `Absent`, `NoFile`, `Stale`)
are none of the names, children, hosts, ports, routes, lists or daemons they are compared
with; names are finitely many (the gauge counts them); `Spawning` is no name; users submit configurations,
updates, routes, mappings, files and arguments of their types; a path is below itself; a
host, a port and `library` are texts, a port is a value of a variable, and the local, the
deployed and the entrypoint's path are different; the private port auto-remap finds is not a
public one and a site is not a port; the bounds are natural numbers and the first pause is
positive and within the cap. TLC evaluates the same assumptions in every run.

*Process table.* `Inv` is `TypeOK`, `ChildOwned` and `StatusMatchesChild`. They are not
inductive one by one: that an operation frees the child of one entry is harmless only
because no other entry shares it (`ChildOwned`); that the restart of a crashed entry finds
a child to reap needs `StatusMatchesChild` (`Errored` exactly for the entries in
`to_restart`). There is one lemma per kind of step. The gauge follows the table because a
restart is of an entry that is still there; its proof uses the cardinality theorems of the
library. `RestartsCounted` is proved from the same invariant: an entry gets a child that
differs from its old one only in `FinishRestart`.

*Ports.* `PortBookkeeping` is inductive, because it also speaks of the snapshots of
servers that have not bound yet. `AddKeepsBookkeeping` is stated for the live and dead
ports an addition starts from, so that it serves both the plain addition and the move of
`handle_update`, where a removal comes first.

*Sockets.* `SocketsAgree` compares sockets that servers bound at different times, each
from the snapshot it was started with. `TlsBooked` compares all of them with one value
instead: outside `late_tls`, the sockets and the snapshots still starting agree with the
current `tls_ports`. That a port may become a TLS port needs `PortBookkeeping`: a port
that is neither live nor dead has no socket and no snapshot.

*Routes.* `entries.retain` is a recursive function over the table, so what it leaves has to
be proved by induction on the length of the table. The induction is stated for a set of
numbers (`SetInduction`), which follows from the library's theorem that a nonempty set has
a minimal element in a well-founded order; `LeastExists` gives the same for `find`, which
takes the first match. `OthersKept` then says that `retain` keeps exactly the routes of the
others, in their order. `RoutesServed` needs which routes are left; `RoutesStable` needs
the order as well: the first match of a port and host stays first unless it is of the
application that is changed, and a new route, which goes to the end, is the first match
only where there was none.

*Requests.* `Explained` says at each stage of a request what its context is worth:
the bytes collected are the bytes that came, the key is that of the request, and the
backend `upstream_peer` chose has a route for the host. `Cacheable` says the same of an
entry, also of one that an insertion task still carries. Routes may change at any step:
both refer to the routes users may ask for, not to those of the moment, so that an entry
which outlives its route is still explained.

*Daemon.* `Inv` joins the invariants of the two managers, the types, `RoutesOwned`,
`RouteMatchesConfig` and `NoRoutesBefore` (no routes until the socket is bound, without
which `RoutesOwned` would fail when a restored daemon begins to serve). `Handled(x, new)`
is what every request turns out to do: on the proxy's side the routes of `x` are replaced by
`new` and every live port of another application stays live (`Rerouted`); in the process
table the others keep their mappings (`Kept`); and `x` has on the one side what it has on
the other. `HandledKeeps` derives the invariants and the step of `NoSelfProxy` from that
alone; what remains is one lemma per action that it is such a step. `KillStopsAll` needs
`ChildOwned`: what is not in the table is not alive.

*Saved list.* The disk lags behind what the daemon wrote. `Replay` relates the two: a key
is on disk as it was written, or its last write is still in the log. `LogIsPending` says
that what the log holds is of a save that is pending, and `JobInOrder` that a save has done
what it is not going to do any more; together they give, when the log is empty and the
job is through, exactly its list on disk.

*Commands.* `OneDaemon` and `CommandSucceeds` are true because of what every command in
progress may rely on. `Orderly` states it stage by stage: who waits for a daemon is the one
that started it, the files lead to the daemon that serves, a daemon that is about to exit is
still awaited by the command that killed it, and a command that failed was hit by a crash.
It is inductive as long as `calm` holds, and nothing is claimed afterwards.

*Certificates.* `Inv` of `TaskProofs` types the tasks and says, as `TokensHeld`, whose token
may disappear: one that is in `cleaning`, or that two orders hold, is in `shared`, and the
token of every other order is in the challenge store. Together with it, and unless the
issuing was disturbed, `InOrder`: one task is at work, the two files are a pair except
between its writes, and what it read or wrote last is what it holds.

*Cloud agent.* `CloudInv` is `CloudTypeOK`, `OneAgent` and `KeyAgrees`: that the agent the daemon
keeps was not told to stop is what keeps it from disappearing under the stored key.

*Logs.* `RecentOutputKept` counts files that got a task. `SlotsInOrder` says that the place
of a file is at most its age, counted in files, plus the rotations that were cut off;
`TasksWrite` that every file but the log has a task, because a log is rotated only when it
is too long, and only a task can have made it so. With both, the place of a child's file is
bounded by the number of newer files, of which at most the log has no task. That it holds
of the log too if it has lines is what carries `TasksWrite` over a rotation, and `PlaceFree`
is what carries `SlotsInOrder` from one rename to the next.

*Images.* `InPlace` says of each path what the directory holds in the middle of a layer:
if the entries extracted so far of the current layer mention the path, what they made of
it; otherwise what the topmost earlier layer that mentions it says; in both cases unless
the path was passed over or the layer is one the code misreads. `Effect` is what one entry
does to one path, for files, whiteouts and opaque markers, and whether it is unpacked or
not. At the end of the last layer it is `Overlay`, whose topmost layer exists by
`GreatestExists`. `AloneInPlace` holds it only while the pull under the mutex is alone,
follows it through the volumes, and adds that `.oci-config.json` is from the same image,
which gives `RightProgram`. Nothing is assumed of the images but their type.

*Manifests.* `ReadSoFar` is `StartsAfterReading` for the documents read so far, and says
that something is left to run. `Readable` says what conversions have made of a
configuration: ports that parse, an application port wherever there is a host, no volume of
a ConfigMap, and of an image its reference. `RemappedFields`, `SandboxedFields` and
`StartedFields` are what the daemon does to each field of it, so that `Restorable`, which is
of every stored configuration, follows, and `ExportRoundTrip` follows from `Restorable`:
what is stored of an exported document is compared field by field with what was stored
before.

Trying to prove `NoSelfProxy` as an invariant showed that it was too strong: it excepted
only updates that leave the application port out, and an update that names the public port
does the same. No configuration of the run has such an update. It is now a property of
steps, and says which of them may make such a route.

Only model-checked: liveness (`ExitedReaped`, `MutexReleased`, `LivePortBound`,
`TokensRemoved`, `EventuallyServed`, `StopsWhenTold`, `CommandEnds`, `OutputDrained`), which is outside the
prover's reach. Every invariant and every action property of a passing run is a theorem.

## 7. Running and plan

In this directory: `tlc -config X.cfg MCModule` for a run (the pairs are in
`PROJECT.json`), `tlapm XProofs.tla` for proofs. The longest runs are `Daemon`, `Acme`,
`Images`, `Manifest`, `Client` and `ProxyRequest`, each between one and four minutes; the
longest proofs are those of `CommandProofs`, `FilesProofs` and `DaemonProofs`.

Done, in this order: process manager, proxy manager, their composition in the daemon,
state store, ACME, cloud agent, request pipeline, the first theorems; then the refinement of
the store, logs, the client side, images, manifests, and properties that say which of the
behaviours listed at the end of section 3 can occur and where they end; then the theorems
about the route table, requests, the daemon, the store and the client; then those about
logs, images and manifests.

Next, as models: the metrics server and its restart; the selection of a certificate for a
handshake; an abstract supervisor implemented by `ProcessManager`.

## 8. Not modelled

* The sandbox's kernel calls and the serving of static files: I/O of one process without
  shared state.
* The metrics endpoint with its enable and disable requests (`server.rs:234`): it shares
  nothing with the rest but the mutex. The gauge of managed processes is in
  `ProcessManager`.
* Backup archives, systemd units, and the definitions of the command line's arguments:
  sequential I/O of a short-lived process without a decision to check.
* Which certificate a TLS handshake picks (`certificate_callback`).
* The registry protocol, archive formats, links and permissions of extracted files, YAML and
  the characters of shell quoting: parsing by libraries, taken as correct. (Where a text is
  split and joined, `Manifest` models what comes back.)
* Traffic counters and forwarded headers of the proxy, CPU and memory statistics, exit
  statuses of the command line (an error of the daemon is printed, and the status is 0):
  no decision depends on them.
* The time to live in seconds, cache capacity, and the capacity of channels beyond the
  one order they hold.
* Ports in use on the host by others, and two applications that are given the same
  private port.
