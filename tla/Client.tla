---- MODULE Client ----
(***************************************************************************)
(* The commands of nyrun and the daemons they talk to (client.rs,          *)
(* daemon.rs, the socket of server.rs, the commands of main.rs): who       *)
(* starts a daemon, which daemon the socket file leads to, and what kill   *)
(* leaves behind. What a request does inside the daemon is in Daemon.      *)
(*                                                                         *)
(* A command looks for a daemon by connecting to the socket file. If there *)
(* is none it starts one, waits 500 ms and looks once more. A daemon binds *)
(* its socket after it has restored the saved processes, which may take    *)
(* longer, and replaces the socket file of any other daemon.               *)
(***************************************************************************)
EXTENDS Naturals, FiniteSets

CONSTANTS
  Clients,     \* shells in which commands are given
  Daemons,     \* process ids for daemons
  SlowStart,   \* may a daemon take longer than 500 ms to bind its socket?
  MaxCrashes,  \* bound on the daemons that end other than by exit(0)
  Stale,       \* a file a daemon left behind when it ended
  None

ASSUME ClientAssumption ==
  /\ None \notin Daemons /\ Stale \notin Daemons
  /\ SlowStart \in BOOLEAN
  /\ MaxCrashes \in Nat

VARIABLES
  daemons,  \* what each daemon does
  socket,   \* whose socket the file nyrun.sock is
  pid,      \* whose process id is in nyrun.pid
  clients,  \* the command of each shell, and how far it is
  crashes,
  calm      \* have commands not overlapped, and daemons started in time, so far?

vars == <<daemons, socket, pid, clients, crashes, calm>>

-----------------------------------------------------------------------------
Phases == {"none", "starting", "restored", "unlinked", "serving", "exiting"}
Stages == {"idle", "look", "wait", "connect", "send", "sent", "answered", "unlink", "unlink_pid"}

IdleClient == [cmd |-> None, at |-> "idle", peer |-> None, spawned |-> None,
               failed |-> FALSE, hit |-> FALSE]

TypeOK ==
  /\ daemons \in [Daemons -> Phases]
  /\ socket \in Daemons \cup {Stale, None}
  /\ pid \in Daemons \cup {Stale, None}
  /\ clients \in [Clients -> [cmd : {None, "request", "kill", "local"}, at : Stages,
                              peer : Daemons \cup {None}, spawned : Daemons \cup {None},
                              failed : BOOLEAN, hit : BOOLEAN]]
  /\ crashes \in 0..MaxCrashes
  /\ calm \in BOOLEAN

Init ==
  /\ daemons = [d \in Daemons |-> "none"]
  /\ socket = None
  /\ pid = None
  /\ clients = [c \in Clients |-> IdleClient]
  /\ crashes = 0
  /\ calm = TRUE

-----------------------------------------------------------------------------
Alive(d) == daemons[d] # "none"
Listening(d) == daemons[d] \in {"serving", "exiting"}
\* The daemon ends and leaves its files.
Left(f, d) == IF f = d THEN Stale ELSE f
Busy == {c \in Clients : clients[c].at # "idle"}

\* is_daemon_running: the file exists and someone listens behind it.
is_daemon_running == socket \in Daemons /\ Listening(socket)

At(c, stage) == clients[c].at = stage
Go(c, stage) == clients' = [clients EXCEPT ![c].at = stage]

\* The command is over. It failed if it got no answer; a command of the cloud is
\* then only logged. nyrun kill removes the files first, whatever the answer.
Finish(c, ok) ==
  LET failed == ~ok /\ clients[c].cmd # "local" IN
    clients' = [clients EXCEPT ![c] =
      [IdleClient EXCEPT !.failed = failed, !.hit = failed /\ clients[c].hit,
                         !.at = IF clients[c].cmd = "kill" THEN "unlink" ELSE "idle"]]

\* The command's request, or the answer to it, is larger than the 10 MiB that either
\* end reads. A kill is not, and the answer to it neither.
Oversized(c) ==
  LET failed == clients[c].cmd # "local" IN
    /\ clients[c].cmd # "kill"
    /\ clients' = [clients EXCEPT ![c] = [IdleClient EXCEPT !.failed = failed, !.hit = failed]]

\* A command is given. "local" is a command of the cloud, which the agent of a
\* daemon that serves sends to the socket without looking (send_request_local).
Begin(c, cmd) ==
  /\ At(c, "idle")
  /\ cmd = "local" => \E d \in Daemons : Listening(d)
  /\ clients' = [clients EXCEPT ![c] = [IdleClient EXCEPT !.cmd = cmd,
                   !.at = IF cmd = "local" THEN "connect" ELSE "look"]]
  /\ calm' = (calm /\ Busy = {})
  /\ UNCHANGED <<daemons, socket, pid, crashes>>

\* ensure_daemon. Spawning a daemon fails when the host has no process id left.
Fresh == {d \in Daemons : /\ daemons[d] = "none"
                          /\ \A c \in Clients : d \notin {clients[c].peer, clients[c].spawned}}

\* Wrong: a daemon is started without looking for one.
ensure_daemon_always(c) ==
  /\ At(c, "look")
  /\ Fresh # {}
  /\ LET d == CHOOSE f \in Fresh : TRUE IN
       /\ daemons' = [daemons EXCEPT ![d] = "starting"]
       /\ clients' = [clients EXCEPT ![c].at = "wait", ![c].spawned = d]
  /\ UNCHANGED <<socket, pid, crashes, calm>>

ensure_daemon(c) ==
  /\ At(c, "look")
  /\ IF is_daemon_running THEN Go(c, "connect") /\ UNCHANGED <<daemons, calm>>
     ELSE IF Fresh = {} THEN Finish(c, FALSE) /\ calm' = FALSE /\ UNCHANGED daemons
     ELSE LET d == CHOOSE f \in Fresh : TRUE IN
            /\ daemons' = [daemons EXCEPT ![d] = "starting"]
            /\ clients' = [clients EXCEPT ![c].at = "wait", ![c].spawned = d]
            /\ UNCHANGED calm
  /\ UNCHANGED <<socket, pid, crashes>>

Started(d) == daemons[d] \in {"serving", "exiting", "none"}

\* The 500 ms are over. They may be before the daemon has bound its socket.
spawn_daemon(c) ==
  /\ At(c, "wait")
  /\ SlowStart \/ Started(clients[c].spawned)
  /\ calm' = (calm /\ Started(clients[c].spawned))
  /\ IF is_daemon_running
     THEN clients' = [clients EXCEPT ![c].at = "connect", ![c].spawned = None]
     ELSE Finish(c, FALSE)
  /\ UNCHANGED <<daemons, socket, pid, crashes>>

\* send_request: connect, write, read. The connection is to the daemon that listens
\* now.
connect(c) ==
  /\ At(c, "connect")
  /\ IF is_daemon_running
     THEN clients' = [clients EXCEPT ![c].at = "send", ![c].peer = socket]
     ELSE Finish(c, FALSE)
  /\ UNCHANGED <<daemons, socket, pid, crashes, calm>>

write_message(c) ==
  /\ At(c, "send")
  /\ IF Listening(clients[c].peer) THEN Go(c, "sent") \/ Oversized(c) ELSE Finish(c, FALSE)
  /\ UNCHANGED <<daemons, socket, pid, crashes, calm>>

\* handle_client executes the request and answers. A kill schedules exit(0).
handle_client(c) ==
  /\ At(c, "sent")
  /\ Listening(clients[c].peer)
  /\ Go(c, "answered")
  /\ daemons' = IF clients[c].cmd = "kill"
                THEN [daemons EXCEPT ![clients[c].peer] = "exiting"] ELSE daemons
  /\ UNCHANGED <<socket, pid, crashes, calm>>

\* Wrong: only an answer is waited for.
read_message_forever(c) ==
  /\ At(c, "answered") /\ Finish(c, TRUE)
  /\ UNCHANGED <<daemons, socket, pid, crashes, calm>>

\* The answer, one that is too large, or the end of the connection without one. There
\* is no timeout.
read_message(c) ==
  /\ \/ At(c, "answered") /\ (Finish(c, TRUE) \/ Oversized(c))
     \/ At(c, "sent") /\ ~Listening(clients[c].peer) /\ Finish(c, FALSE)
  /\ UNCHANGED <<daemons, socket, pid, crashes, calm>>

\* Wrong: only the process id is removed.
cleanup_pid_only(c) ==
  /\ \/ At(c, "unlink") /\ Go(c, "unlink_pid") /\ UNCHANGED <<socket, pid>>
     \/ At(c, "unlink_pid") /\ Go(c, "idle") /\ pid' = None /\ UNCHANGED socket
  /\ UNCHANGED <<daemons, crashes, calm>>

\* cleanup, after a kill: the two files go, whoever's they are by now.
cleanup(c) ==
  /\ \/ At(c, "unlink") /\ Go(c, "unlink_pid") /\ socket' = None /\ UNCHANGED pid
     \/ At(c, "unlink_pid") /\ Go(c, "idle") /\ pid' = None /\ UNCHANGED socket
  /\ UNCHANGED <<daemons, crashes, calm>>

-----------------------------------------------------------------------------
\* run_daemon writes its process id, and restores the saved processes.
run_daemon(d) ==
  /\ daemons[d] = "starting"
  /\ daemons' = [daemons EXCEPT ![d] = "restored"]
  /\ pid' = d
  /\ UNCHANGED <<socket, clients, crashes, calm>>

\* run_server removes the socket file and binds its own. If another daemon has made
\* one in between, it gives up and ends.
run_server(d) ==
  /\ \/ /\ daemons[d] = "restored"
        /\ daemons' = [daemons EXCEPT ![d] = "unlinked"]
        /\ socket' = None
     \/ /\ daemons[d] = "unlinked"
        /\ IF socket = None
           THEN socket' = d /\ daemons' = [daemons EXCEPT ![d] = "serving"]
           ELSE UNCHANGED socket /\ daemons' = [daemons EXCEPT ![d] = "none"]
  /\ pid' = IF daemons'[d] = "none" THEN Left(pid, d) ELSE pid
  /\ UNCHANGED <<clients, crashes, calm>>

\* exit(0), 100 ms after a kill. The files are left to the command.
exit(d) ==
  /\ daemons[d] = "exiting"
  /\ daemons' = [daemons EXCEPT ![d] = "none"]
  /\ socket' = Left(socket, d) /\ pid' = Left(pid, d)
  /\ UNCHANGED <<clients, crashes, calm>>

\* The daemon crashes, or cannot open its store.
Crash(d) ==
  /\ Alive(d)
  /\ crashes < MaxCrashes
  /\ crashes' = crashes + 1
  /\ daemons' = [daemons EXCEPT ![d] = "none"]
  /\ clients' = [c \in Clients |-> [clients[c] EXCEPT !.hit = @ \/ c \in Busy]]
  /\ socket' = Left(socket, d) /\ pid' = Left(pid, d)
  /\ UNCHANGED calm

-----------------------------------------------------------------------------
Step(c) ==
  \/ ensure_daemon(c) \/ spawn_daemon(c) \/ connect(c) \/ write_message(c)
  \/ read_message(c) \/ cleanup(c)

Next ==
  \/ \E c \in Clients : Step(c) \/ handle_client(c) \/ \E cmd \in {"request", "kill", "local"} : Begin(c, cmd)
  \/ \E d \in Daemons : run_daemon(d) \/ run_server(d) \/ exit(d) \/ Crash(d)

Spec == Init /\ [][Next]_vars

\* The process of a command goes on with what it can do alone, and a daemon that was
\* told to exit does so, whatever its other tasks wait for. That a daemon answers a
\* request, or gets as far as its socket, is not assumed: it may wait for a registry.
FairSpec ==
  /\ Spec
  /\ \A c \in Clients : WF_vars(Step(c))
  /\ \A d \in Daemons : WF_vars(exit(d))

-----------------------------------------------------------------------------
(* Properties. *)

\* The daemons that are not on their way out.
Current == {d \in Daemons : daemons[d] \notin {"none", "exiting"}}

\* As long as commands are given one after the other and daemons start in time,
\* there is one daemon (besides one that is about to exit after a kill), it is the
\* one the socket file leads to once it serves, and it is the one nyrun.pid names:
\* through crashes, stale files, kills and starts right after a kill. Commands that
\* overlap, or a slow restore, can leave a second daemon that no command reaches.
OneDaemon ==
  calm => /\ Cardinality(Current) <= 1
          /\ \A d \in Current : daemons[d] = "serving" => socket = d /\ pid = d

\* Under the same conditions a command of a user succeeds, whatever state the commands and
\* crashes before it left the files in, unless a daemon crashes under it or a message of
\* it is too large.
CommandSucceeds ==
  calm => \A c \in Clients : clients[c].failed => clients[c].hit

\* A command waits for the answer of a daemon that serves. Nothing bounds this wait.
Waiting(c) == At(c, "sent") /\ daemons[clients[c].peer] = "serving"

\* A command ends unless a daemon that goes on serving never answers it: it does not
\* hang on a daemon that crashed or exited before, during or after its request, on one
\* that never binds its socket, or on the files of another one.
CommandEnds == \A c \in Clients : []<>~Waiting(c) => (c \in Busy ~> c \notin Busy)
====
