---- MODULE CommandProofs ----
(***************************************************************************)
(* Proofs about the commands of nyrun, for any number of shells, daemons,  *)
(* crashes, files and documents. About Client: as long as commands do not  *)
(* overlap and daemons start in time, there is one daemon, the files lead  *)
(* to it, and commands succeed. About Manifest: no process of a file runs  *)
(* before the whole file was read, and what is exported can be started     *)
(* again.                                                                  *)
(***************************************************************************)
EXTENDS Client, Manifest, FiniteSetTheorems, TLAPS

-----------------------------------------------------------------------------
Serving(d) == daemons[d] = "serving"
Starting(d) == daemons[d] \in {"starting", "restored", "unlinked"}

\* A command that waits for a daemon has started one, and one that talks to a
\* daemon has connected to one.
PeersKnown ==
  \A c \in Clients :
    /\ At(c, "wait") => clients[c].spawned \in Daemons
    /\ clients[c].at \in {"send", "sent"} => clients[c].peer \in Daemons

\* One command at a time.
OneBusy == \A c, e \in Clients : c = e \/ At(c, "idle") \/ At(e, "idle")

\* A daemon that is starting is waited for by the command that started it.
StartsAwaited ==
  \A d \in Daemons : Starting(d) => \E c \in Clients : At(c, "wait") /\ clients[c].spawned = d

\* The files are those of the daemon that serves; one that is about to serve has
\* written its process id, and removed the socket file of the one before it.
FilesLead ==
  \A d \in Daemons :
    /\ Serving(d) => socket = d
    /\ daemons[d] = "unlinked" => socket = None
    /\ daemons[d] \in {"restored", "unlinked", "serving"} => pid = d

\* The socket file leads to a daemon that is about to exit only until the command
\* that killed it has removed the file.
ExitAwaited ==
  socket \in Daemons /\ daemons[socket] = "exiting" =>
    \E c \in Clients : At(c, "unlink") \/ (At(c, "answered") /\ clients[c].cmd = "kill")

\* A daemon still serves a command, unless a crash hit it or the cloud gave it.
Reaches(r, d) == r.cmd = "local" \/ r.hit \/ (d \in Daemons /\ Serving(d))

\* What a command can rely on, at each stage.
Relies(r) ==
  /\ r.at = "wait" => /\ Current \subseteq {r.spawned}
                      /\ r.hit \/ r.spawned \in Current
  /\ r.at = "connect" => Reaches(r, socket)
  /\ r.at \in {"send", "sent"} => Current \subseteq {r.peer} /\ Reaches(r, r.peer)
  /\ r.at = "answered" /\ r.cmd = "kill" => Current = {}
  /\ r.at \in {"unlink", "unlink_pid"} => Current = {}
  /\ r.failed => r.hit

CommandsRely == \A c \in Clients : Relies(clients[c])

Orderly == OneBusy /\ StartsAwaited /\ FilesLead /\ ExitAwaited /\ CommandsRely

\* The inductive invariant: the order is only kept while nothing overlaps.
Inv == TypeOK /\ PeersKnown /\ (calm => Orderly)

-----------------------------------------------------------------------------
\* Types.

Record == [cmd : {None, "request", "kill", "local"}, at : Stages,
           peer : Daemons \cup {None}, spawned : Daemons \cup {None},
           failed : BOOLEAN, hit : BOOLEAN]

\* A record of a command that refers to daemons where it needs them.
Sound(r) ==
  /\ r \in Record
  /\ r.at = "wait" => r.spawned \in Daemons
  /\ r.at \in {"send", "sent"} => r.peer \in Daemons

\* The record of a command that is over.
Over(r, ok) ==
  LET failed == ~ok /\ r.cmd # "local" IN
    [IdleClient EXCEPT !.failed = failed, !.hit = failed /\ r.hit,
                       !.at = IF r.cmd = "kill" THEN "unlink" ELSE "idle"]

\* A client whose command is over has nothing left to keep.
LEMMA OverSound ==
  ASSUME NEW r \in Record, NEW ok \in BOOLEAN
  PROVE  /\ Sound(Over(r, ok))
         /\ Over(r, ok).at = IF r.cmd = "kill" THEN "unlink" ELSE "idle"
         /\ Over(r, ok).failed = (~ok /\ r.cmd # "local")
         /\ Over(r, ok).hit = (~ok /\ r.cmd # "local" /\ r.hit)
<1>1. PICK f, h \in BOOLEAN, a \in {"unlink", "idle"} :
        /\ f = (~ok /\ r.cmd # "local") /\ h = (~ok /\ r.cmd # "local" /\ r.hit)
        /\ a = IF r.cmd = "kill" THEN "unlink" ELSE "idle"
  OBVIOUS
<1>2. Over(r, ok) = [IdleClient EXCEPT !.failed = f, !.hit = h, !.at = a]
  BY <1>1, Zenon DEF Over
<1>3. IdleClient \in Record
  BY DEF IdleClient, Record, Stages
<1>4. /\ Over(r, ok) \in Record
      /\ Over(r, ok).failed = f /\ Over(r, ok).hit = h /\ Over(r, ok).at = a
  BY <1>2, <1>3 DEF Record, Stages
<1> QED BY <1>1, <1>4 DEF Sound

\* A step that changes the record of one command.
LEMMA OneCommandMoves ==
  ASSUME TypeOK, PeersKnown, NEW c \in Clients, NEW r, Sound(r),
         clients' = [clients EXCEPT ![c] = r],
         daemons' \in [Daemons -> Phases],
         socket' \in Daemons \cup {Stale, None}, pid' \in Daemons \cup {Stale, None},
         crashes' = crashes, calm' \in BOOLEAN
  PROVE  /\ TypeOK' /\ PeersKnown'
         /\ clients'[c] = r
         /\ \A e \in Clients \ {c} : clients'[e] = clients[e]
  BY DEF TypeOK, PeersKnown, Sound, Record, At

\* With one command at a time, the others are idle while one is not.
LEMMA OthersIdle ==
  ASSUME OneBusy, NEW c \in Clients, ~At(c, "idle")
  PROVE  \A e \in Clients \ {c} : At(e, "idle")
  BY DEF OneBusy

\* What a step of a command may do to the daemons and the files, and has to rely on
\* afterwards.
LEMMA CommandKeepsOrder ==
  ASSUME TypeOK, Orderly, NEW c \in Clients, NEW r, r \in Record,
         \A e \in Clients \ {c} : At(e, "idle") /\ clients'[e] = clients[e],
         clients'[c] = r,
         Relies(r)', FilesLead',
         \A d \in Daemons : Starting(d)' => r.at = "wait" /\ r.spawned = d,
         socket' \in Daemons /\ daemons'[socket'] = "exiting"
           => r.at = "unlink" \/ (r.at = "answered" /\ r.cmd = "kill")
  PROVE  Orderly'
<1>1. \A e \in Clients \ {c} : clients'[e].at = "idle" /\ (clients'[e].failed => clients'[e].hit)
  BY DEF At, Orderly, CommandsRely, Relies
<1>2. OneBusy'
  BY <1>1 DEF OneBusy, At
<1>3. StartsAwaited'
  BY DEF StartsAwaited, At
<1>4. ExitAwaited'
  BY DEF ExitAwaited, At
<1>5. CommandsRely'
  <2>1. \A e \in Clients \ {c} : Relies(clients[e])'
    BY <1>1 DEF Relies
  <2> QED BY <2>1 DEF CommandsRely
<1> QED BY <1>2, <1>3, <1>4, <1>5 DEF Orderly

\* The same, put together: a step of one command keeps the invariant.
LEMMA CommandStep ==
  ASSUME Inv, NEW c \in Clients, NEW r, Sound(r),
         clients' = [clients EXCEPT ![c] = r],
         daemons' \in [Daemons -> Phases],
         socket' \in Daemons \cup {Stale, None}, pid' \in Daemons \cup {Stale, None},
         crashes' = crashes, calm' \in BOOLEAN,
         calm' => /\ calm
                  /\ \A e \in Clients \ {c} : At(e, "idle")
                  /\ Relies(r)' /\ FilesLead'
                  /\ \A d \in Daemons : Starting(d)' => r.at = "wait" /\ r.spawned = d
                  /\ socket' \in Daemons /\ daemons'[socket'] = "exiting"
                       => r.at = "unlink" \/ (r.at = "answered" /\ r.cmd = "kill")
  PROVE  Inv'
<1>1. /\ TypeOK' /\ PeersKnown' /\ clients'[c] = r
      /\ \A e \in Clients \ {c} : clients'[e] = clients[e]
  BY OneCommandMoves DEF Inv
<1>2. ASSUME calm' PROVE Orderly'
  <2>1. TypeOK /\ Orderly
    BY <1>2 DEF Inv
  <2>2. r \in Record
    BY DEF Sound
  <2> QED BY <1>1, <1>2, <2>1, <2>2, CommandKeepsOrder
<1> QED BY <1>1, <1>2 DEF Inv

\* What order says of a command at work: the others are idle, so nobody else starts
\* a daemon or waits for one to exit.
LEMMA AtWork ==
  ASSUME Inv, calm, NEW c \in Clients, ~At(c, "idle")
  PROVE  /\ \A e \in Clients \ {c} : At(e, "idle")
         /\ Relies(clients[c]) /\ FilesLead
         /\ \A d \in Daemons : Starting(d) => At(c, "wait") /\ clients[c].spawned = d
         /\ socket \in Daemons /\ daemons[socket] = "exiting"
              => At(c, "unlink") \/ (At(c, "answered") /\ clients[c].cmd = "kill")
         /\ ~At(c, "wait") => \A d \in Current : Serving(d) /\ socket = d /\ d \in Daemons
<1>1. Orderly
  BY DEF Inv
<1>2. \A e \in Clients \ {c} : At(e, "idle")
  BY <1>1, OthersIdle DEF Orderly
<1>3. Relies(clients[c]) /\ FilesLead
  BY <1>1 DEF Orderly, CommandsRely
<1>4. \A d \in Daemons : Starting(d) => At(c, "wait") /\ clients[c].spawned = d
  BY <1>1, <1>2 DEF Orderly, StartsAwaited, At
<1>5. socket \in Daemons /\ daemons[socket] = "exiting"
        => At(c, "unlink") \/ (At(c, "answered") /\ clients[c].cmd = "kill")
  BY <1>1, <1>2 DEF Orderly, ExitAwaited, At
<1>6. ASSUME ~At(c, "wait") PROVE \A d \in Current : Serving(d) /\ socket = d /\ d \in Daemons
  <2>1. \A d \in Current : d \in Daemons /\ (Starting(d) \/ Serving(d))
    BY DEF Inv, TypeOK, Phases, Current, Starting, Serving
  <2> QED BY <1>3, <1>4, <1>6, <2>1 DEF FilesLead
<1> QED BY <1>2, <1>3, <1>4, <1>5, <1>6

\* The state of the daemons and the files as it was.
LEMMA FilesUnchanged ==
  ASSUME UNCHANGED <<daemons, socket, pid>>
  PROVE  /\ FilesLead => FilesLead'
         /\ Current' = Current
         /\ \A r : Relies(r) => Relies(r)'
         /\ \A d \in Daemons : Starting(d)' <=> Starting(d)
  BY DEF FilesLead, Current, Relies, Reaches, Starting, Serving

\* Finish, in the terms of Over.
LEMMA FinishIs ==
  ASSUME TypeOK, NEW c \in Clients, NEW ok \in BOOLEAN, Finish(c, ok)
  PROVE  clients' = [clients EXCEPT ![c] = Over(clients[c], ok)]
  BY Zenon DEF Finish, Over

\* A command that is over leaves everything as it is. One that killed its daemon, or
\* could not reach it, leaves none.
LEMMA FinishInv ==
  ASSUME Inv, NEW c \in Clients, ~At(c, "idle"), NEW ok \in BOOLEAN, Finish(c, ok),
         UNCHANGED <<daemons, socket, pid, crashes>>, calm' \in BOOLEAN,
         calm' => /\ calm
                  /\ \A d \in Daemons : ~Starting(d)
                  /\ ok \/ clients[c].cmd = "local" \/ clients[c].hit
                  /\ clients[c].cmd = "kill" => Current = {}
                  /\ socket \in Daemons /\ daemons[socket] = "exiting" => clients[c].cmd = "kill"
  PROVE  Inv'
<1>0. PICK r : r = Over(clients[c], ok)
  OBVIOUS
<1>1. clients[c] \in Record
  BY DEF Inv, TypeOK, Record
<1>2. /\ Sound(r)
      /\ r.at = IF clients[c].cmd = "kill" THEN "unlink" ELSE "idle"
      /\ r.failed = (~ok /\ clients[c].cmd # "local")
      /\ r.hit = (~ok /\ clients[c].cmd # "local" /\ clients[c].hit)
  BY <1>0, <1>1, OverSound
<1>3. clients' = [clients EXCEPT ![c] = r]
  BY <1>0, FinishIs DEF Inv
<1>4. ASSUME calm'
      PROVE  /\ \A e \in Clients \ {c} : At(e, "idle")
             /\ Relies(r)' /\ FilesLead'
             /\ \A d \in Daemons : ~Starting(d)'
             /\ socket' \in Daemons /\ daemons'[socket'] = "exiting" => r.at = "unlink"
  <2>1. (\A e \in Clients \ {c} : At(e, "idle")) /\ FilesLead
    BY <1>4, AtWork
  <2>2. Relies(r)
    BY <1>2, <1>4 DEF Relies
  <2>3. Relies(r)' /\ FilesLead' /\ \A d \in Daemons : ~Starting(d)'
    BY <1>4, <2>1, <2>2, FilesUnchanged
  <2> QED BY <1>2, <1>4, <2>1, <2>3
<1>5. /\ daemons' \in [Daemons -> Phases] /\ crashes' = crashes
      /\ socket' \in Daemons \cup {Stale, None} /\ pid' \in Daemons \cup {Stale, None}
  BY DEF Inv, TypeOK
<1> QED BY <1>2, <1>3, <1>4, <1>5, CommandStep

-----------------------------------------------------------------------------
\* Where a command goes on: the same record, at another stage.
LEMMA GoIs ==
  ASSUME TypeOK, NEW c \in Clients, NEW stage \in Stages, Go(c, stage)
  PROVE  \E r \in Record :
           /\ clients' = [clients EXCEPT ![c] = r]
           /\ r.at = stage
           /\ r.cmd = clients[c].cmd /\ r.peer = clients[c].peer
           /\ r.spawned = clients[c].spawned
           /\ r.failed = clients[c].failed /\ r.hit = clients[c].hit
<1>1. clients[c] \in Record
  BY DEF TypeOK, Record
<1>2. PICK r : r = [clients[c] EXCEPT !.at = stage]
  OBVIOUS
<1>3. r \in Record
  BY <1>1, <1>2 DEF Record
<1>4. clients' = [clients EXCEPT ![c] = r]
  BY <1>2 DEF Go
<1> QED BY <1>1, <1>2, <1>3, <1>4 DEF Record

\* At first nobody does anything.
LEMMA InitInv == Init => Inv
<1> SUFFICES ASSUME Init PROVE Inv
  OBVIOUS
<1>1. IdleClient \in Record /\ IdleClient.at = "idle" /\ IdleClient.failed = FALSE
  BY DEF IdleClient, Record, Stages
<1>2. TypeOK
  BY <1>1, ClientAssumption DEF Init, TypeOK, Record, Phases
<1>3. \A c \in Clients : clients[c].at = "idle" /\ ~clients[c].failed
  BY <1>1 DEF Init
<1>4. PeersKnown
  BY <1>3 DEF PeersKnown, At
<1>5. Orderly
  <2>1. OneBusy
    BY <1>3 DEF OneBusy, At
  <2>2. StartsAwaited /\ FilesLead
    BY DEF Init, StartsAwaited, FilesLead, Starting, Serving
  <2>3. ExitAwaited
    BY ClientAssumption DEF Init, ExitAwaited
  <2>4. CommandsRely
    BY <1>3 DEF CommandsRely, Relies
  <2> QED BY <2>1, <2>2, <2>3, <2>4 DEF Orderly
<1> QED BY <1>2, <1>4, <1>5 DEF Inv

\* A command is given: in order only if no other one is at work.
LEMMA BeginInv ==
  ASSUME Inv, NEW c \in Clients, NEW cmd \in {"request", "kill", "local"}, Begin(c, cmd)
  PROVE  Inv'
<1>1. PICK a \in {"connect", "look"} : a = IF cmd = "local" THEN "connect" ELSE "look"
  OBVIOUS
<1>2. PICK r : r = [IdleClient EXCEPT !.cmd = cmd, !.at = a]
  OBVIOUS
<1>3. clients' = [clients EXCEPT ![c] = r]
  BY <1>1, <1>2, Zenon DEF Begin
<1>4. r \in Record /\ r.at = a /\ r.cmd = cmd /\ ~r.failed
  BY <1>2 DEF IdleClient, Record, Stages
<1>5. Sound(r)
  BY <1>4 DEF Sound
<1>6. UNCHANGED <<daemons, socket, pid, crashes>> /\ calm' = (calm /\ Busy = {})
  BY DEF Begin
<1>7. ASSUME calm'
      PROVE  /\ calm /\ \A e \in Clients : At(e, "idle")
             /\ Relies(r)' /\ FilesLead'
             /\ \A d \in Daemons : ~Starting(d)'
             /\ ~(socket' \in Daemons /\ daemons'[socket'] = "exiting")
  <2>1. calm /\ \A e \in Clients : At(e, "idle")
    BY <1>6, <1>7 DEF Busy, At
  <2>2. Orderly
    BY <2>1 DEF Inv
  <2>3. Relies(r)
    BY <1>1, <1>4 DEF Relies, Reaches
  <2>4. FilesLead /\ \A d \in Daemons : ~Starting(d)
    BY <2>1, <2>2 DEF Orderly, StartsAwaited, At
  <2>5. ~(socket \in Daemons /\ daemons[socket] = "exiting")
    BY <2>1, <2>2 DEF Orderly, ExitAwaited, At
  <2> QED BY <1>6, <2>1, <2>3, <2>4, <2>5, FilesUnchanged
<1>8. /\ daemons' \in [Daemons -> Phases] /\ calm' \in BOOLEAN
      /\ socket' \in Daemons \cup {Stale, None} /\ pid' \in Daemons \cup {Stale, None}
  BY <1>6 DEF Inv, TypeOK
<1> QED BY <1>3, <1>5, <1>6, <1>7, <1>8, CommandStep

\* A command that goes on changes neither the daemons nor the files.
LEMMA GoesOn ==
  ASSUME Inv, NEW c \in Clients, ~At(c, "idle"), ~At(c, "wait"), NEW r, Sound(r),
         clients' = [clients EXCEPT ![c] = r],
         UNCHANGED <<daemons, socket, pid, crashes, calm>>,
         ~At(c, "unlink"), ~(At(c, "answered") /\ clients[c].cmd = "kill"),
         calm => Relies(r)
  PROVE  Inv'
<1>1. ASSUME calm'
      PROVE  /\ calm /\ \A e \in Clients \ {c} : At(e, "idle")
             /\ Relies(r)' /\ FilesLead'
             /\ \A d \in Daemons : ~Starting(d)'
             /\ ~(socket' \in Daemons /\ daemons'[socket'] = "exiting")
  <2>1. /\ calm /\ FilesLead /\ \A e \in Clients \ {c} : At(e, "idle")
        /\ \A d \in Daemons : ~Starting(d)
        /\ ~(socket \in Daemons /\ daemons[socket] = "exiting")
    BY <1>1, AtWork
  <2> QED BY <2>1, FilesUnchanged
<1>2. /\ daemons' \in [Daemons -> Phases] /\ calm' \in BOOLEAN
      /\ socket' \in Daemons \cup {Stale, None} /\ pid' \in Daemons \cup {Stale, None}
  BY DEF Inv, TypeOK
<1> QED BY <1>1, <1>2, CommandStep

\* The socket file of a daemon in order leads to a listening daemon exactly when one serves.
LEMMA RunningMeans ==
  ASSUME Inv, calm, NEW c \in Clients, ~At(c, "idle"),
         ~At(c, "unlink"), ~(At(c, "answered") /\ clients[c].cmd = "kill")
  PROVE  /\ is_daemon_running => socket \in Daemons /\ Serving(socket)
         /\ ~is_daemon_running => \A d \in Daemons : ~Serving(d)
         /\ ~is_daemon_running /\ ~At(c, "wait") => Current = {}
<1>1. FilesLead /\ ~(socket \in Daemons /\ daemons[socket] = "exiting")
  BY AtWork
<1>2. is_daemon_running => socket \in Daemons /\ Serving(socket)
  BY <1>1 DEF is_daemon_running, Listening, Serving
<1>3. ~is_daemon_running => \A d \in Daemons : ~Serving(d)
  BY <1>1 DEF is_daemon_running, Listening, Serving, FilesLead
<1>4. ~is_daemon_running /\ ~At(c, "wait") => Current = {}
  BY <1>3, AtWork
<1> QED BY <1>2, <1>3, <1>4

-----------------------------------------------------------------------------
\* The steps of a command.

\* A daemon is started only where none is left, and by the one command at work.
LEMMA EnsureDaemonInv ==
  ASSUME Inv, NEW c \in Clients, ensure_daemon(c)
  PROVE  Inv'
<1>0. /\ At(c, "look") /\ ~At(c, "idle") /\ ~At(c, "wait") /\ ~At(c, "unlink")
      /\ ~(At(c, "answered") /\ clients[c].cmd = "kill")
      /\ UNCHANGED <<socket, pid, crashes>>
  BY DEF ensure_daemon, At
<1>1. TypeOK /\ calm \in BOOLEAN /\ clients[c] \in Record /\ (calm => Relies(clients[c]))
  BY <1>0, AtWork DEF Inv, TypeOK, Record
<1>2. CASE is_daemon_running
  <2>1. Go(c, "connect") /\ UNCHANGED <<daemons, calm>>
    BY <1>2 DEF ensure_daemon
  <2>2. PICK r \in Record : /\ clients' = [clients EXCEPT ![c] = r]
                            /\ r.at = "connect" /\ r.cmd = clients[c].cmd
                            /\ r.failed = clients[c].failed /\ r.hit = clients[c].hit
    BY <1>1, <2>1, GoIs DEF Stages
  <2>3. calm => socket \in Daemons /\ Serving(socket)
    BY <1>0, <1>2, RunningMeans
  <2>4. Sound(r) /\ (calm => Relies(r))
    BY <1>1, <2>2, <2>3 DEF Sound, Relies, Reaches
  <2> QED BY <1>0, <2>1, <2>2, <2>4, GoesOn
<1>3. CASE ~is_daemon_running /\ Fresh = {}
  BY <1>0, <1>3, FinishInv DEF ensure_daemon
<1>4. CASE ~is_daemon_running /\ Fresh # {}
  <2>1. PICK d \in Fresh : /\ daemons' = [daemons EXCEPT ![d] = "starting"]
                           /\ clients' = [clients EXCEPT ![c].at = "wait", ![c].spawned = d]
                           /\ calm' = calm
    BY <1>4 DEF ensure_daemon
  <2>2. d \in Daemons /\ daemons[d] = "none"
    BY DEF Fresh
  <2>3. PICK r : r = [clients[c] EXCEPT !.at = "wait", !.spawned = d]
    OBVIOUS
  <2>4. /\ r \in Record /\ r.at = "wait" /\ r.spawned = d
        /\ r.failed = clients[c].failed /\ r.hit = clients[c].hit
    BY <1>1, <2>2, <2>3 DEF Record, Stages
  <2>5. clients' = [clients EXCEPT ![c] = r]
    BY <1>1, <2>1, <2>3 DEF TypeOK
  <2>6. /\ daemons' \in [Daemons -> Phases]
        /\ socket' \in Daemons \cup {Stale, None} /\ pid' \in Daemons \cup {Stale, None}
    BY <1>0, <1>1, <2>1, <2>2 DEF TypeOK, Phases
  <2>7. ASSUME calm
        PROVE  /\ \A e \in Clients \ {c} : At(e, "idle")
               /\ Relies(r)' /\ FilesLead'
               /\ \A e \in Daemons : Starting(e)' => e = d
               /\ ~(socket' \in Daemons /\ daemons'[socket'] = "exiting")
    <3>1. /\ \A e \in Clients \ {c} : At(e, "idle")
          /\ FilesLead /\ \A e \in Daemons : ~Starting(e)
          /\ ~(socket \in Daemons /\ daemons[socket] = "exiting")
      BY <1>0, <2>7, AtWork
    <3>2. Current = {}
      BY <1>0, <1>4, <2>7, RunningMeans
    <3>3. \A e \in Daemons \ {d} : daemons'[e] = daemons[e]
      BY <1>1, <2>1 DEF TypeOK
    <3>4. daemons'[d] = "starting"
      BY <1>1, <2>1, <2>2 DEF TypeOK
    <3>5. Current' = {d}
      BY <2>2, <3>2, <3>3, <3>4 DEF Current
    <3>6. Relies(r)'
      BY <1>1, <2>4, <2>7, <3>5 DEF Relies
    <3>7. FilesLead'
      BY <1>0, <3>1, <3>3, <3>4 DEF FilesLead, Serving
    <3> QED BY <1>0, <3>1, <3>3, <3>4, <3>6, <3>7 DEF Starting
  <2> QED BY <1>0, <1>1, <2>1, <2>2, <2>4, <2>5, <2>6, <2>7, CommandStep DEF Sound
<1> QED BY <1>2, <1>3, <1>4

\* The wait is over: the daemon serves, unless it crashed.
LEMMA SpawnDaemonInv ==
  ASSUME Inv, NEW c \in Clients, spawn_daemon(c)
  PROVE  Inv'
<1>0. /\ At(c, "wait") /\ ~At(c, "idle") /\ ~At(c, "unlink")
      /\ ~(At(c, "answered") /\ clients[c].cmd = "kill")
      /\ calm' = (calm /\ Started(clients[c].spawned))
      /\ UNCHANGED <<daemons, socket, pid, crashes>>
  BY DEF spawn_daemon, At
<1>1. /\ TypeOK /\ calm' \in BOOLEAN /\ clients[c] \in Record
      /\ clients[c].spawned \in Daemons
  BY <1>0 DEF Inv, TypeOK, Record, PeersKnown
<1>2. ASSUME calm'
      PROVE  /\ calm /\ Relies(clients[c]) /\ FilesLead
             /\ \A e \in Clients \ {c} : At(e, "idle")
             /\ \A d \in Daemons : ~Starting(d)
             /\ ~(socket \in Daemons /\ daemons[socket] = "exiting")
             /\ is_daemon_running => socket \in Daemons /\ Serving(socket)
             /\ ~is_daemon_running => Current = {} /\ clients[c].hit
  <2>1. calm /\ Started(clients[c].spawned)
    BY <1>0, <1>2
  <2>2. /\ Relies(clients[c]) /\ FilesLead
        /\ \A e \in Clients \ {c} : At(e, "idle")
        /\ \A d \in Daemons : Starting(d) => clients[c].spawned = d
        /\ ~(socket \in Daemons /\ daemons[socket] = "exiting")
    BY <1>0, <2>1, AtWork
  <2>3. \A d \in Daemons : ~Starting(d)
    BY <2>1, <2>2 DEF Started, Starting
  <2>4. /\ is_daemon_running => socket \in Daemons /\ Serving(socket)
        /\ ~is_daemon_running => \A d \in Daemons : ~Serving(d)
    BY <1>0, <2>1, RunningMeans
  <2>5. ~is_daemon_running => Current = {}
    BY <1>1, <2>3, <2>4 DEF Current, TypeOK, Phases, Starting, Serving
  <2>6. ~is_daemon_running => clients[c].hit
    BY <1>0, <2>2, <2>5 DEF Relies, At
  <2> QED BY <2>1, <2>2, <2>3, <2>4, <2>5, <2>6
<1>3. CASE is_daemon_running
  <2>1. clients' = [clients EXCEPT ![c].at = "connect", ![c].spawned = None]
    BY <1>3 DEF spawn_daemon
  <2>2. PICK r : r = [clients[c] EXCEPT !.at = "connect", !.spawned = None]
    OBVIOUS
  <2>3. /\ r \in Record /\ r.at = "connect"
        /\ r.failed = clients[c].failed /\ r.hit = clients[c].hit
    BY <1>1, <2>2 DEF Record, Stages
  <2>4. clients' = [clients EXCEPT ![c] = r]
    BY <1>1, <2>1, <2>2 DEF TypeOK
  <2>5. calm' => Relies(r)
    BY <1>2, <1>3, <2>3 DEF Relies, Reaches
  <2>6. calm' => Relies(r)' /\ FilesLead' /\ \A d \in Daemons : ~Starting(d)'
    BY <1>0, <1>2, <2>5, FilesUnchanged
  <2>7. /\ daemons' \in [Daemons -> Phases]
        /\ socket' \in Daemons \cup {Stale, None} /\ pid' \in Daemons \cup {Stale, None}
    BY <1>0, <1>1 DEF TypeOK
  <2> QED BY <1>0, <1>1, <1>2, <2>3, <2>4, <2>6, <2>7, CommandStep DEF Sound
<1>4. CASE ~is_daemon_running
  BY <1>0, <1>1, <1>2, <1>4, FinishInv DEF spawn_daemon
<1> QED BY <1>3, <1>4

\* The connection is to the daemon that serves.
LEMMA ConnectInv ==
  ASSUME Inv, NEW c \in Clients, connect(c)
  PROVE  Inv'
<1>0. /\ At(c, "connect") /\ ~At(c, "idle") /\ ~At(c, "wait") /\ ~At(c, "unlink")
      /\ ~(At(c, "answered") /\ clients[c].cmd = "kill")
      /\ UNCHANGED <<daemons, socket, pid, crashes, calm>>
  BY DEF connect, At
<1>1. /\ TypeOK /\ calm' \in BOOLEAN /\ clients[c] \in Record
  BY <1>0 DEF Inv, TypeOK, Record
<1>2. CASE is_daemon_running
  <2>1. clients' = [clients EXCEPT ![c].at = "send", ![c].peer = socket]
    BY <1>2 DEF connect
  <2>2. PICK r : r = [clients[c] EXCEPT !.at = "send", !.peer = socket]
    OBVIOUS
  <2>3. /\ r \in Record /\ r.at = "send" /\ r.peer = socket /\ socket \in Daemons
        /\ r.failed = clients[c].failed /\ r.hit = clients[c].hit
    BY <1>1, <1>2, <2>2 DEF Record, Stages, is_daemon_running
  <2>4. clients' = [clients EXCEPT ![c] = r]
    BY <1>1, <2>1, <2>2 DEF TypeOK
  <2>5. ASSUME calm PROVE Relies(r)
    <3>1. Relies(clients[c]) /\ Serving(socket) /\ \A d \in Current : socket = d
      BY <1>0, <1>2, <2>5, AtWork, RunningMeans
    <3> QED BY <2>3, <3>1 DEF Relies, Reaches
  <2> QED BY <1>0, <2>3, <2>4, <2>5, GoesOn DEF Sound
<1>3. CASE ~is_daemon_running
  <2>1. ASSUME calm'
        PROVE  /\ calm /\ \A d \in Daemons : ~Starting(d)
               /\ clients[c].cmd = "local" \/ clients[c].hit
               /\ Current = {}
               /\ ~(socket \in Daemons /\ daemons[socket] = "exiting")
    <3>1. /\ \A d \in Daemons : ~Starting(d)
          /\ Relies(clients[c]) /\ Current = {}
          /\ ~(socket \in Daemons /\ daemons[socket] = "exiting")
          /\ \A d \in Daemons : ~Serving(d)
      BY <1>0, <1>3, <2>1, AtWork, RunningMeans
    <3> QED BY <1>0, <2>1, <3>1 DEF Relies, Reaches, At
  <2>2. Finish(c, FALSE)
    BY <1>3 DEF connect
  <2> QED BY <1>0, <1>1, <2>1, <2>2, FinishInv
<1> QED BY <1>2, <1>3

\* A daemon that hangs up on the one command at work crashed, and left none.
LEMMA LostPeerInv ==
  ASSUME Inv, NEW c \in Clients, At(c, "send") \/ At(c, "sent"),
         ~Listening(clients[c].peer), Finish(c, FALSE),
         UNCHANGED <<daemons, socket, pid, crashes, calm>>
  PROVE  Inv'
<1>0. /\ ~At(c, "idle") /\ ~At(c, "wait") /\ ~At(c, "unlink")
      /\ ~(At(c, "answered") /\ clients[c].cmd = "kill")
  BY DEF At
<1>1. TypeOK /\ calm' = calm /\ calm' \in BOOLEAN
  BY DEF Inv, TypeOK
<1>2. ASSUME calm'
      PROVE  /\ calm /\ \A d \in Daemons : ~Starting(d)
             /\ clients[c].cmd = "local" \/ clients[c].hit
             /\ Current = {}
             /\ ~(socket \in Daemons /\ daemons[socket] = "exiting")
  <2>1. /\ \A d \in Daemons : ~Starting(d)
        /\ Relies(clients[c])
        /\ ~(socket \in Daemons /\ daemons[socket] = "exiting")
        /\ \A d \in Current : Serving(d)
    BY <1>0, <1>2, AtWork
  <2>2. ~Serving(clients[c].peer)
    BY DEF Listening, Serving
  <2>3. clients[c].cmd = "local" \/ clients[c].hit
    BY <2>1, <2>2 DEF Relies, Reaches, At
  <2>4. Current \subseteq {clients[c].peer}
    BY <2>1 DEF Relies, At
  <2> QED BY <1>1, <1>2, <2>1, <2>2, <2>3, <2>4
<1> QED BY <1>0, <1>1, <1>2, FinishInv

\* A message that is too large ends a command, and changes nothing else.
LEMMA OversizedInv ==
  ASSUME Inv, NEW c \in Clients, At(c, "send") \/ At(c, "answered"), Oversized(c),
         UNCHANGED <<daemons, socket, pid, crashes, calm>>
  PROVE  Inv'
<1>0. /\ ~At(c, "idle") /\ ~At(c, "wait") /\ ~At(c, "unlink")
      /\ clients[c].cmd # "kill"
  BY DEF At, Oversized
<1>1. PICK f \in BOOLEAN : f = (clients[c].cmd # "local")
  OBVIOUS
<1>2. PICK r : r = [IdleClient EXCEPT !.failed = f, !.hit = f]
  OBVIOUS
<1>3. clients' = [clients EXCEPT ![c] = r]
  BY <1>1, <1>2, Zenon DEF Oversized
<1>4. r \in Record /\ r.at = "idle" /\ r.failed = f /\ r.hit = f
  BY <1>2 DEF IdleClient, Record, Stages
<1>5. Sound(r) /\ Relies(r)
  BY <1>4 DEF Sound, Relies
<1> QED BY <1>0, <1>3, <1>5, GoesOn

\* The request goes out while the daemon listens.
LEMMA WriteMessageInv ==
  ASSUME Inv, NEW c \in Clients, write_message(c)
  PROVE  Inv'
<1>0. /\ At(c, "send") /\ ~At(c, "idle") /\ ~At(c, "wait") /\ ~At(c, "unlink")
      /\ ~(At(c, "answered") /\ clients[c].cmd = "kill")
      /\ UNCHANGED <<daemons, socket, pid, crashes, calm>>
  BY DEF write_message, At
<1>1. /\ TypeOK /\ clients[c] \in Record
      /\ clients[c].peer \in Daemons
  BY <1>0 DEF Inv, TypeOK, Record, PeersKnown, At
<1>2. ASSUME Go(c, "sent") PROVE Inv'
  <2>1. Go(c, "sent")
    BY <1>2
  <2>2. PICK r \in Record : /\ clients' = [clients EXCEPT ![c] = r]
                            /\ r.at = "sent" /\ r.cmd = clients[c].cmd
                            /\ r.peer = clients[c].peer
                            /\ r.failed = clients[c].failed /\ r.hit = clients[c].hit
    BY <1>1, <2>1, GoIs DEF Stages
  <2>3. ASSUME calm PROVE Relies(r)
    <3>1. Relies(clients[c])
      BY <1>0, <2>3, AtWork
    <3> QED BY <1>0, <2>2, <3>1 DEF Relies, Reaches, At
  <2> QED BY <1>0, <1>1, <2>2, <2>3, GoesOn DEF Sound
<1>3. CASE ~Listening(clients[c].peer)
  <2>1. Finish(c, FALSE)
    BY <1>3 DEF write_message
  <2> QED BY <1>0, <1>1, <1>3, <2>1, LostPeerInv
<1> QED BY <1>0, <1>2, <1>3, OversizedInv DEF write_message

\* The request is executed. A kill leaves no daemon but the one about to exit.
LEMMA HandleClientInv ==
  ASSUME Inv, NEW c \in Clients, handle_client(c)
  PROVE  Inv'
<1>0. /\ At(c, "sent") /\ ~At(c, "idle") /\ ~At(c, "wait") /\ ~At(c, "unlink")
      /\ ~(At(c, "answered") /\ clients[c].cmd = "kill")
      /\ UNCHANGED <<socket, pid, crashes, calm>>
      /\ Go(c, "answered")
  BY DEF handle_client, At
<1>1. /\ TypeOK /\ clients[c] \in Record
      /\ clients[c].peer \in Daemons
  BY <1>0 DEF Inv, TypeOK, Record, PeersKnown, At
<1>2. PICK r \in Record : /\ clients' = [clients EXCEPT ![c] = r]
                          /\ r.at = "answered" /\ r.cmd = clients[c].cmd
                          /\ r.failed = clients[c].failed /\ r.hit = clients[c].hit
  BY <1>0, <1>1, GoIs DEF Stages
<1>3. Sound(r)
  BY <1>2 DEF Sound
<1>4. calm => Relies(clients[c])
  BY <1>0, AtWork
<1>5. CASE clients[c].cmd # "kill"
  <2>1. daemons' = daemons
    BY <1>5 DEF handle_client
  <2>2. calm => Relies(r)
    BY <1>0, <1>2, <1>4, <1>5 DEF Relies
  <2> QED BY <1>0, <1>2, <1>3, <2>1, <2>2, GoesOn
<1>6. CASE clients[c].cmd = "kill"
  <2>1. PICK p \in Daemons : p = clients[c].peer
    BY <1>1
  <2>2. daemons' = [daemons EXCEPT ![p] = "exiting"]
    BY <1>6, <2>1 DEF handle_client
  <2>3. daemons'[p] = "exiting" /\ \A d \in Daemons \ {p} : daemons'[d] = daemons[d]
    BY <1>1, <2>2 DEF TypeOK
  <2>4. /\ daemons' \in [Daemons -> Phases] /\ calm' \in BOOLEAN
        /\ socket' \in Daemons \cup {Stale, None} /\ pid' \in Daemons \cup {Stale, None}
    BY <1>0, <1>1, <2>2 DEF TypeOK, Phases
  <2>5. ASSUME calm
        PROVE  /\ \A e \in Clients \ {c} : At(e, "idle")
               /\ Relies(r)' /\ FilesLead'
               /\ \A e \in Daemons : ~Starting(e)'
    <3>1. /\ \A e \in Clients \ {c} : At(e, "idle")
          /\ FilesLead /\ (\A e \in Daemons : ~Starting(e))
      BY <1>0, <2>5, AtWork
    <3>2. Current \subseteq {p}
      BY <1>0, <1>4, <2>1, <2>5 DEF Relies, At
    <3>3. Current' = {}
      BY <2>3, <3>2 DEF Current
    <3>4. Relies(r)'
      BY <1>0, <1>2, <1>4, <2>5, <3>3 DEF Relies
    <3>5. FilesLead'
      BY <1>0, <2>3, <3>1 DEF FilesLead, Serving
    <3> QED BY <2>3, <3>1, <3>4, <3>5 DEF Starting
  <2> QED BY <1>0, <1>2, <1>3, <1>6, <2>4, <2>5, CommandStep
<1> QED BY <1>5, <1>6

\* The answer arrives, or the connection ends.
LEMMA ReadMessageInv ==
  ASSUME Inv, NEW c \in Clients, read_message(c)
  PROVE  Inv'
<1>0. UNCHANGED <<daemons, socket, pid, crashes, calm>>
  BY DEF read_message
<1>1. TypeOK
  BY DEF Inv
<1>2. CASE At(c, "answered") /\ Finish(c, TRUE)
  <2>1. ~At(c, "idle") /\ ~At(c, "wait") /\ ~At(c, "unlink")
    BY <1>2 DEF At
  <2>2. ASSUME calm'
        PROVE  /\ calm /\ \A d \in Daemons : ~Starting(d)
               /\ clients[c].cmd = "kill" => Current = {}
               /\ socket \in Daemons /\ daemons[socket] = "exiting" => clients[c].cmd = "kill"
    <3>1. /\ \A d \in Daemons : ~Starting(d)
          /\ Relies(clients[c])
          /\ socket \in Daemons /\ daemons[socket] = "exiting" => clients[c].cmd = "kill"
      BY <1>0, <2>1, <2>2, AtWork
    <3> QED BY <1>0, <1>2, <2>2, <3>1 DEF Relies, At
  <2>3. calm' \in BOOLEAN
    BY <1>0, <1>1 DEF TypeOK
  <2> QED BY <1>0, <1>2, <2>1, <2>2, <2>3, FinishInv
<1>3. CASE At(c, "sent") /\ ~Listening(clients[c].peer) /\ Finish(c, FALSE)
  BY <1>0, <1>3, LostPeerInv
<1> QED BY <1>0, <1>2, <1>3, OversizedInv DEF read_message

\* The files of the daemon that was killed go, and no other daemon has any.
LEMMA CleanupInv ==
  ASSUME Inv, NEW c \in Clients, cleanup(c)
  PROVE  Inv'
<1>0. UNCHANGED <<daemons, crashes, calm>> /\ TypeOK
  BY DEF cleanup, Inv
<1>1. PICK a \in {"unlink_pid", "idle"} :
        /\ At(c, "unlink") \/ At(c, "unlink_pid")
        /\ At(c, "unlink") <=> a = "unlink_pid"
        /\ Go(c, a)
        /\ At(c, "unlink") => socket' = None
        /\ socket' \in {socket, None} /\ pid' \in {pid, None}
  BY DEF cleanup, At
<1>2. ~At(c, "idle") /\ ~At(c, "wait") /\ ~At(c, "answered")
  BY <1>1 DEF At
<1>3. PICK r \in Record : /\ clients' = [clients EXCEPT ![c] = r]
                          /\ r.at = a /\ r.cmd = clients[c].cmd
                          /\ r.failed = clients[c].failed /\ r.hit = clients[c].hit
  <2>1. a \in Stages
    BY DEF Stages
  <2> QED BY <1>0, <1>1, <2>1, GoIs
<1>4. Sound(r)
  BY <1>3 DEF Sound
<1>5. /\ daemons' \in [Daemons -> Phases] /\ calm' \in BOOLEAN
      /\ socket' \in Daemons \cup {Stale, None} /\ pid' \in Daemons \cup {Stale, None}
  BY <1>0, <1>1 DEF TypeOK
<1>6. ASSUME calm
      PROVE  /\ \A e \in Clients \ {c} : At(e, "idle")
             /\ Relies(r)' /\ FilesLead'
             /\ \A e \in Daemons : ~Starting(e)'
             /\ ~(socket' \in Daemons /\ daemons'[socket'] = "exiting")
  <2>1. /\ \A e \in Clients \ {c} : At(e, "idle")
        /\ Relies(clients[c]) /\ (\A e \in Daemons : ~Starting(e))
        /\ socket \in Daemons /\ daemons[socket] = "exiting" => At(c, "unlink")
    BY <1>2, <1>6, AtWork
  <2>2. Current = {} /\ Current' = {}
    BY <1>0, <1>1, <2>1 DEF Relies, At, Current
  <2>3. Relies(r)'
    BY <1>3, <2>1, <2>2 DEF Relies
  <2>4. FilesLead'
    BY <2>2 DEF FilesLead, Serving, Current
  <2>5. ~(socket' \in Daemons /\ daemons'[socket'] = "exiting")
    BY <1>0, <1>1, <2>1, ClientAssumption
  <2> QED BY <1>0, <2>1, <2>3, <2>4, <2>5 DEF Starting
<1> QED BY <1>0, <1>3, <1>4, <1>5, <1>6, CommandStep

-----------------------------------------------------------------------------
\* The steps of a daemon.

\* A daemon that is starting goes on to the next phase: its command waits for it,
\* and there is no other daemon but those about to exit.
LEMMA AwaitedAlone ==
  ASSUME Inv, calm, NEW d \in Daemons, Starting(d)
  PROVE  \E c \in Clients :
           /\ At(c, "wait") /\ clients[c].spawned = d
           /\ Current = {d}
           /\ ~(socket \in Daemons /\ daemons[socket] = "exiting")
           /\ \A e \in Clients \ {c} : At(e, "idle")
<1>1. Orderly
  BY DEF Inv
<1>2. PICK c \in Clients : At(c, "wait") /\ clients[c].spawned = d
  BY <1>1 DEF Orderly, StartsAwaited
<1>3. ~At(c, "idle") /\ ~At(c, "unlink") /\ ~At(c, "answered")
  BY <1>2 DEF At
<1>4. /\ Relies(clients[c]) /\ \A e \in Clients \ {c} : At(e, "idle")
      /\ ~(socket \in Daemons /\ daemons[socket] = "exiting")
  BY <1>3, AtWork
<1>5. Current \subseteq {d}
  BY <1>2, <1>4 DEF Relies, At
<1>6. d \in Current
  BY DEF Starting, Current
<1> QED BY <1>2, <1>4, <1>5, <1>6

\* A step of the one daemon that is starting.
LEMMA StartInv ==
  ASSUME Inv, NEW d \in Daemons, Starting(d),
         NEW p \in {"restored", "unlinked", "serving"},
         daemons' = [daemons EXCEPT ![d] = p],
         socket' \in Daemons \cup {Stale, None}, pid' \in Daemons \cup {Stale, None},
         UNCHANGED <<clients, crashes, calm>>,
         calm => /\ socket' \in {socket, None, d} /\ pid' = d
                 /\ p = "unlinked" => socket' = None
                 /\ p = "serving" => socket' = d
  PROVE  Inv'
<1>1. TypeOK /\ PeersKnown
  BY DEF Inv
<1>2. TypeOK' /\ PeersKnown'
  BY <1>1 DEF TypeOK, PeersKnown, At, Phases
<1>3. daemons'[d] = p /\ \A e \in Daemons \ {d} : daemons'[e] = daemons[e]
  BY <1>1 DEF TypeOK
<1>4. ASSUME calm' PROVE Orderly'
  <2>1. calm /\ Orderly
    BY <1>4 DEF Inv
  <2>2. PICK c \in Clients : /\ At(c, "wait") /\ clients[c].spawned = d
                             /\ Current = {d}
                             /\ ~(socket \in Daemons /\ daemons[socket] = "exiting")
                             /\ \A e \in Clients \ {c} : At(e, "idle")
    BY <2>1, AwaitedAlone
  <2>3. Current' = {d}
    BY <1>3, <2>2 DEF Current
  <2>4. OneBusy'
    BY <2>1 DEF Orderly, OneBusy, At
  <2>5. StartsAwaited'
    BY <1>3, <2>1 DEF Orderly, StartsAwaited, Starting, At
  <2>6. \A e \in Daemons \ {d} : daemons'[e] \in {"none", "exiting"}
    BY <2>3 DEF Current
  <2>7. FilesLead'
    BY <1>3, <2>1, <2>6 DEF FilesLead, Serving
  <2>8. ~(socket' \in Daemons /\ daemons'[socket'] = "exiting")
    BY <1>3, <2>1, <2>2, ClientAssumption
  <2>9. CommandsRely'
    <3>1. \A e \in Clients : Relies(clients[e])
      BY <2>1 DEF Orderly, CommandsRely
    <3>2. Relies(clients[c])'
      BY <2>2, <2>3, <3>1 DEF Relies, At
    <3>3. \A e \in Clients \ {c} : Relies(clients[e])'
      BY <2>2, <3>1 DEF Relies, At
    <3> QED BY <3>2, <3>3 DEF CommandsRely
  <2> QED BY <2>4, <2>5, <2>7, <2>8, <2>9 DEF Orderly, ExitAwaited
<1> QED BY <1>2, <1>4 DEF Inv

\* A daemon ends that no command relies on any more, or that crashed.
LEMMA EndInv ==
  ASSUME Inv, NEW d \in Daemons,
         daemons' = [daemons EXCEPT ![d] = "none"],
         socket' = Left(socket, d), pid' = Left(pid, d),
         TypeOK', PeersKnown', calm' = calm,
         \A c \in Clients : /\ clients'[c].at = clients[c].at
                            /\ clients'[c].cmd = clients[c].cmd
                            /\ clients'[c].peer = clients[c].peer
                            /\ clients'[c].spawned = clients[c].spawned
                            /\ clients'[c].failed = clients[c].failed
                            /\ clients[c].hit => clients'[c].hit,
         daemons[d] = "exiting" \/ \A c \in Clients : At(c, "idle") \/ clients'[c].hit
  PROVE  Inv'
<1>1. TypeOK
  BY DEF Inv
<1>2. daemons'[d] = "none" /\ \A e \in Daemons \ {d} : daemons'[e] = daemons[e]
  BY <1>1 DEF TypeOK
<1>3. /\ socket = d => socket' = Stale
      /\ socket # d => socket' = socket
      /\ pid # d => pid' = pid
  BY DEF Left
<1>4. ASSUME calm' PROVE Orderly'
  <2>1. Orderly
    BY <1>4 DEF Inv
  <2>2. /\ Current' = Current \ {d}
        /\ \A e \in Daemons : Serving(e)' <=> Serving(e) /\ e # d
    BY <1>2 DEF Current, Serving
  <2>3. OneBusy'
    BY <2>1 DEF Orderly, OneBusy, At
  <2>4. StartsAwaited'
    BY <1>2, <2>1 DEF Orderly, StartsAwaited, Starting, At
  <2>5. FilesLead'
    BY <1>2, <1>3, <2>1, ClientAssumption DEF Orderly, FilesLead, Serving
  <2>6. ExitAwaited'
    <3>1. SUFFICES ASSUME socket' \in Daemons, daemons'[socket'] = "exiting"
                   PROVE  (\E c \in Clients : At(c, "unlink") \/ (At(c, "answered") /\ clients[c].cmd = "kill"))'
      BY DEF ExitAwaited
    <3>2. socket' = socket /\ socket # d
      BY <1>3, <3>1, ClientAssumption
    <3>3. daemons[socket] = "exiting"
      BY <1>2, <3>1, <3>2
    <3> QED BY <2>1, <3>1, <3>2, <3>3 DEF Orderly, ExitAwaited, At
  <2>7. CommandsRely'
    <3>1. SUFFICES ASSUME NEW c \in Clients PROVE Relies(clients[c])'
      BY DEF CommandsRely
    <3>2. Relies(clients[c])
      BY <2>1 DEF Orderly, CommandsRely
    <3>3. CASE At(c, "idle")
      BY <3>2, <3>3 DEF Relies, At
    <3>4. CASE ~At(c, "idle") /\ clients'[c].hit
      BY <2>2, <3>2, <3>4 DEF Relies, Reaches
    <3>5. CASE daemons[d] = "exiting"
      <4>1. Current' = Current
        BY <2>2, <3>5 DEF Current
      <4>2. \A e \in Daemons : Serving(e)' <=> Serving(e)
        BY <2>2, <3>5 DEF Serving
      <4>3. clients[c].at = "connect" => Reaches(clients[c], socket)'
        <5>1. CASE socket \in Daemons /\ Serving(socket)
          <6>1. socket' = socket
            BY <1>3, <3>5, <5>1 DEF Serving
          <6> QED BY <4>2, <5>1, <6>1 DEF Reaches
        <5>2. CASE clients[c].cmd = "local" \/ clients[c].hit
          BY <5>2 DEF Reaches
        <5> QED BY <3>2, <5>1, <5>2 DEF Relies, Reaches
      <4>4. clients[c].at \in {"send", "sent"} => Reaches(clients[c], clients[c].peer)'
        BY <3>2, <4>2 DEF Relies, Reaches
      <4> QED BY <3>2, <4>1, <4>3, <4>4 DEF Relies
    <3> QED BY <3>3, <3>4, <3>5
  <2> QED BY <2>3, <2>4, <2>5, <2>6, <2>7 DEF Orderly
<1> QED BY <1>4 DEF Inv

\* run_daemon: one step of a daemon that is starting.
LEMMA RunDaemonInv ==
  ASSUME Inv, NEW d \in Daemons, run_daemon(d)
  PROVE  Inv'
<1>1. Starting(d)
  BY DEF run_daemon, Starting
<1>2. socket' \in Daemons \cup {Stale, None} /\ pid' \in Daemons \cup {Stale, None}
  BY DEF run_daemon, Inv, TypeOK
<1> QED BY <1>1, <1>2, StartInv DEF run_daemon

\* In order, nobody binds the socket between the removal and the bind of a daemon.
LEMMA RunServerInv ==
  ASSUME Inv, NEW d \in Daemons, run_server(d)
  PROVE  Inv'
<1>0. TypeOK /\ UNCHANGED <<clients, crashes, calm>>
  BY DEF Inv, run_server
<1>1. Starting(d)
  BY DEF run_server, Starting
<1>2. calm => FilesLead
  BY DEF Inv, Orderly
<1>3. CASE daemons[d] = "restored"
  <2>1. daemons' = [daemons EXCEPT ![d] = "unlinked"] /\ socket' = None
    BY <1>3 DEF run_server
  <2>2. pid' = pid
    BY <1>0, <2>1 DEF run_server, TypeOK
  <2> QED BY <1>0, <1>1, <1>2, <1>3, <2>1, <2>2, StartInv DEF FilesLead, TypeOK
<1>4. CASE daemons[d] = "unlinked" /\ socket = None
  <2>1. daemons' = [daemons EXCEPT ![d] = "serving"] /\ socket' = d
    BY <1>4 DEF run_server
  <2>2. pid' = pid
    BY <1>0, <2>1 DEF run_server, TypeOK
  <2> QED BY <1>0, <1>1, <1>2, <1>4, <2>1, <2>2, StartInv DEF FilesLead, TypeOK
<1>5. CASE daemons[d] = "unlinked" /\ socket # None
  <2>1. ~calm
    BY <1>2, <1>5 DEF FilesLead
  <2>2. daemons' = [daemons EXCEPT ![d] = "none"] /\ socket' = socket
    BY <1>5 DEF run_server
  <2>3. pid' \in Daemons \cup {Stale, None}
    BY <1>0 DEF run_server, Left, TypeOK
  <2>4. TypeOK' /\ PeersKnown'
    BY <1>0, <2>2, <2>3 DEF Inv, TypeOK, PeersKnown, At, Phases
  <2> QED BY <1>0, <2>1, <2>4 DEF Inv
<1> QED BY <1>3, <1>4, <1>5 DEF run_server

\* exit(0), 100 ms after a kill.
LEMMA ExitInv ==
  ASSUME Inv, NEW d \in Daemons, exit(d)
  PROVE  Inv'
<1>1. TypeOK' /\ PeersKnown'
  BY DEF exit, Left, Inv, TypeOK, PeersKnown, At, Phases
<1> QED BY <1>1, EndInv DEF exit

\* A daemon that crashes takes down no daemon but itself, and marks who spoke to it.
LEMMA CrashInv ==
  ASSUME Inv, NEW d \in Daemons, Crash(d)
  PROVE  Inv'
<1>1. \A c \in Clients :
        /\ clients[c] \in Record
        /\ clients'[c] = [clients[c] EXCEPT !.hit = @ \/ c \in Busy]
  BY DEF Crash, Inv, TypeOK, Record
<1>2. \A c \in Clients :
        /\ clients'[c] \in Record
        /\ clients'[c].at = clients[c].at
        /\ clients'[c].cmd = clients[c].cmd
        /\ clients'[c].peer = clients[c].peer
        /\ clients'[c].spawned = clients[c].spawned
        /\ clients'[c].failed = clients[c].failed
        /\ clients[c].hit => clients'[c].hit
        /\ c \in Busy => clients'[c].hit
  <2> SUFFICES ASSUME NEW c \in Clients
               PROVE  /\ clients'[c] \in Record
                      /\ clients'[c].at = clients[c].at
                      /\ clients'[c].cmd = clients[c].cmd
                      /\ clients'[c].peer = clients[c].peer
                      /\ clients'[c].spawned = clients[c].spawned
                      /\ clients'[c].failed = clients[c].failed
                      /\ clients[c].hit => clients'[c].hit
                      /\ c \in Busy => clients'[c].hit
    OBVIOUS
  <2>1. PICK h \in BOOLEAN : h <=> clients[c].hit \/ c \in Busy
    OBVIOUS
  <2>2. h = (clients[c].hit \/ c \in Busy)
    BY <1>1, <2>1, Zenon DEF Record
  <2>3. clients'[c] = [clients[c] EXCEPT !.hit = h]
    BY <1>1, <2>2
  <2> QED BY <1>1, <2>1, <2>3 DEF Record
<1>3. \A c \in Clients : At(c, "idle") \/ clients'[c].hit
  BY <1>2 DEF Busy, At
<1>4. TypeOK'
  <2>1. clients' \in [Clients -> Record]
    BY <1>2 DEF Crash
  <2> QED BY <2>1, ClientAssumption DEF Crash, Left, Inv, TypeOK, Record, Phases
<1>5. PeersKnown'
  BY <1>2 DEF Inv, PeersKnown, At
<1>6. /\ daemons' = [daemons EXCEPT ![d] = "none"]
      /\ socket' = Left(socket, d) /\ pid' = Left(pid, d) /\ calm' = calm
  BY DEF Crash
<1> QED BY <1>2, <1>3, <1>4, <1>5, <1>6, EndInv

\* Every step keeps the invariant.
LEMMA NextInv ==
  ASSUME Inv, [Next]_vars
  PROVE  Inv'
<1>1. ASSUME NEW c \in Clients, Step(c) PROVE Inv'
  BY <1>1, EnsureDaemonInv, SpawnDaemonInv, ConnectInv, WriteMessageInv,
     ReadMessageInv, CleanupInv DEF Step
<1>2. ASSUME NEW c \in Clients, NEW cmd \in {"request", "kill", "local"}, Begin(c, cmd)
      PROVE  Inv'
  BY <1>2, BeginInv
<1>3. ASSUME NEW d \in Daemons, run_daemon(d) \/ run_server(d) \/ exit(d) \/ Crash(d)
      PROVE  Inv'
  BY <1>3, RunDaemonInv, RunServerInv, ExitInv, CrashInv
<1>5. ASSUME NEW c \in Clients, handle_client(c) PROVE Inv'
  BY <1>5, HandleClientInv
<1>4. CASE UNCHANGED vars
  BY <1>4 DEF vars, Inv, TypeOK, PeersKnown, Orderly, OneBusy, StartsAwaited, FilesLead,
     ExitAwaited, CommandsRely, Relies, Reaches, Current, Starting, Serving, At
<1> QED BY <1>1, <1>2, <1>3, <1>4, <1>5 DEF Next

-----------------------------------------------------------------------------
\* In every reachable state the types hold and, while no commands have overlapped and
\* no daemon has been slow, daemons, files and commands are in the order of Orderly.
THEOREM InvariantHolds == Spec => []Inv
<1>1. Inv /\ [Next]_vars => Inv'
  BY NextInv
<1> QED BY InitInv, <1>1, PTL DEF Spec

\* The type invariant of Client.
THEOREM TypeCorrect == Spec => []TypeOK
<1>1. Inv => TypeOK
  BY DEF Inv
<1> QED BY InvariantHolds, <1>1, PTL

\* For any number of shells, daemons and crashes: as long as commands are given one
\* after the other and daemons start in time, ensure_daemon never leaves two daemons,
\* and the socket file and nyrun.pid are those of the one that serves.
THEOREM OneDaemonHolds == Spec => []OneDaemon
<1>1. Inv => OneDaemon
  <2> SUFFICES ASSUME Inv, calm
               PROVE  /\ Cardinality(Current) <= 1
                      /\ \A d \in Current : daemons[d] = "serving" => socket = d /\ pid = d
    BY DEF OneDaemon
  <2>1. FilesLead
    BY DEF Inv, Orderly
  <2>2. \A d \in Current : daemons[d] = "serving" => socket = d /\ pid = d
    BY <2>1 DEF FilesLead, Serving, Current
  <2>3. \A d, e \in Current : d = e
    <3> SUFFICES ASSUME NEW d \in Current, NEW e \in Current PROVE d = e
      OBVIOUS
    <3>1. d \in Daemons /\ e \in Daemons
      BY DEF Current
    <3>2. CASE Starting(d)
      BY <3>1, <3>2, AwaitedAlone
    <3>3. CASE Starting(e)
      BY <3>1, <3>3, AwaitedAlone
    <3>4. CASE Serving(d) /\ Serving(e)
      BY <2>1, <3>1, <3>4 DEF FilesLead
    <3>5. (Starting(d) \/ Serving(d)) /\ (Starting(e) \/ Serving(e))
      BY <3>1 DEF Inv, TypeOK, Phases, Current, Starting, Serving
    <3> QED BY <3>2, <3>3, <3>4, <3>5
  <2>4. Cardinality(Current) <= 1
    <3>1. CASE Current = {}
      BY <3>1, FS_EmptySet
    <3>2. CASE Current # {}
      <4>1. PICK d : Current = {d}
        BY <2>3, <3>2
      <4> QED BY <4>1, FS_Singleton
    <3> QED BY <3>1, <3>2
  <2> QED BY <2>2, <2>4
<1> QED BY InvariantHolds, <1>1, PTL

\* Under the same conditions no command of a user fails, whatever the files that
\* crashes and kills left, unless a daemon crashes while the command is at work.
THEOREM CommandSucceedsHolds == Spec => []CommandSucceeds
<1>1. Inv => CommandSucceeds
  BY DEF Inv, Orderly, CommandsRely, Relies, CommandSucceeds
<1> QED BY InvariantHolds, <1>1, PTL

-----------------------------------------------------------------------------
(* Manifest. *)

\* The documents read so far were good, and their ConfigMaps are on disk; `nyrun
\* start' goes on only with processes to run.
ReadSoFar ==
  /\ start.at = "read" =>
       /\ start.next \in 1..(Len(start.docs) + 1)
       /\ \A i \in 1..(start.next - 1) :
            /\ start.docs[i].kind \in {"ConfigMap", "Process"}
            /\ start.docs[i].kind = "ConfigMap" => start.docs[i].name \in configmaps
  /\ start.at = "run" => start.manifests # <<>>

\* What a configuration has that was read from a file or from arguments.
Readable(c) ==
  /\ c.mapping # Absent =>
       /\ c.mapping.port \in Ports /\ c.mapping.app \in Ports \cup {Absent}
       /\ c.mapping.host # Absent => c.mapping.app \in Ports
  /\ \A v \in c.volumes : v.kind # "configmap"
  /\ IF c.is_oci THEN c.oci_reference \in ReferenceType
     ELSE c.oci_reference = Absent /\ ~is_oci_reference(c.path)

\* What a configuration in the table needs to come back from a file: the daemon has
\* replaced the path of an image by the program in it.
Restorable(c) == Readable(c) /\ (c.is_oci => c.path = Entrypoint)

\* The table is finite: its processes can be written down one after the other.
Table == IsFiniteSet(processes) /\ \A c \in processes : Restorable(c)

\* The inductive invariant of Manifest.
ManifestInv == ManifestTypeOK /\ ReadSoFar /\ StartsAfterReading /\ Table

StartRecord == [at : {"idle", "read", "run"}, docs : Seq(Document), next : Nat,
                manifests : Seq(Process)]

\* What is in the text of a port mapping comes back from its parts.
LEMMA PortsRoundTrip ==
  ASSUME NEW m \in Mapping, m.port \in Ports, m.app \in Ports \cup {Absent},
         m.host # Absent => m.app \in Ports
  PROVE  /\ format_port_mapping(m) \in Seq(Texts)
         /\ PortsParse(format_port_mapping(m))
         /\ parse_port_mapping(format_port_mapping(m)) = m
<1>1. /\ Ports \subseteq Texts /\ Absent \notin Texts
  BY ManifestAssumption
<1>2. CASE m.host # Absent
  <2>1. m.host \in Texts /\ m.app # Absent
    BY <1>1, <1>2 DEF Mapping
  <2>2. format_port_mapping(m) = <<m.host, m.port, m.app>>
    BY <1>2, <2>1 DEF format_port_mapping
  <2> QED BY <1>1, <2>1, <2>2, <1>2 DEF PortsParse, parse_port_mapping, Mapping
<1>3. CASE m.host = Absent /\ m.app # Absent
  <2>1. format_port_mapping(m) = <<m.port, m.app>>
    BY <1>3 DEF format_port_mapping
  <2> QED BY <1>1, <2>1, <1>3 DEF PortsParse, parse_port_mapping, Mapping
<1>4. CASE m.host = Absent /\ m.app = Absent
  <2>1. format_port_mapping(m) = <<m.port>>
    BY <1>4 DEF format_port_mapping
  <2> QED BY <1>1, <2>1, <1>4 DEF PortsParse, parse_port_mapping, Mapping
<1> QED BY <1>2, <1>3, <1>4

\* A text that parses becomes a mapping, whose ports are ports.
LEMMA PortsParsed ==
  ASSUME NEW parts \in Seq(Texts), PortsParse(parts)
  PROVE  LET m == parse_port_mapping(parts) IN
           /\ m \in Mapping /\ m # Absent
           /\ m.port \in Ports /\ m.app \in Ports \cup {Absent}
           /\ m.host # Absent => m.app \in Ports
<1>1. Ports \subseteq Texts /\ Absent \notin Mapping
  BY ManifestAssumption
<1>2. CASE Len(parts) = 1
  BY <1>1, <1>2 DEF PortsParse, parse_port_mapping, Mapping
<1>3. CASE Len(parts) = 2
  BY <1>1, <1>3 DEF PortsParse, parse_port_mapping, Mapping
<1>4. CASE Len(parts) = 3
  BY <1>1, <1>4 DEF PortsParse, parse_port_mapping, Mapping
<1>5. Len(parts) \in 1..3
  BY DEF PortsParse
<1> QED BY <1>2, <1>3, <1>4, <1>5

\* normalize_reference gives a reference.
LEMMA NormalizedReference ==
  ASSUME ManifestTypeOK, NEW r \in ReferenceType
  PROVE  normalize_reference(r) \in ReferenceType
  BY ManifestAssumption
     DEF normalize_reference, ManifestTypeOK, Registry, ReferenceType, Reference

\* The variables of the manifest and of its environment file together.
LEMMA EnvironmentType ==
  ASSUME NEW ef \in Variables, NEW extra \in Variables
  PROVE  Environment(ef, extra) \in Variables
<1>1. PICK d \in SUBSET Vars : ef \in [d -> Values]
  BY DEF Variables
<1>2. PICK e \in SUBSET Vars : extra \in [e -> Values]
  BY DEF Variables
<1>3. Environment(ef, extra) \in [d \cup e -> Values]
  BY <1>1, <1>2 DEF Environment
<1>4. d \cup e \in SUBSET Vars
  OBVIOUS
<1> QED BY <1>3, <1>4 DEF Variables

\* What is asked of a manifest, and of the manifest `nyrun run' makes of its arguments.
Manifested(m) ==
  /\ m.path \in Path /\ m.port \in Seq(Texts) \cup {Absent}
  /\ m.args \in ArgsText /\ m.deny \subseteq Words /\ m.allow \subseteq Words
  /\ m.env_file \in EnvFiles \cup {Absent} /\ m.env \in Variables
  /\ m.volumes \subseteq Volume /\ m.spa \in BOOLEAN

\* A manifest that can be converted becomes a configuration that can come back.
LEMMA Converted ==
  ASSUME ManifestTypeOK, NEW m, Manifested(m), Convertible(m), NEW n \in Name
  PROVE  LET c == [manifest_to_config(m) EXCEPT !.name = n] IN
           c \in Config /\ Readable(c)
<1> DEFINE oci == is_oci_reference(m.path)
           path == IF oci THEN normalize_reference(m.path) ELSE m.path
           mapping == IF m.port = Absent THEN Absent ELSE parse_port_mapping(m.port)
           args == parse_args_string(m.args)
           ef == IF m.env_file = Absent THEN NoVars ELSE env_files[m.env_file]
           volumes == resolve_configmap_volumes(m.volumes)
           env == Environment(ef, m.env)
           c == [name |-> n, path |-> path, is_oci |-> oci,
                 oci_reference |-> IF oci THEN path ELSE Absent, mapping |-> mapping,
                 args |-> args, env_file |-> m.env_file, env |-> env, deny |-> m.deny,
                 allow |-> m.allow, volumes |-> volumes, spa |-> m.spa]
<1>1. oci \in BOOLEAN
  BY DEF is_oci_reference, HasRegistry, HasSlash
<1>2. oci => path \in ReferenceType
  <2>1. oci => m.path \in ReferenceType
    BY DEF is_oci_reference, Manifested, Path
  <2> QED BY <2>1, NormalizedReference
<1>3. path \in Path
  BY <1>2 DEF Manifested, Path
<1>4. mapping \in Mapping \cup {Absent}
  BY PortsParsed DEF Manifested, Convertible
<1>5. mapping # Absent =>
        /\ mapping.port \in Ports /\ mapping.app \in Ports \cup {Absent}
        /\ mapping.host # Absent => mapping.app \in Ports
  BY PortsParsed DEF Manifested, Convertible
<1>6. env \in Variables
  <2>1. NoVars \in Variables
    <3>1. NoVars \in [{} -> Values]
      BY DEF NoVars
    <3>2. {} \in SUBSET Vars
      OBVIOUS
    <3> QED BY <3>1, <3>2 DEF Variables
  <2>2. ef \in Variables
    BY <2>1, ManifestAssumption DEF Manifested, Convertible, ManifestTypeOK, EnvFileContents
  <2> QED BY <2>2, EnvironmentType DEF Manifested
<1>7. volumes \subseteq Volume /\ \A v \in volumes : v.kind # "configmap"
  BY DEF resolve_configmap_volumes, Manifested, Volume
<1>8. c = [manifest_to_config(m) EXCEPT !.name = n]
  BY DEF manifest_to_config
<1>9. /\ m.env_file \in EnvFiles \cup {Absent} /\ m.spa \in BOOLEAN
      /\ m.deny \subseteq Words /\ m.allow \subseteq Words
  BY DEF Manifested
<1>10. args \in Seq(Words)
  BY DEF parse_args_string, ArgsText, Manifested
<1>11. ~oci => ~is_oci_reference(path)
  OBVIOUS
<1> HIDE DEF oci, path, mapping, args, ef, volumes, env
<1>12. c \in Config
  BY <1>1, <1>2, <1>3, <1>4, <1>6, <1>7, <1>9, <1>10 DEF Config
<1>13. Readable(c)
  BY <1>2, <1>5, <1>7, <1>11 DEF Readable
<1> QED BY <1>8, <1>12, <1>13

-----------------------------------------------------------------------------
\* What the daemon makes of a configuration.

\* What it leaves alone when it starts one.
SameRequest(s, c) ==
  /\ s.name = c.name /\ s.env_file = c.env_file /\ s.volumes = c.volumes /\ s.spa = c.spa
  /\ s.is_oci = c.is_oci /\ s.oci_reference = c.oci_reference

\* handle_run changes the port and the variable PORT.
LEMMA RemappedFields ==
  ASSUME NEW c \in Config, NEW e \in Remapped(c)
  PROVE  /\ e \in Config /\ SameRequest(e, c)
         /\ e.path = c.path /\ e.args = c.args /\ e.deny = c.deny /\ e.allow = c.allow
         /\ ~Remaps(c) => e = c
         /\ Readable(c) => Readable(e)
<1>1. CASE ~Remaps(c)
  <2>1. e = c
    BY <1>1 DEF Remapped
  <2> QED BY <1>1, <2>1 DEF SameRequest
<1>2. CASE Remaps(c)
  <2>1. PICK p \in FreePorts :
          e = [c EXCEPT !.mapping.app = p, !.env = Environment(@, [v \in {PortVar} |-> p])]
    BY <1>2 DEF Remapped
  <2>2. p \in Ports /\ p \in Texts /\ p \in Values /\ PortVar \in Vars
    BY ManifestAssumption
  <2>3. [v \in {PortVar} |-> p] \in Variables
    <3>1. [v \in {PortVar} |-> p] \in [{PortVar} -> Values] /\ {PortVar} \in SUBSET Vars
      BY <2>2
    <3> QED BY <3>1 DEF Variables
  <2>4. PICK env : env = Environment(c.env, [v \in {PortVar} |-> p])
    OBVIOUS
  <2>5. env \in Variables
    BY <2>3, <2>4, EnvironmentType DEF Config
  <2>6. c.mapping \in Mapping
    BY <1>2 DEF Remaps, Config
  <2>7. PICK mapping : mapping = [c.mapping EXCEPT !.app = p]
    OBVIOUS
  <2>8. /\ mapping \in Mapping /\ mapping.app = p
        /\ mapping.port = c.mapping.port /\ mapping.host = c.mapping.host
    BY <2>2, <2>6, <2>7 DEF Mapping
  <2>9. e = [c EXCEPT !.mapping = mapping, !.env = env]
    BY <2>1, <2>4, <2>7
  <2>10. e \in Config
    BY <2>5, <2>8, <2>9 DEF Config
  <2>11. /\ e.mapping = mapping /\ SameRequest(e, c)
         /\ e.path = c.path /\ e.args = c.args /\ e.deny = c.deny /\ e.allow = c.allow
    BY <2>9 DEF Config, SameRequest
  <2>12. Readable(c) => Readable(e)
    <3>1. c.mapping # Absent
      BY <1>2 DEF Remaps
    <3> HIDE <2>9
    <3> QED BY <2>2, <2>8, <2>11, <3>1 DEF Readable, SameRequest
  <2> QED BY <1>2, <2>10, <2>11, <2>12
<1> QED BY <1>1, <1>2

\* The sandbox of an image is a matter of its restrictions and grants. It is as it was
\* if the image is confined already.
LEMMA SandboxedFields ==
  ASSUME NEW c \in Config
  PROVE  /\ Sandboxed(c) \in Config /\ SameRequest(Sandboxed(c), c)
         /\ Sandboxed(c).mapping = c.mapping /\ Sandboxed(c).env = c.env
         /\ Sandboxed(c).args = c.args
         /\ "io" \in c.deny /\ "all" \notin c.allow =>
              Sandboxed(c).deny = c.deny /\ Sandboxed(c).allow = c.allow
<1>1. {"all", "io", "own"} \subseteq Words
  BY ManifestAssumption
<1>2. PICK deny, allow :
        /\ Sandboxed(c) = [c EXCEPT !.deny = deny, !.allow = allow]
        /\ deny \subseteq Words /\ allow \subseteq Words
        /\ "io" \in c.deny /\ "all" \notin c.allow => deny = c.deny /\ allow = c.allow
  <2>1. CASE "all" \in c.allow
    <3>1. PICK d, a : d = c.deny \ {"io"} /\ a = c.allow \ {"all"}
      OBVIOUS
    <3>2. Sandboxed(c) = [c EXCEPT !.deny = d, !.allow = a]
      BY <2>1, <3>1 DEF Sandboxed
    <3>3. d \subseteq Words /\ a \subseteq Words
      BY <3>1 DEF Config
    <3> QED BY <2>1, <3>2, <3>3
  <2>2. CASE "all" \notin c.allow /\ "io" \in c.deny
    <3>1. Sandboxed(c) = c
      BY <2>2 DEF Sandboxed
    <3>2. c = [c EXCEPT !.deny = c.deny, !.allow = c.allow]
      BY DEF Config
    <3>3. c.deny \subseteq Words /\ c.allow \subseteq Words
      BY DEF Config
    <3> QED BY <3>1, <3>2, <3>3
  <2>3. CASE "all" \notin c.allow /\ "io" \notin c.deny
    <3>1. PICK d, a : d = c.deny \cup {"io"} /\ a = c.allow \cup {"own"}
      OBVIOUS
    <3>2. Sandboxed(c) = [c EXCEPT !.deny = d, !.allow = a]
      BY <2>3, <3>1 DEF Sandboxed
    <3>3. d \subseteq Words /\ a \subseteq Words
      BY <1>1, <3>1 DEF Config
    <3> QED BY <2>3, <3>2, <3>3
  <2> QED BY <2>1, <2>2, <2>3
<1>3. PICK q : q = Sandboxed(c)
  OBVIOUS
<1>4. q = [c EXCEPT !.deny = deny, !.allow = allow]
  BY <1>2, <1>3
<1>5. q \in Config
  BY <1>2, <1>4 DEF Config
<1>6. /\ SameRequest(q, c) /\ q.mapping = c.mapping /\ q.env = c.env /\ q.args = c.args
      /\ q.deny = deny /\ q.allow = allow
  BY <1>4 DEF Config, SameRequest
<1> HIDE <1>4
<1> QED BY <1>2, <1>3, <1>5, <1>6

\* start_process changes the path, the arguments and the sandbox.
LEMMA StartedFields ==
  ASSUME NEW c \in Config, NEW s \in start_process(c)
  PROVE  /\ s \in Config /\ SameRequest(s, c) /\ s.mapping = c.mapping /\ s.env = c.env
         /\ c.is_oci =>
              /\ s.path = Entrypoint /\ s.args = ImageArgs \o c.args
              /\ "io" \in c.deny /\ "all" \notin c.allow => s.deny = c.deny /\ s.allow = c.allow
         /\ ~c.is_oci =>
              /\ s.path \in {c.path, Deployed} /\ s.args = c.args
              /\ s.deny = c.deny /\ s.allow = c.allow
         /\ Readable(c) => Restorable(s)
<1>1. Deployed \in Path /\ Entrypoint \in Path /\ ~is_oci_reference(Deployed)
  BY DEF Path, HostPath, is_oci_reference
<1>2. CASE c.is_oci
  <2>1. PICK q : q = Sandboxed(c)
    OBVIOUS
  <2>2. /\ q \in Config /\ SameRequest(q, c)
        /\ q.mapping = c.mapping /\ q.env = c.env /\ q.args = c.args
        /\ "io" \in c.deny /\ "all" \notin c.allow => q.deny = c.deny /\ q.allow = c.allow
    BY <2>1, SandboxedFields
  <2>3. PICK args : args = ImageArgs \o c.args
    OBVIOUS
  <2>4. args \in Seq(Words)
    BY <2>3, ManifestAssumption DEF Config
  <2>5. s = [q EXCEPT !.path = Entrypoint, !.args = ImageArgs \o @]
    BY <1>2, <2>1 DEF start_process
  <2>6. s = [q EXCEPT !.path = Entrypoint, !.args = args]
    BY <2>2, <2>3, <2>5
  <2>7. s \in Config
    BY <1>1, <2>2, <2>4, <2>6 DEF Config
  <2>8. /\ SameRequest(s, q) /\ s.mapping = q.mapping /\ s.env = q.env
        /\ s.path = Entrypoint /\ s.args = args /\ s.deny = q.deny /\ s.allow = q.allow
    BY <2>2, <2>6 DEF Config, SameRequest
  <2> HIDE <2>5, <2>6
  <2>9. SameRequest(s, c)
    BY <2>2, <2>8 DEF SameRequest
  <2>10. Readable(c) => Restorable(s)
    BY <1>2, <2>2, <2>8, <2>9 DEF Readable, Restorable, SameRequest
  <2> QED BY <1>2, <2>2, <2>3, <2>7, <2>8, <2>9, <2>10
<1>3. CASE ~c.is_oci
  <2>1. s = c \/ s = [c EXCEPT !.path = Deployed]
    BY <1>3 DEF start_process
  <2>2. s \in Config
    BY <1>1, <2>1 DEF Config
  <2>3. /\ SameRequest(s, c) /\ s.mapping = c.mapping /\ s.env = c.env
        /\ s.path \in {c.path, Deployed} /\ s.args = c.args
        /\ s.deny = c.deny /\ s.allow = c.allow
    BY <2>1 DEF Config, SameRequest
  <2> HIDE <2>1
  <2>4. Readable(c) => Restorable(s)
    BY <1>1, <1>3, <2>3 DEF Readable, Restorable, SameRequest
  <2> QED BY <1>3, <2>2, <2>3, <2>4
<1>4. c.is_oci \in BOOLEAN
  BY DEF Config
<1> QED BY <1>2, <1>3, <1>4

\* Both together.
LEMMA StoredFields ==
  ASSUME NEW c \in Config, NEW s \in Stored(c)
  PROVE  /\ s \in Config /\ SameRequest(s, c)
         /\ ~Remaps(c) => s.mapping = c.mapping /\ s.env = c.env
         /\ c.is_oci =>
              /\ s.path = Entrypoint /\ s.args = ImageArgs \o c.args
              /\ "io" \in c.deny /\ "all" \notin c.allow => s.deny = c.deny /\ s.allow = c.allow
         /\ ~c.is_oci =>
              /\ s.path \in {c.path, Deployed} /\ s.args = c.args
              /\ s.deny = c.deny /\ s.allow = c.allow
         /\ Readable(c) => Restorable(s)
<1>1. PICK e \in Remapped(c) : s \in start_process(e)
  BY DEF Stored
<1>2. /\ e \in Config /\ SameRequest(e, c)
      /\ e.path = c.path /\ e.args = c.args /\ e.deny = c.deny /\ e.allow = c.allow
      /\ ~Remaps(c) => e = c
      /\ Readable(c) => Readable(e)
  BY RemappedFields
<1>3. /\ s \in Config /\ SameRequest(s, e) /\ s.mapping = e.mapping /\ s.env = e.env
      /\ e.is_oci =>
           /\ s.path = Entrypoint /\ s.args = ImageArgs \o e.args
           /\ "io" \in e.deny /\ "all" \notin e.allow => s.deny = e.deny /\ s.allow = e.allow
      /\ ~e.is_oci =>
           /\ s.path \in {e.path, Deployed} /\ s.args = e.args
           /\ s.deny = e.deny /\ s.allow = e.allow
      /\ Readable(e) => Restorable(s)
  BY <1>1, <1>2, StartedFields
<1>4. SameRequest(s, c) /\ e.is_oci = c.is_oci
  BY <1>2, <1>3 DEF SameRequest
<1> QED BY <1>2, <1>3, <1>4

\* At first there are no documents, and no processes.
LEMMA ManifestInitInv == ManifestInit => ManifestInv
<1> SUFFICES ASSUME ManifestInit PROVE ManifestInv
  OBVIOUS
<1>1. registry \in Registry
  BY ManifestAssumption DEF ManifestInit, Registry, Host
<1>2. env_files \in [EnvFiles -> EnvFileContents]
  BY DEF ManifestInit, EnvFileContents
<1>3. start.at = "idle" /\ start \in StartRecord
  BY DEF ManifestInit, IdleStart, StartRecord
<1>4. ManifestTypeOK
  BY <1>1, <1>2, <1>3 DEF ManifestInit, ManifestTypeOK, StartRecord
<1>5. Table
  BY FS_EmptySet DEF ManifestInit, Table
<1> QED BY <1>3, <1>4, <1>5 DEF ManifestInv, ReadSoFar, StartsAfterReading

\* The daemon takes a process, or fails to start it.
LEMMA Accepted ==
  ASSUME ManifestInv, NEW c \in Config, Readable(c), Accept(c)
  PROVE  processes' \subseteq Config /\ emptied' \subseteq Name /\ Table'
<1>1. PICK s \in Stored(c) :
        /\ emptied' = Emptied(c, s)
        /\ processes' = processes \/ processes' = processes \cup {s}
  BY DEF Accept
<1>2. s \in Config /\ Restorable(s)
  BY StoredFields
<1>3. emptied' \subseteq Name
  <2>1. c.name \in Name /\ emptied \subseteq Name
    BY DEF Config, ManifestInv, ManifestTypeOK
  <2> QED BY <1>1, <2>1 DEF Emptied
<1>4. IsFiniteSet(processes')
  BY <1>1, FS_AddElement DEF ManifestInv, Table
<1>5. processes' \subseteq Config /\ \A d \in processes' : Restorable(d)
  BY <1>1, <1>2 DEF ManifestInv, ManifestTypeOK, Table
<1> QED BY <1>3, <1>4, <1>5 DEF Table

\* A step that leaves the table and the ConfigMaps alone.
LEMMA TableKept ==
  ASSUME ManifestInv, UNCHANGED <<processes, emptied>>
  PROVE  processes' \subseteq Config /\ emptied' \subseteq Name /\ Table'
  BY DEF ManifestInv, ManifestTypeOK, Table, Restorable

\* `nyrun start' reads the file.
LEMMA BeginStartInv ==
  ASSUME ManifestInv, BeginStart
  PROVE  ManifestInv'
<1>1. UNCHANGED <<registry, env_files, configmaps, processes, emptied, file>>
  BY DEF BeginStart
<1>2. /\ start' = [at |-> "read", docs |-> file, next |-> 1, manifests |-> <<>>]
      /\ file \in Seq(Document)
  BY DEF BeginStart, ManifestInv, ManifestTypeOK
<1>3. start' \in StartRecord /\ start'.at = "read" /\ start'.next = 1 /\ start'.docs = file
  BY <1>2 DEF StartRecord
<1>4. processes' \subseteq Config /\ emptied' \subseteq Name /\ Table'
  BY <1>1, TableKept
<1>5. ManifestTypeOK'
  BY <1>1, <1>3, <1>4 DEF ManifestInv, ManifestTypeOK, StartRecord
<1>6. ReadSoFar' /\ StartsAfterReading'
  BY <1>2, <1>3 DEF ReadSoFar, StartsAfterReading
<1> QED BY <1>4, <1>5, <1>6 DEF ManifestInv

\* `nyrun start' ends.
LEMMA StartEnds ==
  ASSUME ManifestInv, start' = IdleStart,
         configmaps' = configmaps, UNCHANGED <<registry, env_files, file>>,
         processes' \subseteq Config, emptied' \subseteq Name, Table'
  PROVE  ManifestInv'
<1>1. start' \in StartRecord /\ start'.at = "idle"
  BY DEF IdleStart, StartRecord
<1>2. ManifestTypeOK'
  BY <1>1 DEF ManifestInv, ManifestTypeOK, StartRecord
<1> QED BY <1>1, <1>2 DEF ManifestInv, ReadSoFar, StartsAfterReading

\* One document: good, and on disk if it is a ConfigMap; or the command ends.
LEMMA ReadDocumentInv ==
  ASSUME ManifestInv, ReadDocument
  PROVE  ManifestInv'
<1>0. UNCHANGED <<registry, env_files, processes, emptied, file>>
  BY DEF ReadDocument
<1>1. /\ start \in StartRecord /\ start.at = "read" /\ start.next \in Nat
      /\ start.docs \in Seq(Document) /\ start.manifests \in Seq(Process)
      /\ start.next \in 1..Len(start.docs)
      /\ configmaps \subseteq Texts
  BY DEF ReadDocument, ManifestInv, ManifestTypeOK, StartRecord, ReadSoFar
<1>2. PICK doc : doc = start.docs[start.next]
  OBVIOUS
<1>3. doc \in Document
  BY <1>1, <1>2
<1>4. processes' \subseteq Config /\ emptied' \subseteq Name /\ Table'
  BY <1>0, TableKept
<1>5. ASSUME start'.at = "read", start' \in StartRecord,
             start'.docs = start.docs, start'.next = start.next + 1,
             configmaps \subseteq configmaps', configmaps' \subseteq Texts,
             doc.kind \in {"ConfigMap", "Process"},
             doc.kind = "ConfigMap" => doc.name \in configmaps'
      PROVE  ManifestInv'
  <2>1. ManifestTypeOK'
    BY <1>0, <1>4, <1>5 DEF ManifestInv, ManifestTypeOK, StartRecord
  <2>2. StartsAfterReading'
    BY <1>5 DEF StartsAfterReading
  <2>3. ReadSoFar'
    <3>1. start'.next \in 1..(Len(start'.docs) + 1)
      BY <1>1, <1>5
    <3>2. ASSUME NEW i \in 1..(start'.next - 1)
          PROVE  /\ start'.docs[i].kind \in {"ConfigMap", "Process"}
                 /\ start'.docs[i].kind = "ConfigMap" => start'.docs[i].name \in configmaps'
      <4>1. CASE i = start.next
        BY <1>2, <1>5, <4>1
      <4>2. CASE i \in 1..(start.next - 1)
        BY <1>1, <1>5, <4>2 DEF ManifestInv, ReadSoFar
      <4> QED BY <1>1, <1>5, <4>1, <4>2
    <3> QED BY <1>5, <3>1, <3>2 DEF ReadSoFar
  <2> QED BY <1>4, <2>1, <2>2, <2>3 DEF ManifestInv
<1>6. CASE doc.kind = "ConfigMap"
  <2>1. configmaps' = configmaps \cup {doc.name} /\ start' = [start EXCEPT !.next = @ + 1]
    BY <1>2, <1>6 DEF ReadDocument
  <2>2. doc.name \in Texts
    BY <1>3, <1>6 DEF Document, Process, ConfigMap
  <2>3. /\ start' \in StartRecord /\ start'.at = "read"
        /\ start'.docs = start.docs /\ start'.next = start.next + 1
    BY <1>1, <2>1 DEF StartRecord
  <2> QED BY <1>1, <1>5, <1>6, <2>1, <2>2, <2>3
<1>7. CASE doc.kind = "Process"
  <2>1. /\ start' = [start EXCEPT !.next = @ + 1, !.manifests = Append(@, doc)]
        /\ configmaps' = configmaps
    BY <1>2, <1>7 DEF ReadDocument
  <2>2. Append(start.manifests, doc) \in Seq(Process)
    BY <1>1, <1>3, <1>7 DEF Document, ConfigMap
  <2>3. /\ start' \in StartRecord /\ start'.at = "read"
        /\ start'.docs = start.docs /\ start'.next = start.next + 1
    <3>1. PICK s : s = Append(start.manifests, doc)
      OBVIOUS
    <3>2. s \in Seq(Process) /\ start' = [start EXCEPT !.next = @ + 1, !.manifests = s]
      BY <2>1, <2>2, <3>1
    <3>3. PICK n \in Nat : n = start.next + 1
      BY <1>1
    <3>4. start' = [start EXCEPT !.next = n, !.manifests = s]
      BY <3>2, <3>3
    <3>5. s \in Seq(Process)
      BY <3>2
    <3>6. PICK r \in StartRecord : r = start
      BY <1>1
    <3>7. PICK q : q = start'
      OBVIOUS
    <3>8. q = [r EXCEPT !.next = n, !.manifests = s]
      BY <3>4, <3>6, <3>7
    <3>9. q \in StartRecord /\ q.at = r.at /\ q.docs = r.docs /\ q.next = n
      <4>1. n \in Nat
        OBVIOUS
      <4> HIDE <3>3, <3>6, <3>7, <3>4, <3>2, <3>1
      <4> QED BY <3>5, <3>8, <4>1 DEF StartRecord
    <3> QED BY <1>1, <3>3, <3>6, <3>7, <3>9
  <2> QED BY <1>1, <1>5, <1>7, <2>1, <2>3
<1>8. CASE doc.kind \notin {"ConfigMap", "Process"}
  <2>1. start' = IdleStart /\ configmaps' = configmaps
    BY <1>2, <1>8 DEF ReadDocument
  <2> QED BY <1>0, <1>4, <2>1, StartEnds
<1> QED BY <1>6, <1>7, <1>8

\* The end of the file: everything in it was read, and is what it should be.
LEMMA DocumentsReadInv ==
  ASSUME ManifestInv, NEW only, DocumentsRead(only)
  PROVE  ManifestInv'
<1>0. UNCHANGED <<registry, env_files, configmaps, processes, emptied, file>>
  BY DEF DocumentsRead
<1>1. /\ start \in StartRecord /\ start.at = "read"
      /\ start.docs \in Seq(Document) /\ start.manifests \in Seq(Process)
      /\ start.next = Len(start.docs) + 1
  <2>1. /\ start \in StartRecord /\ start.at = "read" /\ start.next > Len(start.docs)
        /\ start.next \in 1..(Len(start.docs) + 1)
    BY DEF DocumentsRead, ManifestInv, ManifestTypeOK, StartRecord, ReadSoFar
  <2>2. /\ start.docs \in Seq(Document) /\ start.manifests \in Seq(Process)
        /\ start.next \in Nat
    BY <2>1 DEF StartRecord
  <2>3. Len(start.docs) \in Nat
    BY <2>2
  <2> QED BY <2>1, <2>2, <2>3
<1>2. processes' \subseteq Config /\ emptied' \subseteq Name /\ Table'
  BY <1>0, TableKept
<1>3. ASSUME NEW manifests \in Seq(Process), manifests # <<>>,
             start' = [start EXCEPT !.at = "run", !.manifests = manifests]
      PROVE  ManifestInv'
  <2>1. /\ start' \in StartRecord /\ start'.at = "run"
        /\ start'.docs = start.docs /\ start'.manifests = manifests
    BY <1>1, <1>3 DEF StartRecord
  <2>2. ManifestTypeOK'
    BY <1>0, <1>2, <2>1 DEF ManifestInv, ManifestTypeOK, StartRecord
  <2>3. StartsAfterReading'
    BY <1>0, <1>1, <2>1 DEF ManifestInv, ReadSoFar, StartsAfterReading
  <2>4. ReadSoFar'
    BY <1>3, <2>1 DEF ReadSoFar
  <2> QED BY <1>2, <2>2, <2>3, <2>4 DEF ManifestInv
<1>4. CASE start' = IdleStart
  BY <1>0, <1>2, <1>4, StartEnds
<1>5. CASE start' # IdleStart
  <2>1. PICK manifests :
          /\ start' = [start EXCEPT !.at = "run", !.manifests = manifests]
          /\ manifests \in IF only = Absent THEN {start.manifests} \ {<<>>}
                           ELSE {<<m>> : m \in FirstNamed(start.manifests, only)}
    BY <1>5 DEF DocumentsRead
  <2>2. manifests \in Seq(Process) /\ manifests # <<>>
    <3>1. \A m \in FirstNamed(start.manifests, only) : m \in Process
      BY <1>1 DEF FirstNamed
    <3>2. CASE only = Absent
      BY <1>1, <2>1, <3>2
    <3>3. CASE only # Absent
      <4>1. PICK m \in FirstNamed(start.manifests, only) : manifests = <<m>>
        BY <2>1, <3>3
      <4>2. m \in Process
        BY <3>1
      <4> HIDE <2>1
      <4> QED BY <4>1, <4>2
    <3> QED BY <3>2, <3>3
  <2> QED BY <1>3, <2>1, <2>2
<1> QED BY <1>4, <1>5

\* A document of kind Process can be asked for.
LEMMA ProcessManifested ==
  ASSUME NEW m \in Process
  PROVE  Manifested(m) /\ m.name \in Name
  BY DEF Process, Manifested

\* One process of the file is run, or skipped.
LEMMA RunManifestInv ==
  ASSUME ManifestInv, RunManifest
  PROVE  ManifestInv'
<1>0. UNCHANGED <<registry, env_files, configmaps, file>>
  BY DEF RunManifest
<1>1. /\ start \in StartRecord /\ start.at = "run"
      /\ start.docs \in Seq(Document) /\ start.manifests \in Seq(Process)
      /\ start.manifests # <<>>
  BY DEF RunManifest, ManifestInv, ManifestTypeOK, StartRecord, ReadSoFar
<1>2. PICK m \in Process : m = Head(start.manifests)
  BY <1>1
<1>3. processes' \subseteq Config /\ emptied' \subseteq Name /\ Table'
  <2>1. CASE UNCHANGED <<processes, emptied>>
    BY <2>1, TableKept
  <2>2. CASE Convertible(m) /\ Accept(manifest_to_config(m))
    <3>1. Manifested(m) /\ m.name \in Name
      BY ProcessManifested
    <3>2. manifest_to_config(m) = [manifest_to_config(m) EXCEPT !.name = m.name]
      BY DEF manifest_to_config
    <3>3. manifest_to_config(m) \in Config /\ Readable(manifest_to_config(m))
      BY <2>2, <3>1, <3>2, Converted DEF ManifestInv
    <3> QED BY <2>2, <3>3, Accepted
  <2> QED BY <1>2, <2>1, <2>2 DEF RunManifest
<1>4. CASE start' = IdleStart
  BY <1>0, <1>3, <1>4, StartEnds
<1>5. CASE start' # IdleStart
  <2>1. start' = [start EXCEPT !.manifests = Tail(@)] /\ Len(start.manifests) # 1
    BY <1>5 DEF RunManifest
  <2>2. Tail(start.manifests) \in Seq(Process) /\ Tail(start.manifests) # <<>>
    <3>1. /\ Tail(start.manifests) \in Seq(Process)
          /\ Len(Tail(start.manifests)) = Len(start.manifests) - 1
      BY <1>1
    <3>2. PICK s \in Seq(Process) : s = start.manifests
      BY <1>1
    <3>3. s # <<>> /\ Len(s) # 1
      BY <1>1, <2>1, <3>2
    <3>4. Tail(s) # <<>>
      <4>1. Len(s) \in Nat /\ Len(s) # 0
        BY <3>3
      <4>2. Len(Tail(s)) = Len(s) - 1
        BY <3>3
      <4>3. Len(Tail(s)) # 0
        BY <3>3, <4>1, <4>2
      <4>4. Len(<<>>) = 0
        OBVIOUS
      <4> QED BY <4>3, <4>4, Zenon
    <3> QED BY <3>1, <3>2, <3>4
  <2>3. /\ start' \in StartRecord /\ start'.at = "run"
        /\ start'.docs = start.docs /\ start'.manifests = Tail(start.manifests)
    BY <1>1, <2>1, <2>2 DEF StartRecord
  <2>4. ManifestTypeOK'
    BY <1>0, <1>3, <2>3 DEF ManifestInv, ManifestTypeOK, StartRecord
  <2>5. StartsAfterReading'
    BY <1>0, <1>1, <2>3 DEF ManifestInv, StartsAfterReading
  <2>6. ReadSoFar'
    BY <2>2, <2>3 DEF ReadSoFar
  <2> QED BY <1>3, <2>4, <2>5, <2>6 DEF ManifestInv
<1> QED BY <1>4, <1>5

\* A step of another command, while `nyrun start' is wherever it is.
LEMMA StartUndisturbed ==
  ASSUME ManifestInv, UNCHANGED <<configmaps, start>>,
         registry' \in Registry, env_files' \in [EnvFiles -> EnvFileContents],
         file' \in Seq(Document), processes' \subseteq Config, emptied' \subseteq Name, Table'
  PROVE  ManifestInv'
<1>1. ManifestTypeOK'
  BY DEF ManifestInv, ManifestTypeOK
<1>2. ReadSoFar' /\ StartsAfterReading'
  BY DEF ManifestInv, ReadSoFar, StartsAfterReading
<1> QED BY <1>1, <1>2 DEF ManifestInv

\* The name of a process that was given none is the name of its path.
LEMMA DerivedName ==
  ASSUME NEW p \in Path, NEW n \in Name \cup {Absent}
  PROVE  derive_name(p, n) \in Name
<1>1. Host \subseteq Texts /\ LocalName \in Name
  BY ManifestAssumption
<1>2. CASE n # Absent
  BY <1>2 DEF derive_name
<1>3. CASE n = Absent /\ p \in HostPath
  BY <1>1, <1>3 DEF derive_name, is_oci_reference
<1>4. CASE n = Absent /\ p \notin HostPath
  <2>1. p \in ReferenceType
    BY <1>4 DEF Path
  <2>2. /\ p.host \in Texts \cup {Absent} /\ p.image \in Texts
        /\ p.tag \in Texts \cup {Absent}
    BY <1>1, <2>1 DEF ReferenceType
  <2>3. image_name_from_ref(p) \in Seq(Texts)
    BY <2>2 DEF image_name_from_ref
  <2>4. (IF p.tag = Absent THEN <<p.image>> ELSE <<p.image, p.tag>>) \in Seq(Texts)
    BY <2>2
  <2>5. CASE is_oci_reference(p)
    BY <1>4, <2>3, <2>5 DEF derive_name, Name
  <2>6. CASE ~is_oci_reference(p)
    BY <1>4, <2>4, <2>6 DEF derive_name, Name
  <2> QED BY <2>5, <2>6
<1> QED BY <1>2, <1>3, <1>4

\* `nyrun run'.
LEMMA RunCommandInv ==
  ASSUME ManifestInv, NEW r \in Runs, RunCommand(r)
  PROVE  ManifestInv'
<1> DEFINE m == [name |-> r.name, path |-> r.path, port |-> r.port, args |-> r.args,
                 env_file |-> r.env_file, env |-> NoVars, deny |-> r.deny, allow |-> r.allow,
                 volumes |-> {}, spa |-> r.spa]
           c == manifest_to_config(m)
           n == derive_name(c.path, r.name)
<1>1. r \in Arguments
  BY ManifestAssumption
<1>2. NoVars \in Variables
  <2>1. NoVars \in [{} -> Values]
    BY DEF NoVars
  <2>2. {} \in SUBSET Vars
    OBVIOUS
  <2> QED BY <2>1, <2>2 DEF Variables
<1>3. Manifested(m)
  BY <1>1, <1>2 DEF Arguments, Manifested
<1>4. Convertible(m) /\ Accept([c EXCEPT !.name = n])
  BY DEF RunCommand
<1>5. c.path \in Path
  <2>1. is_oci_reference(m.path) => m.path \in ReferenceType
    BY <1>3 DEF is_oci_reference, Manifested, Path
  <2>2. is_oci_reference(m.path) => normalize_reference(m.path) \in ReferenceType
    BY <2>1, NormalizedReference DEF ManifestInv
  <2>3. c.path = IF is_oci_reference(m.path) THEN normalize_reference(m.path) ELSE m.path
    BY DEF manifest_to_config
  <2> QED BY <1>3, <2>2, <2>3 DEF Path, Manifested
<1>6. n \in Name
  <2>1. r.name \in Name \cup {Absent}
    BY <1>1 DEF Arguments
  <2> QED BY <1>5, <2>1, DerivedName
<1>7. UNCHANGED <<registry, env_files, configmaps, file, start>>
  BY DEF RunCommand
<1> HIDE DEF m, n
<1>8. [c EXCEPT !.name = n] \in Config /\ Readable([c EXCEPT !.name = n])
  BY <1>3, <1>4, <1>6, Converted DEF ManifestInv
<1>9. processes' \subseteq Config /\ emptied' \subseteq Name /\ Table'
  BY <1>4, <1>8, Accepted
<1> QED BY <1>7, <1>9, StartUndisturbed DEF ManifestInv, ManifestTypeOK

\* A configuration of the table is written as a document.
LEMMA ExportedDocument ==
  ASSUME NEW c \in Config, Restorable(c)
  PROVE  config_to_manifest(c) \in Document
<1>1. Absent \notin ReferenceType
  BY ManifestAssumption
<1>2. (IF c.oci_reference = Absent THEN c.path ELSE c.oci_reference) \in Path
  BY DEF Config, Path
<1>3. (IF c.mapping = Absent THEN Absent ELSE format_port_mapping(c.mapping))
        \in Seq(Texts) \cup {Absent}
  <2>1. ASSUME c.mapping # Absent PROVE format_port_mapping(c.mapping) \in Seq(Texts)
    <3>1. c.mapping \in Mapping
      BY <2>1 DEF Config
    <3> QED BY <2>1, <3>1, PortsRoundTrip DEF Restorable, Readable
  <2> QED BY <2>1
<1>4. /\ c.name \in Name /\ c.env_file \in EnvFiles \cup {Absent} /\ c.env \in Variables
      /\ c.volumes \in SUBSET Volume /\ c.spa \in BOOLEAN
  BY DEF Config
<1>5. JoinedArgs(c.args) \in ArgsText
  BY DEF JoinedArgs, ArgsText, Config
<1>6. JoinedList(c.deny, c.name) \in SUBSET Words /\ JoinedList(c.allow, c.name) \in SUBSET Words
  BY ManifestAssumption DEF JoinedList, Config
<1>7. config_to_manifest(c) \in Process
  <2> DEFINE path == IF c.oci_reference = Absent THEN c.path ELSE c.oci_reference
             port == IF c.mapping = Absent THEN Absent ELSE format_port_mapping(c.mapping)
             args == JoinedArgs(c.args)
             deny == JoinedList(c.deny, c.name)
             allow == JoinedList(c.allow, c.name)
  <2>1. config_to_manifest(c) =
          [kind |-> "Process", name |-> c.name, path |-> path, port |-> port, args |-> args,
           env_file |-> c.env_file, env |-> c.env, deny |-> deny, allow |-> allow,
           volumes |-> c.volumes, spa |-> c.spa]
    BY DEF config_to_manifest
  <2>2. /\ path \in Path /\ port \in Seq(Texts) \cup {Absent} /\ args \in ArgsText
        /\ deny \in SUBSET Words /\ allow \in SUBSET Words
    BY <1>2, <1>3, <1>5, <1>6
  <2> HIDE DEF path, port, args, deny, allow
  <2> QED BY <1>4, <2>1, <2>2 DEF Process
<1> QED BY <1>7 DEF Document

\* `nyrun export'.
LEMMA ExportInv ==
  ASSUME ManifestInv, Export
  PROVE  ManifestInv'
<1>1. UNCHANGED <<registry, env_files, configmaps, processes, emptied, start>>
  BY DEF Export
<1>2. PICK s \in SetToSeqs(processes) : file' = [i \in DOMAIN s |-> config_to_manifest(s[i])]
  BY DEF Export
<1>3. PICK n \in Nat : n = Cardinality(processes)
  BY FS_CardinalityType DEF ManifestInv, Table
<1>4. s \in [1..n -> processes]
  BY <1>2, <1>3 DEF SetToSeqs
<1>5. \A c \in processes : config_to_manifest(c) \in Document
  BY ExportedDocument DEF ManifestInv, ManifestTypeOK, Table
<1>6. file' \in [1..n -> Document]
  BY <1>2, <1>4, <1>5
<1>7. file' \in Seq(Document)
  BY <1>6
<1>8. processes' \subseteq Config /\ emptied' \subseteq Name /\ Table'
  BY <1>1, TableKept
<1> QED BY <1>1, <1>7, <1>8, StartUndisturbed DEF ManifestInv, ManifestTypeOK

\* `nyrun del'.
LEMMA DelInv ==
  ASSUME ManifestInv, NEW n, Del(n)
  PROVE  ManifestInv'
<1>1. /\ processes' \subseteq processes
      /\ UNCHANGED <<registry, env_files, configmaps, emptied, file, start>>
  BY DEF Del
<1>2. IsFiniteSet(processes')
  BY <1>1, FS_Subset DEF ManifestInv, Table
<1>3. processes' \subseteq Config /\ emptied' \subseteq Name /\ Table'
  BY <1>1, <1>2 DEF ManifestInv, ManifestTypeOK, Table, Restorable
<1> QED BY <1>1, <1>3, StartUndisturbed DEF ManifestInv, ManifestTypeOK

\* The user changes the settings or a file.
LEMMA UserInv ==
  ASSUME ManifestInv,
         \/ \E r \in Registries : save_default_registry(r)
         \/ \E f \in Files : WriteFile(f)
         \/ \E f \in EnvFiles, e \in EnvFileContents : EditEnvFile(f, e)
  PROVE  ManifestInv'
<1>1. UNCHANGED <<configmaps, start, processes, emptied>>
  BY DEF save_default_registry, WriteFile, EditEnvFile
<1>2. registry' \in Registry
  BY ManifestAssumption
     DEF save_default_registry, WriteFile, EditEnvFile, ManifestInv, ManifestTypeOK
<1>3. file' \in Seq(Document)
  BY ManifestAssumption
     DEF save_default_registry, WriteFile, EditEnvFile, ManifestInv, ManifestTypeOK
<1>4. env_files' \in [EnvFiles -> EnvFileContents]
  BY DEF save_default_registry, WriteFile, EditEnvFile, ManifestInv, ManifestTypeOK
<1>5. processes' \subseteq Config /\ emptied' \subseteq Name /\ Table'
  BY <1>1, TableKept
<1> QED BY <1>1, <1>2, <1>3, <1>4, <1>5, StartUndisturbed

\* Every step keeps the invariant of Manifest.
LEMMA ManifestNextInv ==
  ASSUME ManifestInv, [ManifestNext]_manifestVars
  PROVE  ManifestInv'
<1>1. CASE BeginStart
  BY <1>1, BeginStartInv
<1>2. CASE ReadDocument
  BY <1>2, ReadDocumentInv
<1>3. CASE RunManifest
  BY <1>3, RunManifestInv
<1>4. CASE Export
  BY <1>4, ExportInv
<1>5. CASE \E only \in Names \cup {Absent} : DocumentsRead(only)
  BY <1>5, DocumentsReadInv
<1>6. CASE \E n \in Managed : Del(n)
  BY <1>6, DelInv
<1>7. CASE \E r \in Runs : RunCommand(r)
  BY <1>7, RunCommandInv
<1>8. CASE \/ \E r \in Registries : save_default_registry(r)
           \/ \E f \in Files : WriteFile(f)
           \/ \E f \in EnvFiles, e \in EnvFileContents : EditEnvFile(f, e)
  BY <1>8, UserInv
<1>9. CASE UNCHANGED manifestVars
  <2>1. UNCHANGED <<registry, env_files, configmaps, processes, emptied, file, start>>
    BY <1>9 DEF manifestVars
  <2>2. processes' \subseteq Config /\ emptied' \subseteq Name /\ Table'
    BY <2>1, TableKept
  <2> QED BY <2>1, <2>2, StartUndisturbed DEF ManifestInv, ManifestTypeOK
<1> QED BY <1>1, <1>2, <1>3, <1>4, <1>5, <1>6, <1>7, <1>8, <1>9 DEF ManifestNext

-----------------------------------------------------------------------------
\* In every reachable state of Manifest the types hold, what `nyrun start' has read is
\* good and written, and every configuration in the table can be restored.
THEOREM ManifestInvariantHolds == ManifestSpec => []ManifestInv
<1>1. ManifestInv /\ [ManifestNext]_manifestVars => ManifestInv'
  BY ManifestNextInv
<1> QED BY ManifestInitInv, <1>1, PTL DEF ManifestSpec

\* The type invariant of Manifest: what export writes, in particular, is always a
\* file that start can read.
THEOREM ManifestTypeCorrect == ManifestSpec => []ManifestTypeOK
<1>1. ManifestInv => ManifestTypeOK
  BY DEF ManifestInv
<1> QED BY ManifestInvariantHolds, <1>1, PTL

\* For any configuration files, of any length: no process of a file is run before
\* every document of it was found good and every ConfigMap of it is on disk.
THEOREM StartsAfterReadingHolds == ManifestSpec => []StartsAfterReading
<1>1. ManifestInv => StartsAfterReading
  BY DEF ManifestInv
<1> QED BY ManifestInvariantHolds, <1>1, PTL

\* For any files, arguments, registries and environment files: what manifest_to_config
\* makes of config_to_manifest, and the daemon of that, is the configuration that was
\* running, but for what ExportRoundTrip names.
THEOREM ExportRoundTripHolds == ManifestSpec => []ExportRoundTrip
<1>1. ManifestInv => ExportRoundTrip
  <2> SUFFICES ASSUME ManifestInv, NEW c \in processes
               PROVE  LET m == config_to_manifest(c) IN
                 /\ Convertible(m) \/ (c.env_file # Absent /\ env_files[c.env_file] = Absent)
                 /\ Convertible(m) => \A s \in Stored(manifest_to_config(m)) :
                      /\ s.name = c.name /\ s.spa = c.spa /\ s.volumes = c.volumes
                      /\ ~Remaps(c) => s.mapping = c.mapping /\ \A v \in DOMAIN c.env : s.env[v] = c.env[v]
                      /\ ~c.is_oci => /\ ~s.is_oci /\ s.path \in {c.path, Deployed}
                                      /\ s.args = c.args
                                      /\ Cut(c.name) \/ (s.deny = c.deny /\ s.allow = c.allow)
                      /\ c.is_oci /\ HasRegistry(c.oci_reference) =>
                           /\ s.is_oci /\ s.oci_reference = c.oci_reference
                           /\ s.args = ImageArgs \o c.args
                           /\ "io" \in c.deny /\ "all" \notin c.allow /\ ~Cut(c.name)
                                => s.deny = c.deny /\ s.allow = c.allow
    BY DEF ExportRoundTrip
  <2> DEFINE m == config_to_manifest(c)
             d == manifest_to_config(m)
  <2>1. c \in Config /\ Restorable(c) /\ Readable(c)
    BY DEF ManifestInv, ManifestTypeOK, Table, Restorable
  <2>2. /\ m.name = c.name /\ m.spa = c.spa /\ m.env = c.env /\ m.env_file = c.env_file
        /\ m.volumes = c.volumes
        /\ m.path = IF c.oci_reference = Absent THEN c.path ELSE c.oci_reference
        /\ m.port = IF c.mapping = Absent THEN Absent ELSE format_port_mapping(c.mapping)
        /\ m.args = JoinedArgs(c.args)
        /\ m.deny = JoinedList(c.deny, c.name) /\ m.allow = JoinedList(c.allow, c.name)
    BY DEF config_to_manifest
  <2>3. ASSUME c.mapping # Absent
        PROVE  /\ m.port # Absent /\ PortsParse(m.port)
               /\ parse_port_mapping(m.port) = c.mapping
    <3>1. c.mapping \in Mapping
      BY <2>1, <2>3 DEF Config
    <3>2. Absent \notin Seq(Texts)
      BY ManifestAssumption
    <3> HIDE DEF m
    <3> QED BY <2>1, <2>2, <2>3, <3>1, <3>2, PortsRoundTrip DEF Readable
  <2>4. m \in Process
    <3>1. m \in Document /\ m.kind = "Process"
      BY <2>1, ExportedDocument DEF config_to_manifest
    <3> HIDE DEF m
    <3> QED BY <3>1 DEF Document, ConfigMap
  <2> HIDE DEF m
  <2>5. Convertible(m) \/ (c.env_file # Absent /\ env_files[c.env_file] = Absent)
    BY <2>2, <2>3 DEF Convertible
  <2>6. /\ d.name = m.name /\ d.spa = m.spa
        /\ d.mapping = IF m.port = Absent THEN Absent ELSE parse_port_mapping(m.port)
        /\ d.args = parse_args_string(m.args) /\ d.deny = m.deny /\ d.allow = m.allow
        /\ d.volumes = resolve_configmap_volumes(m.volumes)
        /\ d.is_oci = is_oci_reference(m.path)
        /\ d.path = IF is_oci_reference(m.path) THEN normalize_reference(m.path) ELSE m.path
        /\ d.oci_reference = IF is_oci_reference(m.path)
                             THEN (IF is_oci_reference(m.path) THEN normalize_reference(m.path)
                                   ELSE m.path)
                             ELSE Absent
    BY DEF manifest_to_config
  <2>7. \A v \in DOMAIN c.env : d.env[v] = c.env[v]
    <3>1. PICK ef : d.env = Environment(ef, m.env)
      BY DEF manifest_to_config
    <3> HIDE DEF d
    <3> QED BY <2>2, <3>1 DEF Environment
  <2>8. ASSUME Convertible(m) PROVE d \in Config
    <3>1. Manifested(m) /\ m.name \in Name
      BY <2>4, ProcessManifested
    <3>2. d = [manifest_to_config(m) EXCEPT !.name = m.name]
      BY DEF manifest_to_config
    <3> HIDE DEF d
    <3> QED BY <2>8, <3>1, <3>2, Converted DEF ManifestInv
  <2> HIDE DEF d
  <2>9. d.mapping = c.mapping
    BY <2>2, <2>3, <2>6
  <2>10. d.volumes = c.volumes
    <3>1. \A v \in c.volumes : v.kind # "configmap"
      BY <2>1 DEF Readable
    <3> QED BY <2>2, <2>6, <3>1 DEF resolve_configmap_volumes
  <2>11. d.args = c.args
    <3>1. c.args \in Seq(Words) /\ {Absent, Unbalanced} \cap Seq(Words) = {}
      BY <2>1, ManifestAssumption DEF Config
    <3> QED BY <2>2, <2>6, <3>1 DEF parse_args_string, JoinedArgs
  <2>12. ~Cut(c.name) => d.deny = c.deny /\ d.allow = c.allow
    BY <2>2, <2>6 DEF JoinedList
  <2>13. ~c.is_oci => ~d.is_oci /\ d.path = c.path
    BY <2>1, <2>2, <2>6 DEF Readable
  <2>14. ASSUME c.is_oci, HasRegistry(c.oci_reference)
         PROVE  d.is_oci /\ d.oci_reference = c.oci_reference
    <3>1. c.oci_reference \in ReferenceType
      BY <2>1, <2>14 DEF Readable
    <3>2. c.oci_reference # Absent /\ c.oci_reference \notin HostPath
      BY <3>1, ManifestAssumption
    <3>3. m.path = c.oci_reference
      BY <2>2, <3>2
    <3>4. is_oci_reference(m.path) /\ normalize_reference(m.path) = m.path
      BY <2>14, <3>2, <3>3 DEF is_oci_reference, normalize_reference
    <3> QED BY <2>6, <3>3, <3>4
  <2>15. Remaps(d) <=> Remaps(c)
    BY <2>9 DEF Remaps
  <2>16. ASSUME Convertible(m), NEW s \in Stored(d)
         PROVE  /\ SameRequest(s, d)
                /\ ~Remaps(d) => s.mapping = d.mapping /\ s.env = d.env
                /\ d.is_oci =>
                     /\ s.args = ImageArgs \o d.args
                     /\ "io" \in d.deny /\ "all" \notin d.allow => s.deny = d.deny /\ s.allow = d.allow
                /\ ~d.is_oci =>
                     /\ s.path \in {d.path, Deployed} /\ s.args = d.args
                     /\ s.deny = d.deny /\ s.allow = d.allow
    BY <2>8, <2>16, StoredFields
  <2> QED BY <2>2, <2>5, <2>6, <2>7, <2>9, <2>10, <2>11, <2>12, <2>13, <2>14, <2>15, <2>16
          DEF d, m, SameRequest
<1> QED BY ManifestInvariantHolds, <1>1, PTL
====
