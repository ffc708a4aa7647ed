---- MODULE CloudAgent ----
(***************************************************************************)
(* The cloud agent (cloud.rs) and the requests that link and unlink it     *)
(* (server.rs): a task that keeps a WebSocket to the cloud, runs the       *)
(* commands that come over it, and connects again after a pause that       *)
(* doubles. Each agent has a channel for the order to stop; the daemon     *)
(* keeps the sending end of the last one.                                  *)
(*                                                                         *)
(* A command goes to the daemon's own socket, so it is executed under the  *)
(* mutex by a task of its own, whatever becomes of the agent meanwhile.    *)
(***************************************************************************)
EXTENDS Naturals, FiniteSets

CONSTANTS
  Agents,          \* identities of agent tasks
  ApiKeys,         \* API keys
  None,            \* no key, no agent
  InitialBackoff,  \* INITIAL_BACKOFF, in seconds
  MaxBackoff,      \* MAX_BACKOFF
  MaxLives,        \* bound on the starts of the daemon
  StoreMayFail     \* may the state store return an error?

ASSUME CloudAssumption ==
  /\ None \notin Agents /\ None \notin ApiKeys
  /\ InitialBackoff \in Nat \ {0} /\ MaxBackoff \in Nat /\ InitialBackoff <= MaxBackoff
  /\ MaxLives \in Nat
  /\ StoreMayFail \in BOOLEAN

VARIABLES
  agents,          \* the agent tasks
  cloud_shutdown,  \* the agent the daemon can tell to stop
  api_key,         \* cloud:api_key as the state store returns it
  on_disk,         \* what a start may find there: a deletion is not flushed
  commands,        \* agents whose command the daemon has not executed yet
  closed,          \* a kill has closed the state store; exit(0) follows in 100 ms
  failed,          \* history: the last request failed halfway
  lives

stored == <<api_key, on_disk>>
cloudVars == <<agents, cloud_shutdown, stored, commands, closed, failed, lives>>

-----------------------------------------------------------------------------
\* stage: "connect" until the socket is open, "auth" until the cloud has accepted
\* the key, "session", "command" while a command is executed, "pause" before the
\* next attempt. told: the order to stop is in the channel.
CloudStages == {"none", "connect", "auth", "session", "command", "pause"}
NoAgent == [stage |-> "none", key |-> None, backoff |-> 0, told |-> FALSE]
NewAgent(k) == [stage |-> "connect", key |-> k, backoff |-> InitialBackoff, told |-> FALSE]

CloudTypeOK ==
  /\ agents \in [Agents -> [stage : CloudStages, key : ApiKeys \cup {None},
                            backoff : 0..MaxBackoff, told : BOOLEAN]]
  /\ cloud_shutdown \in Agents \cup {None}
  /\ api_key \in ApiKeys \cup {None}
  /\ on_disk \subseteq ApiKeys \cup {None}
  /\ commands \subseteq Agents
  /\ closed \in BOOLEAN /\ failed \in BOOLEAN
  /\ lives \in 0..MaxLives

CloudInit ==
  /\ agents = [a \in Agents |-> NoAgent]
  /\ cloud_shutdown = None
  /\ api_key = None /\ on_disk = {None}
  /\ commands = {}
  /\ closed = FALSE /\ failed = FALSE
  /\ lives = 0

-----------------------------------------------------------------------------
AgentAt(a, stage) == agents[a].stage = stage
Become(a, stage) == agents' = [agents EXCEPT ![a].stage = stage]
Running(a) == ~AgentAt(a, "none")

\* Wrong: the order to stop is not sent.
Told_nobody(ag) == ag

\* cloud_shutdown.take(): the agent is told; its channel has room for the order.
Told(ag) ==
  IF cloud_shutdown = None THEN ag ELSE [ag EXCEPT ![cloud_shutdown].told = TRUE]

\* Wrong: the key is not stored.
Link_forgets_key(k, a) ==
  /\ lives > 0 /\ ~closed
  /\ ~Running(a)
  /\ agents' = [Told(agents) EXCEPT ![a] = NewAgent(k)]
  /\ cloud_shutdown' = a
  /\ failed' = FALSE
  /\ UNCHANGED <<stored, commands, closed, lives>>

\* Link: store the key and flush it, stop the old agent, start a new one.
Link(k, a) ==
  /\ lives > 0 /\ ~closed
  /\ ~Running(a)
  /\ api_key' = k /\ on_disk' = {k}
  /\ agents' = [Told(agents) EXCEPT ![a] = NewAgent(k)]
  /\ cloud_shutdown' = a
  /\ failed' = FALSE
  /\ UNCHANGED <<commands, closed, lives>>

\* The store fails, with or without the key in it: nothing else happens.
LinkFailed(k) ==
  /\ lives > 0
  /\ StoreMayFail \/ closed
  /\ api_key' \in IF closed THEN {api_key} ELSE {api_key, k}
  /\ on_disk' = on_disk \cup {api_key'}
  /\ failed' = TRUE
  /\ UNCHANGED <<agents, cloud_shutdown, commands, closed, lives>>

\* Unlink: stop the agent, then remove the key, without a flush. If the store
\* fails the agent is stopped all the same.
Unlink ==
  /\ lives > 0
  /\ agents' = Told(agents)
  /\ cloud_shutdown' = None
  /\ \/ ~closed /\ api_key' = None /\ failed' = FALSE
     \/ ~closed /\ StoreMayFail /\ api_key' \in {api_key, None} /\ failed' = TRUE
     \/ closed /\ api_key' = api_key /\ failed' = TRUE
  /\ on_disk' = on_disk \cup {api_key'}
  /\ UNCHANGED <<commands, closed, lives>>

\* Kill: stop the agent, close the store, which flushes it unless it fails, keep the
\* key. Requests are still served until exit(0).
Kill ==
  /\ lives > 0
  /\ agents' = Told(agents)
  /\ cloud_shutdown' = None
  /\ closed' = TRUE
  /\ on_disk' \in {{api_key}} \cup (IF StoreMayFail \/ closed THEN {on_disk} ELSE {})
  /\ UNCHANGED <<api_key, commands, failed, lives>>

-----------------------------------------------------------------------------
\* Wrong: a stop order is only looked for in a session.
Stop_in_session(a) ==
  /\ AgentAt(a, "session")
  /\ agents[a].told
  /\ agents' = [agents EXCEPT ![a] = NoAgent]
  /\ UNCHANGED <<cloud_shutdown, stored, commands, closed, failed, lives>>

\* run. A stop order is seen wherever the agent waits: it drops the connection,
\* and the answer to a command, and returns.
Stop(a) ==
  /\ Running(a)
  /\ agents[a].told
  /\ agents' = [agents EXCEPT ![a] = NoAgent]
  /\ UNCHANGED <<cloud_shutdown, stored, commands, closed, failed, lives>>

\* connect_and_run: the socket, then the answer to the key.
Connect(a) ==
  /\ AgentAt(a, "connect")
  /\ Become(a, "auth")
  /\ UNCHANGED <<cloud_shutdown, stored, commands, closed, failed, lives>>

AuthOk(a) ==
  /\ AgentAt(a, "auth")
  /\ Become(a, "session")
  /\ UNCHANGED <<cloud_shutdown, stored, commands, closed, failed, lives>>

\* execute_cloud_command: the request is on its way, the agent waits.
Command(a) ==
  /\ AgentAt(a, "session")
  /\ a \notin commands
  /\ Become(a, "command")
  /\ commands' = commands \cup {a}
  /\ UNCHANGED <<cloud_shutdown, stored, closed, failed, lives>>

\* The daemon executes it, and the agent, if it still waits, answers the cloud.
Execute(a) ==
  /\ a \in commands
  /\ commands' = commands \ {a}
  /\ IF AgentAt(a, "command") THEN Become(a, "session") ELSE UNCHANGED agents
  /\ UNCHANGED <<cloud_shutdown, stored, closed, failed, lives>>

\* Closed by the cloud: connect_and_run returns Ok, and the pause is short again.
Closed(a) ==
  /\ AgentAt(a, "session")
  /\ agents' = [agents EXCEPT ![a].stage = "pause", ![a].backoff = InitialBackoff]
  /\ UNCHANGED <<cloud_shutdown, stored, commands, closed, failed, lives>>

\* Any error: connecting, a rejected key, a failed send or read.
Broken(a) ==
  /\ agents[a].stage \in {"connect", "auth", "session"}
  /\ Become(a, "pause")
  /\ UNCHANGED <<cloud_shutdown, stored, commands, closed, failed, lives>>

\* Wrong: the pause is not capped.
Doubled_uncapped(b) == 2 * b

Doubled(b) == IF 2 * b < MaxBackoff THEN 2 * b ELSE MaxBackoff

\* The pause is over.
Retry(a) ==
  /\ AgentAt(a, "pause")
  /\ agents' = [agents EXCEPT ![a].stage = "connect", ![a].backoff = Doubled(@)]
  /\ UNCHANGED <<cloud_shutdown, stored, commands, closed, failed, lives>>

-----------------------------------------------------------------------------
\* The daemon starts and connects again if a key is stored (load_cloud_config);
\* before that it may have run and ended, by a kill or a crash, with all its tasks
\* and with what was not on disk.
Start(a) ==
  /\ lives < MaxLives
  /\ lives' = lives + 1
  /\ api_key' \in on_disk
  /\ on_disk' = {api_key'}
  /\ LET none == [x \in Agents |-> NoAgent] IN
       IF api_key' = None
       THEN agents' = none /\ cloud_shutdown' = None
       ELSE agents' = [none EXCEPT ![a] = NewAgent(api_key')] /\ cloud_shutdown' = a
  /\ commands' = {}
  /\ closed' = FALSE /\ failed' = FALSE

Agent(a) ==
  \/ Stop(a)
  \/ Connect(a) \/ AuthOk(a)
  \/ Command(a) \/ Execute(a)
  \/ Closed(a) \/ Broken(a) \/ Retry(a)

CloudNext ==
  \/ \E k \in ApiKeys, a \in Agents : Link(k, a)
  \/ \E k \in ApiKeys : LinkFailed(k)
  \/ Unlink
  \/ Kill
  \/ \E a \in Agents : Agent(a) \/ Start(a)

CloudSpec == CloudInit /\ [][CloudNext]_cloudVars

\* A task whose channel holds an order is polled. That the cloud answers, or the daemon
\* a command, is not assumed.
FairCloudSpec == CloudSpec /\ \A a \in Agents : WF_cloudVars(Stop(a))

-----------------------------------------------------------------------------
(* Properties. *)

\* However often the daemon is linked, unlinked and linked again, at most one agent
\* is not on its way out, and it is the one the daemon can stop.
OneAgent == \A a \in Agents : Running(a) /\ ~agents[a].told => cloud_shutdown = a

\* What is stored is what runs: unless a request failed halfway or the daemon is
\* about to exit, the agent it keeps uses the stored key, and there is none without
\* a key.
KeyAgrees ==
  ~failed /\ ~closed /\ lives > 0 =>
    IF cloud_shutdown = None THEN api_key = None
    ELSE /\ agents[cloud_shutdown].key = api_key
         /\ ~agents[cloud_shutdown].told

\* An agent that is told to stop does, wherever it is: in a command, in a pause, or
\* waiting for a cloud that never answers. (Its identity may be used again.)
StopsWhenTold == \A a \in Agents : agents[a].told ~> ~agents[a].told
====
