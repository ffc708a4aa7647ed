---- MODULE TaskProofs ----
(***************************************************************************)
(* Proofs about the tasks the daemon leaves to themselves: those that      *)
(* issue and renew certificates (Acme), for every number of them, of       *)
(* certificates and faults; and the agents that keep a connection to the   *)
(* cloud (CloudAgent), for every set of agent tasks and API keys, every    *)
(* pair of backoff bounds and any number of daemon starts.                 *)
(***************************************************************************)
EXTENDS Acme, CloudAgent, TLAPS

-----------------------------------------------------------------------------
(* The certificates. *)

\* The tasks are where the code can be.
TasksTyped == issuers \in [Issuers -> [stage : Stages, id : Ids \cup {Absent}]]

\* The tokens. A task has one only while it waits for the ACME server, and only one
\* that two orders got can be asked for by another task, have its removal pending, or be
\* gone already.
TokensTyped ==
  /\ tokens \subseteq Tokens /\ cleaning \subseteq Tokens /\ shared \subseteq Tokens
  /\ asked \in [Issuers -> Tokens \cup {Absent}]

TokensHeld ==
  /\ TokensTyped
  /\ \A i \in Issuers : asked[i] # Absent => issuers[i].stage \in {"ready", "poll"}
  /\ \A i \in Issuers : asked[i] # Absent => asked[i] \in tokens \cup shared
  /\ \A i \in Issuers : asked[i] \in cleaning => asked[i] \in shared
  /\ \A i, j \in Issuers : i # j /\ asked[i] = asked[j] /\ asked[i] # Absent => asked[i] \in shared

\* What holds of the files as long as nothing disturbed the issuing: one task at a
\* time is at work, the files are a pair unless it is writing them, and what it
\* holds is what it has read or written.
InOrder ==
  /\ Matches(loaded)
  /\ \A i, j \in Issuers : i = j \/ issuers[i] = Idle \/ issuers[j] = Idle
  /\ (\A i \in Issuers : issuers[i].stage \notin Between) => cert = key
  /\ \A i \in Issuers : issuers[i].stage \in {"load_key", "key", "key_write"} => issuers[i].id = cert

Inv == TasksTyped /\ TokensHeld /\ (disturbed \/ InOrder)

\* The steps of one task.
TaskStep(i) == Begin(i) \/ Issue(i) \/ SetReadyFails(i) \/ PollFailed(i) \/ Fail(i)

\* Initially no task runs and there is no file.
LEMMA InitInv == Init => Inv
  BY AcmeAssumption
  DEF Init, Inv, TasksTyped, TokensHeld, TokensTyped, InOrder, Matches, NoPair, AllIdle, Idle, At,
      Stages, Between

-----------------------------------------------------------------------------
\* What a step does to the tasks.

\* A step that moves one task.
LEMMA GoTyped ==
  ASSUME TasksTyped, NEW i \in Issuers, NEW s \in Stages, NEW v \in Ids \cup {Absent},
         Go(i, s, v)
  PROVE  /\ TasksTyped'
         /\ issuers'[i] = [stage |-> s, id |-> v]
         /\ \A j \in Issuers \ {i} : issuers'[j] = issuers[j]
  BY DEF TasksTyped, Go

\* A task that returns is idle, and the others stay where they are.
LEMMA ReturnTyped ==
  ASSUME TasksTyped, NEW i \in Issuers, Return(i)
  PROVE  /\ TasksTyped'
         /\ issuers'[i] = Idle
         /\ \A j \in Issuers \ {i} : issuers'[j] = issuers[j]
  BY DEF TasksTyped, Return, Idle, Stages

\* All steps keep the tasks where the code can be.
LEMMA NextTyped ==
  ASSUME TasksTyped, [Next]_vars
  PROVE  TasksTyped'
<1>1. ASSUME NEW i \in Issuers, TaskStep(i) PROVE TasksTyped'
  BY <1>1, GoTyped, ReturnTyped
  DEF TaskStep, Begin, Issue, Fail, CheckExisting, ReadCert, LoadExisting, Account, WriteAccount,
      Order, SetReady, SetReadyFails, PollReady, PollInvalid, PollFailed, Finalize, WriteCert,
      WriteKey, Install, Stages, TasksTyped, At
<1>2. ASSUME NEW v \in Ids, Age(v) PROVE TasksTyped'
  BY <1>2 DEF Age, TasksTyped
<1>3. ASSUME Crash PROVE TasksTyped'
  BY <1>3 DEF Crash, TasksTyped, AllIdle, Idle, Stages
<1>4. ASSUME NEW tok \in Tokens, Clean(tok) PROVE TasksTyped'
  BY <1>4 DEF Clean, TasksTyped
<1>5. CASE UNCHANGED vars
  BY <1>5 DEF vars, TasksTyped
<1> QED BY <1>1, <1>2, <1>3, <1>4, <1>5 DEF Next, TaskStep

\* A step of one task leaves the others where they are.
LEMMA TaskMovesAlone ==
  ASSUME TasksTyped, NEW i \in Issuers, TaskStep(i)
  PROVE  \A j \in Issuers \ {i} : issuers'[j] = issuers[j]
<1>1. \A s, v : Go(i, s, v) => \A j \in Issuers \ {i} : issuers'[j] = issuers[j]
  BY DEF Go, TasksTyped
<1>2. Return(i) => \A j \in Issuers \ {i} : issuers'[j] = issuers[j]
  BY DEF Return, TasksTyped
<1> QED BY <1>1, <1>2 DEF TaskStep, Begin, Issue, Fail, CheckExisting, ReadCert, LoadExisting,
    Account, WriteAccount, Order, SetReady, SetReadyFails, PollReady, PollInvalid, PollFailed,
    Finalize, WriteCert, WriteKey, Install

-----------------------------------------------------------------------------
\* The tokens.

\* A step of a task that has no token and gets none leaves the tokens alone.
LEMMA WithoutToken ==
  ASSUME TokensHeld, NEW i \in Issuers,
         issuers[i].stage \notin {"ready", "poll"},
         \A j \in Issuers \ {i} : issuers'[j] = issuers[j],
         UNCHANGED challenge
  PROVE  TokensHeld'
<1>1. UNCHANGED <<tokens, asked, cleaning, shared>>
  BY DEF challenge
<1>2. asked[i] = Absent
  BY DEF TokensHeld
<1> QED BY <1>1, <1>2 DEF TokensHeld, TokensTyped

\* What a task asks for is kept in shared.
LEMMA AskedHeld == \A j \in Issuers : asked'[j] \in Held'
  BY DEF Held

\* A step that ends a task's wait: no token but its own goes, and its own may be
\* removed later instead.
LEMMA WaitEnds ==
  ASSUME AcmeAssumption, TokensHeld, NEW i \in Issuers,
         \A j \in Issuers \ {i} : issuers'[j] = issuers[j],
         Forgotten(i), shared' = shared \cap Held',
         tokens' \in SUBSET Tokens, cleaning' \in SUBSET Tokens,
         tokens \ {asked[i]} \subseteq tokens',
         cleaning' \subseteq cleaning \cup {asked[i]}
  PROVE  TokensHeld'
<1>1. /\ asked' \in [Issuers -> Tokens \cup {Absent}]
      /\ asked'[i] = Absent
      /\ \A j \in Issuers \ {i} : asked'[j] = asked[j]
  BY DEF Forgotten, TokensHeld, TokensTyped
<1>2. TokensTyped'
  BY <1>1 DEF TokensHeld, TokensTyped
<1>3. \A j \in Issuers : asked'[j] \in shared => asked'[j] \in shared'
  BY AskedHeld
<1>4. ASSUME NEW j \in Issuers, asked'[j] # Absent
      PROVE  /\ j # i /\ asked'[j] = asked[j]
             /\ asked'[j] \in tokens' \cup shared'
             /\ asked'[j] \in cleaning' => asked'[j] \in shared'
  <2>1. j # i /\ asked'[j] = asked[j]
    BY <1>1, <1>4
  <2>2. asked[j] \in tokens \cup shared
    BY <1>4, <2>1 DEF TokensHeld
  <2>3. asked[j] = asked[i] => asked[j] \in shared
    BY <1>4, <2>1 DEF TokensHeld
  <2>4. asked[j] \in cleaning => asked[j] \in shared
    BY DEF TokensHeld
  <2> QED BY <1>3, <2>1, <2>2, <2>3, <2>4
<1>5. \A j \in Issuers : asked'[j] \in cleaning' => asked'[j] # Absent
  BY AcmeAssumption DEF AcmeAssumption
<1>6. \A j \in Issuers : asked'[j] # Absent => issuers'[j].stage \in {"ready", "poll"}
  BY <1>4 DEF TokensHeld
<1>7. \A j, k \in Issuers : j # k /\ asked'[j] = asked'[k] /\ asked'[j] # Absent => asked'[j] \in shared'
  BY <1>3, <1>4 DEF TokensHeld
<1> QED BY <1>2, <1>4, <1>5, <1>6, <1>7 DEF TokensHeld

\* An order: the token is new, or it counts as shared from now on.
LEMMA OrderKeepsTokens ==
  ASSUME AcmeAssumption, TasksTyped, TokensHeld, NEW i \in Issuers, Order(i)
  PROVE  TokensHeld'
<1>1. \A j \in Issuers \ {i} : issuers'[j] = issuers[j]
  BY TaskMovesAlone DEF TaskStep, Issue
<1>2. issuers[i].stage = "order" /\ asked[i] = Absent
  BY DEF Order, At, TokensHeld
<1>3. CASE Go(i, "poll", Absent) /\ UNCHANGED <<tokens, asked, shared, stranded>>
  BY <1>1, <1>2, <1>3, WithoutToken DEF Order, challenge
<1>4. ASSUME NEW tok \in Tokens,
             tokens' = tokens \cup {tok},
             asked' = [asked EXCEPT ![i] = tok],
             shared' = IF tok \in HeldByOthers(i) THEN shared \cup {tok} ELSE shared \ {tok},
             Go(i, "ready", Absent)
      PROVE  TokensHeld'
  <2>1. /\ asked' \in [Issuers -> Tokens \cup {Absent}]
        /\ asked'[i] = tok
        /\ \A j \in Issuers \ {i} : asked'[j] = asked[j]
    BY <1>4 DEF TokensHeld, TokensTyped
  <2>2. issuers'[i].stage = "ready"
    BY <1>4 DEF Go, TasksTyped
  <2>3. cleaning' = cleaning
    BY DEF Order
  <2>4. TokensTyped'
    BY <1>4, <2>1, <2>3 DEF TokensHeld, TokensTyped
  <2>5. \A j \in Issuers \ {i} : asked[j] = tok => tok \in HeldByOthers(i)
    BY DEF HeldByOthers
  <2>6. tok \in cleaning => tok \in HeldByOthers(i)
    BY DEF HeldByOthers
  <2>7. tok \in HeldByOthers(i) => tok \in shared'
    BY <1>4
  <2>8. \A t \in Tokens : t # tok => (t \in shared' <=> t \in shared)
    BY <1>4
  <2>9. \A j \in Issuers : asked'[j] # Absent => issuers'[j].stage \in {"ready", "poll"}
    BY <1>1, <2>1, <2>2 DEF TokensHeld
  <2>10. \A j \in Issuers : asked'[j] # Absent => asked'[j] \in tokens' \cup shared'
    BY <1>4, <2>1, <2>8 DEF TokensHeld, TokensTyped
  <2>11. ASSUME NEW j \in Issuers, asked'[j] \in cleaning' PROVE asked'[j] \in shared'
    <3>1. CASE asked'[j] = tok
      BY <2>3, <2>6, <2>7, <2>11, <3>1
    <3>2. CASE asked'[j] # tok
      <4>1. asked'[j] = asked[j] /\ asked[j] \in cleaning
        BY <2>1, <2>3, <2>11, <3>2
      <4> QED BY <2>8, <3>2, <4>1 DEF TokensHeld, TokensTyped
    <3> QED BY <3>1, <3>2
  <2>12. ASSUME NEW j \in Issuers, NEW k \in Issuers, j # k, asked'[j] = asked'[k], asked'[j] # Absent
         PROVE  asked'[j] \in shared'
    <3>1. CASE asked'[j] = tok
      BY <2>1, <2>5, <2>7, <2>12, <3>1
    <3>2. CASE asked'[j] # tok
      <4>1. asked'[j] = asked[j] /\ asked'[k] = asked[k] /\ asked[j] \in Tokens
        BY <2>1, <2>12, <3>2 DEF TokensHeld, TokensTyped
      <4> QED BY <2>8, <2>12, <3>2, <4>1 DEF TokensHeld
    <3> QED BY <3>1, <3>2
  <2> QED BY <2>4, <2>9, <2>10, <2>11, <2>12 DEF TokensHeld
<1>5. \/ Go(i, "poll", Absent) /\ UNCHANGED <<tokens, asked, shared, stranded>>
      \/ \E tok \in Tokens :
           /\ tokens' = tokens \cup {tok}
           /\ asked' = [asked EXCEPT ![i] = tok]
           /\ shared' = IF tok \in HeldByOthers(i) THEN shared \cup {tok} ELSE shared \ {tok}
           /\ Go(i, "ready", Absent)
  <2>1. OneFresh \cup (Tokens \ Fresh) \subseteq Tokens
    BY DEF OneFresh, Fresh
  <2> QED BY <2>1 DEF Order
<1> QED BY <1>3, <1>4, <1>5

\* The steps of a task (issue_cert).
LEMMA TaskKeepsTokens ==
  ASSUME AcmeAssumption, TasksTyped, TokensHeld, NEW i \in Issuers, TaskStep(i)
  PROVE  TokensHeld'
<1>1. \A j \in Issuers \ {i} : issuers'[j] = issuers[j]
  BY TaskMovesAlone
<1>2. CASE Begin(i) \/ CheckExisting(i) \/ ReadCert(i) \/ LoadExisting(i) \/ Account(i)
           \/ WriteAccount(i) \/ Finalize(i) \/ WriteCert(i) \/ WriteKey(i) \/ Install(i) \/ Fail(i)
  <2>1. UNCHANGED challenge /\ issuers[i].stage \notin {"ready", "poll"}
    BY <1>2
    DEF Begin, Fail, CheckExisting, ReadCert, LoadExisting, Account, WriteAccount, Finalize,
        WriteCert, WriteKey, Install, At
  <2> QED BY <1>1, <2>1, WithoutToken
<1>3. CASE Order(i)
  BY <1>3, OrderKeepsTokens
<1>4. CASE SetReady(i)
  <2>1. UNCHANGED <<tokens, asked, cleaning, shared>> /\ issuers'[i].stage = "poll"
    BY <1>4 DEF SetReady, challenge, Go, TasksTyped
  <2>2. \A j \in Issuers : asked[j] # Absent => issuers'[j].stage \in {"ready", "poll"}
    BY <1>1, <2>1 DEF TokensHeld
  <2> QED BY <2>1, <2>2 DEF TokensHeld, TokensTyped
<1>5. CASE SetReadyFails(i)
  <2>1. Forgotten(i) /\ UNCHANGED <<tokens, cleaning>> /\ shared' = shared \cap Held'
    BY <1>5 DEF SetReadyFails
  <2> QED BY <1>1, <2>1, WaitEnds DEF TokensHeld, TokensTyped
<1>6. CASE PollReady(i) \/ PollInvalid(i)
  <2>1. /\ Forgotten(i) /\ tokens' = tokens \ {asked[i]} /\ UNCHANGED cleaning
        /\ shared' = shared \cap Held'
    BY <1>6 DEF PollReady, PollInvalid
  <2> QED BY <1>1, <2>1, WaitEnds DEF TokensHeld, TokensTyped
<1>7. CASE PollFailed(i)
  <2>1. /\ Forgotten(i) /\ UNCHANGED tokens /\ shared' = shared \cap Held'
        /\ cleaning' = cleaning \cup ({asked[i]} \ {Absent})
    BY <1>7 DEF PollFailed
  <2>2. cleaning' \subseteq Tokens /\ tokens' \subseteq Tokens
    BY <2>1 DEF TokensHeld, TokensTyped
  <2> QED BY <1>1, <2>1, <2>2, WaitEnds
<1> QED BY <1>2, <1>3, <1>4, <1>5, <1>6, <1>7 DEF TaskStep, Issue

\* The removal left over from a failed poll takes a token no task asks for, or a shared
\* one; the passing of time changes no token, and a restart ends all tasks.
LEMMA NextTokens ==
  ASSUME AcmeAssumption, TasksTyped, TokensHeld, [Next]_vars
  PROVE  TokensHeld'
<1>1. ASSUME NEW i \in Issuers, TaskStep(i) PROVE TokensHeld'
  BY <1>1, TaskKeepsTokens
<1>2. ASSUME NEW tok \in Tokens, Clean(tok) PROVE TokensHeld'
  <2>1. /\ tok \in cleaning /\ cleaning' = cleaning \ {tok} /\ tokens' = tokens \ {tok}
        /\ UNCHANGED <<issuers, asked>> /\ shared' = shared \cap Held'
    BY <1>2 DEF Clean
  <2>2. \A j \in Issuers : asked[j] \in shared => asked[j] \in shared'
    BY <2>1, AskedHeld
  <2> QED BY <2>1, <2>2 DEF TokensHeld, TokensTyped
<1>3. ASSUME NEW v \in Ids, Age(v) PROVE TokensHeld'
  BY <1>3 DEF Age, challenge, TokensHeld, TokensTyped
<1>4. ASSUME Crash PROVE TokensHeld'
  <2>1. /\ tokens' = {} /\ cleaning' = {} /\ shared' = {}
        /\ asked' = [i \in Issuers |-> Absent]
    BY <1>4 DEF Crash
  <2> QED BY <2>1 DEF TokensHeld, TokensTyped
<1>5. CASE UNCHANGED vars
  BY <1>5 DEF vars, challenge, TokensHeld, TokensTyped
<1> QED BY <1>1, <1>2, <1>3, <1>4, <1>5 DEF Next, TaskStep

-----------------------------------------------------------------------------
\* The files.

\* A step of the only task at work keeps the files in order, or cuts it off between
\* its two files.
LEMMA TaskKeepsOrder ==
  ASSUME AcmeAssumption, TasksTyped, InOrder, NEW i \in Issuers, issuers[i] # Idle,
         TaskStep(i), ~Begin(i)
  PROVE  disturbed' \/ InOrder'
<1> USE DEF Stages
<1>1. \A j \in Issuers \ {i} : issuers[j] = Idle
  BY DEF InOrder
<1>2. \A j \in Issuers \ {i} : issuers[j].stage = "idle"
  BY <1>1 DEF Idle
<1>3. /\ issuers[i].stage \notin Between => cert = key
      /\ Matches(loaded)
      /\ issuers[i].stage \in {"load_key", "key", "key_write"} => issuers[i].id = cert
  BY <1>2 DEF InOrder, Between
<1>4. ASSUME \A j \in Issuers \ {i} : issuers'[j] = issuers[j],
             Matches(loaded)',
             issuers'[i].stage \notin Between => cert' = key',
             issuers'[i].stage \in {"load_key", "key", "key_write"} => issuers'[i].id = cert'
      PROVE  InOrder'
  BY <1>1, <1>2, <1>4 DEF InOrder, Between
<1>5. CASE CheckExisting(i) \/ ReadCert(i) \/ Account(i) \/ WriteAccount(i) \/ Order(i)
           \/ SetReady(i) \/ SetReadyFails(i) \/ PollReady(i) \/ PollInvalid(i) \/ PollFailed(i)
           \/ Finalize(i)
  <2>1. /\ cert' = cert /\ key' = key /\ loaded' = loaded /\ cert = key
        /\ \A j \in Issuers \ {i} : issuers'[j] = issuers[j]
        /\ issuers'[i].stage \notin {"key", "key_write"}
        /\ issuers'[i].stage = "load_key" => issuers'[i].id = cert
    BY <1>3, <1>5 DEF Go, Return, TasksTyped, CheckExisting, ReadCert, Account,
        WriteAccount, Order, SetReady, SetReadyFails, PollReady, PollInvalid, PollFailed,
        Finalize, files, At, Idle, Between
  <2> QED BY <1>3, <1>4, <2>1 DEF Matches
<1>6. CASE LoadExisting(i)
  <2>1. /\ cert' = cert /\ key' = key /\ cert = key
        /\ loaded' = loaded \/ loaded' = [cert |-> cert, key |-> key]
        /\ issuers'[i].stage = "idle"
        /\ \A j \in Issuers \ {i} : issuers'[j] = issuers[j]
    BY <1>3, <1>6 DEF Return, TasksTyped, LoadExisting, files, At, Idle, Between
  <2>2. Matches(loaded)'
    BY <1>3, <2>1 DEF Matches
  <2> QED BY <1>4, <2>1, <2>2
<1>7. CASE WriteCert(i)
  <2>1. /\ key' = key /\ loaded' = loaded
        /\ \/ issuers'[i].stage = "cert_write"
           \/ issuers'[i].stage = "key" /\ issuers'[i].id = cert'
        /\ \A j \in Issuers \ {i} : issuers'[j] = issuers[j]
    BY <1>7 DEF Go, TasksTyped, WriteCert
  <2> QED BY <1>3, <1>4, <2>1 DEF Matches, Between
<1>8. CASE WriteKey(i)
  <2>1. /\ cert' = cert /\ loaded' = loaded
        /\ \/ issuers'[i].stage = "key_write" /\ issuers'[i].id = cert
           \/ issuers'[i].stage = "install" /\ key' = cert
        /\ \A j \in Issuers \ {i} : issuers'[j] = issuers[j]
    BY <1>3, <1>8 DEF Go, TasksTyped, WriteKey, At
  <2> QED BY <1>3, <1>4, <2>1 DEF Matches, Between
<1>9. CASE Install(i)
  <2>1. /\ cert' = cert /\ key' = key /\ cert = key
        /\ loaded'.cert = loaded'.key
        /\ issuers'[i].stage = "idle"
        /\ \A j \in Issuers \ {i} : issuers'[j] = issuers[j]
    BY <1>3, <1>9 DEF Return, TasksTyped, Install, files, At, Idle, Between
  <2> QED BY <1>4, <2>1 DEF Matches
<1>10. CASE Fail(i)
  <2>1. CASE issuers[i].stage \in Between
    BY <1>10, <2>1 DEF Fail
  <2>2. CASE issuers[i].stage \notin Between
    <3>1. /\ cert' = cert /\ key' = key /\ loaded' = loaded
          /\ issuers'[i].stage = "idle"
          /\ \A j \in Issuers \ {i} : issuers'[j] = issuers[j]
      BY <1>10 DEF Return, TasksTyped, Fail, files, Idle
    <3> QED BY <1>3, <1>4, <2>2, <3>1 DEF Matches
  <2> QED BY <2>1, <2>2
<1> QED BY <1>5, <1>6, <1>7, <1>8, <1>9, <1>10 DEF TaskStep, Issue

\* A task that begins beside another disturbs the order; one that begins alone finds
\* a pair, or the order stays disturbed.
LEMMA NextInOrder ==
  ASSUME TasksTyped, disturbed \/ InOrder, [Next]_vars
  PROVE  disturbed' \/ InOrder'
<1>1. ASSUME NEW i \in Issuers, Begin(i) PROVE disturbed' \/ InOrder'
  <2>1. CASE issuers # AllIdle
    BY <1>1, <2>1 DEF Begin
  <2>2. CASE issuers = AllIdle /\ ~disturbed'
    <3>1. cert = key /\ Matches(loaded)
      <4>1. CASE disturbed
        BY <1>1, <2>2, <4>1 DEF Begin, Matches
      <4>2. CASE InOrder
        BY <2>2, <4>2 DEF InOrder, AllIdle, Idle, Between
      <4> QED BY <4>1, <4>2
    <3>2. /\ cert' = cert /\ key' = key /\ loaded' = loaded
          /\ issuers'[i].stage = "check"
          /\ \A j \in Issuers \ {i} : issuers'[j] = Idle
      BY <1>1, <2>2 DEF Begin, Go, TasksTyped, AllIdle, files
    <3>3. \A j \in Issuers : issuers'[j].stage \in {"check", "idle"}
      BY <3>2 DEF Idle
    <3> QED BY <3>1, <3>2, <3>3 DEF InOrder, Matches
  <2> QED BY <2>1, <2>2
<1>2. ASSUME NEW i \in Issuers, TaskStep(i), ~Begin(i) PROVE disturbed' \/ InOrder'
  <2>1. CASE disturbed
    <3>1. Issue(i) \/ SetReadyFails(i) \/ PollFailed(i) => disturbed' = disturbed
      BY DEF Issue, CheckExisting, ReadCert, LoadExisting, Account, WriteAccount, Order,
             SetReady, SetReadyFails, PollReady, PollInvalid, PollFailed, Finalize, WriteCert,
             WriteKey, Install
    <3>2. Fail(i) => disturbed'
      BY <2>1 DEF Fail
    <3> QED BY <1>2, <2>1, <3>1, <3>2 DEF TaskStep
  <2>2. CASE InOrder
    <3>1. issuers[i] # Idle
      BY <1>2 DEF TaskStep, Idle, Issue, Fail, CheckExisting, ReadCert, LoadExisting, Account,
             WriteAccount, Order, SetReady, SetReadyFails, PollReady, PollInvalid, PollFailed,
             Finalize, WriteCert, WriteKey, Install, At
    <3> QED BY <1>2, <2>2, <3>1, TaskKeepsOrder, AcmeAssumption
  <2> QED BY <2>1, <2>2
<1>3. ASSUME NEW v \in Ids, Age(v) PROVE disturbed' \/ InOrder'
  BY <1>3 DEF Age, InOrder, Matches, files
<1>4. ASSUME Crash PROVE disturbed' \/ InOrder'
  <2>1. CASE disturbed \/ \E i \in Issuers : issuers[i].stage \in Between
    BY <1>4, <2>1 DEF Crash
  <2>2. CASE InOrder /\ \A i \in Issuers : issuers[i].stage \notin Between
    BY <1>4, <2>2 DEF Crash, InOrder, Matches, NoPair, AllIdle, Idle, Between, files
  <2> QED BY <2>1, <2>2
<1>5. ASSUME NEW tok \in Tokens, Clean(tok) PROVE disturbed' \/ InOrder'
  BY <1>5 DEF Clean, InOrder, Matches, files
<1>6. CASE UNCHANGED vars
  BY <1>6 DEF vars, InOrder, Matches, files
<1> QED BY <1>1, <1>2, <1>3, <1>4, <1>5, <1>6 DEF Next, TaskStep

-----------------------------------------------------------------------------
\* Every step keeps the invariant.
LEMMA NextInv ==
  ASSUME Inv, [Next]_vars
  PROVE  Inv'
<1>1. TasksTyped'
  BY NextTyped DEF Inv
<1>2. TokensHeld'
  BY NextTokens, AcmeAssumption DEF Inv
<1>3. disturbed' \/ InOrder'
  BY NextInOrder DEF Inv
<1> QED BY <1>1, <1>2, <1>3 DEF Inv

\* The inductive invariant of the tasks, the tokens and the files.
THEOREM InvariantHolds == Spec => []Inv
  BY InitInv, NextInv, PTL DEF Spec

\* A token is in the challenge store as long as the ACME server may ask for it, whatever
\* other tasks, removals left over from failed polls, and restarts take away, unless the
\* server gave it to two orders (acme.rs, issue_cert).
THEOREM TokensAnswered == Spec => []ChallengeAnswered
<1>1. Inv => ChallengeAnswered
  BY DEF Inv, TokensHeld, ChallengeAnswered
<1> QED BY <1>1, InvariantHolds, PTL

\* The certificate that is served goes with its key, unless tasks overlapped or one
\* was cut off between its two files (acme.rs, issue_cert; tls.rs, add_cert).
THEOREM PairsMatch == Spec => []PairMatches
<1>1. Inv => PairMatches
  BY DEF Inv, InOrder, PairMatches
<1> QED BY <1>1, InvariantHolds, PTL

-----------------------------------------------------------------------------
(* The cloud agent. *)

AgentType == [stage : CloudStages, key : ApiKeys \cup {None}, backoff : 0..MaxBackoff, told : BOOLEAN]

\* The inductive invariant. OneAgent and KeyAgrees support each other: the agent
\* the daemon keeps is never one that was told to stop, so no step of an agent
\* takes away the agent the stored key belongs to.
CloudInv ==
  /\ CloudTypeOK
  /\ OneAgent
  /\ KeyAgrees

\* The records the operations build are agents.
LEMMA AgentRecords ==
  /\ NoAgent \in AgentType
  /\ \A k \in ApiKeys : NewAgent(k) \in AgentType
  /\ \A b \in 0..MaxBackoff : Doubled(b) \in 0..MaxBackoff
  /\ InitialBackoff \in 0..MaxBackoff
<1>1. InitialBackoff \in 0..MaxBackoff /\ 0 \in 0..MaxBackoff
  BY CloudAssumption
<1>2. \A b \in 0..MaxBackoff : Doubled(b) \in 0..MaxBackoff
  BY CloudAssumption DEF Doubled
<1> QED BY <1>1, <1>2 DEF NoAgent, NewAgent, AgentType, CloudStages

\* Telling the agent the daemon keeps to stop leaves no agent that was not told.
LEMMA ToldAll ==
  ASSUME CloudInv
  PROVE  /\ Told(agents) \in [Agents -> AgentType]
         /\ \A a \in Agents : Told(agents)[a].stage # "none" => Told(agents)[a].told
<1>1. agents \in [Agents -> AgentType] /\ cloud_shutdown \in Agents \cup {None}
  BY DEF CloudInv, CloudTypeOK, AgentType, stored
<1>2. CASE cloud_shutdown = None
  BY <1>1, <1>2, CloudAssumption DEF Told, CloudInv, OneAgent, Running, AgentAt
<1>3. CASE cloud_shutdown # None
  <2>1. Told(agents) = [agents EXCEPT ![cloud_shutdown].told = TRUE]
    BY <1>3 DEF Told
  <2>2. Told(agents) \in [Agents -> AgentType]
    BY <1>1, <1>3, <2>1 DEF AgentType
  <2>3. \A a \in Agents : a # cloud_shutdown => Told(agents)[a] = agents[a]
    BY <1>1, <2>1
  <2>4. Told(agents)[cloud_shutdown].told
    BY <1>1, <1>3, <2>1 DEF AgentType
  <2> QED BY <2>2, <2>3, <2>4 DEF CloudInv, OneAgent, Running, AgentAt
<1> QED BY <1>2, <1>3

\* A step of one agent that keeps its key and its orders keeps the invariant.
LEMMA AgentStep ==
  ASSUME CloudInv, NEW a \in Agents, NEW g \in AgentType,
         agents' = [agents EXCEPT ![a] = g],
         agents[a].stage # "none",
         g.key = agents[a].key, g.told = agents[a].told,
         commands' \subseteq Agents,
         UNCHANGED <<cloud_shutdown, stored, closed, failed, lives>>
  PROVE  CloudInv'
<1>1. agents \in [Agents -> AgentType]
  BY DEF CloudInv, CloudTypeOK, AgentType, stored
<1>2. agents' \in [Agents -> AgentType]
  BY <1>1
<1>3. CloudTypeOK'
  BY <1>2 DEF CloudInv, CloudTypeOK, AgentType, stored
<1>4. \A x \in Agents : agents'[x].key = agents[x].key /\ agents'[x].told = agents[x].told
  BY <1>1
<1>5. \A x \in Agents : agents'[x].stage # "none" => agents[x].stage # "none"
  BY <1>1
<1>6. OneAgent'
  BY <1>4, <1>5 DEF CloudInv, OneAgent, Running, AgentAt
<1>7. KeyAgrees'
  BY <1>4, <1>3 DEF CloudInv, KeyAgrees, CloudTypeOK, stored
<1> QED BY <1>3, <1>6, <1>7 DEF CloudInv

\* The invariant holds at first, before any agent runs.
LEMMA InitCloudInv == CloudInit => CloudInv
<1> SUFFICES ASSUME CloudInit PROVE CloudInv
  OBVIOUS
<1>1. CloudTypeOK
  <2>1. agents \in [Agents -> AgentType]
    BY AgentRecords DEF CloudInit
  <2>2. lives \in 0..MaxLives
    BY CloudAssumption DEF CloudInit
  <2> QED BY <2>1, <2>2 DEF CloudInit, CloudTypeOK, AgentType
<1>2. OneAgent
  BY DEF CloudInit, OneAgent, Running, AgentAt, NoAgent
<1>3. KeyAgrees
  BY DEF CloudInit, KeyAgrees
<1> QED BY <1>1, <1>2, <1>3 DEF CloudInv

\* The requests keep the invariant.
LEMMA RequestInv ==
  ASSUME CloudInv,
         \/ \E k \in ApiKeys, a \in Agents : Link(k, a)
         \/ \E k \in ApiKeys : LinkFailed(k)
         \/ Unlink
         \/ Kill
  PROVE  CloudInv'
<1> USE DEF AgentType
<1>1. ASSUME NEW k \in ApiKeys, NEW a \in Agents, Link(k, a) PROVE CloudInv'
  <2> DEFINE t == Told(agents)
  <2>1. t \in [Agents -> AgentType] /\ \A x \in Agents : t[x].stage # "none" => t[x].told
    BY ToldAll
  <2>2. agents' = [t EXCEPT ![a] = NewAgent(k)] /\ cloud_shutdown' = a /\ api_key' = k
    BY <1>1 DEF Link
  <2> HIDE DEF t
  <2>3. agents' \in [Agents -> AgentType]
    BY <2>1, <2>2, AgentRecords
  <2>4. CloudTypeOK'
    BY <1>1, <2>2, <2>3 DEF CloudInv, CloudTypeOK, Link
  <2>5. OneAgent'
    BY <2>1, <2>2 DEF OneAgent, Running, AgentAt
  <2>6. agents'[a] = NewAgent(k)
    BY <2>1, <2>2
  <2>7. KeyAgrees'
    BY <2>2, <2>6, CloudAssumption DEF KeyAgrees, NewAgent
  <2> QED BY <2>4, <2>5, <2>7 DEF CloudInv
<1>2. ASSUME NEW k \in ApiKeys, LinkFailed(k) PROVE CloudInv'
  BY <1>2 DEF LinkFailed, stored, CloudInv, CloudTypeOK, OneAgent, KeyAgrees, Running, AgentAt
<1>3. ASSUME agents' = Told(agents), cloud_shutdown' = None, commands' = commands, lives' = lives,
             api_key' \in {api_key, None}, on_disk' \subseteq ApiKeys \cup {None}, closed' \in BOOLEAN, failed' \in BOOLEAN,
             ~failed' /\ ~closed' => api_key' = None
      PROVE  CloudInv'
  <2>1. agents' \in [Agents -> AgentType] /\ \A x \in Agents : agents'[x].stage # "none" => agents'[x].told
    BY <1>3, ToldAll
  <2>2. CloudTypeOK'
    BY <1>3, <2>1 DEF CloudInv, CloudTypeOK
  <2>3. OneAgent'
    BY <2>1 DEF OneAgent, Running, AgentAt
  <2>4. KeyAgrees'
    BY <1>3 DEF KeyAgrees
  <2> QED BY <2>2, <2>3, <2>4 DEF CloudInv
<1>4. CASE Unlink
  BY <1>3, <1>4 DEF Unlink, CloudInv, CloudTypeOK
<1>5. CASE Kill
  BY <1>3, <1>5 DEF Kill, CloudInv, CloudTypeOK
<1> QED BY <1>1, <1>2, <1>4, <1>5

\* The steps of the agents, and the start of the daemon, keep the invariant.
LEMMA AgentSteps ==
  ASSUME CloudInv, NEW a \in Agents, Agent(a) \/ Start(a)
  PROVE  CloudInv'
<1>1. agents \in [Agents -> AgentType] /\ commands \subseteq Agents
  BY DEF CloudInv, CloudTypeOK, AgentType, stored
<1>2. agents[a] \in AgentType
  BY <1>1
<1>3. CASE Stop(a)
  <2>1. agents' = [agents EXCEPT ![a] = NoAgent] /\ agents[a].told
        /\ UNCHANGED <<cloud_shutdown, stored, commands, closed, failed, lives>>
    BY <1>3 DEF Stop
  <2>2. agents' \in [Agents -> AgentType]
    BY <1>1, <2>1, AgentRecords
  <2>3. CloudTypeOK'
    BY <2>1, <2>2 DEF CloudInv, CloudTypeOK, AgentType, stored
  <2>4. \A x \in Agents : x # a => agents'[x] = agents[x]
    BY <1>1, <2>1
  <2>5. agents'[a].stage = "none"
    BY <1>1, <2>1 DEF NoAgent
  <2>6. OneAgent'
    BY <2>1, <2>4, <2>5 DEF CloudInv, OneAgent, Running, AgentAt
  <2>7. KeyAgrees'
    BY <2>1, <2>4, <2>3 DEF CloudInv, KeyAgrees, CloudTypeOK, stored
  <2> QED BY <2>3, <2>6, <2>7 DEF CloudInv
<1>4. ASSUME NEW st \in CloudStages, agents[a].stage # "none", Become(a, st), commands' \subseteq Agents,
             UNCHANGED <<cloud_shutdown, stored, closed, failed, lives>>
      PROVE  CloudInv'
  <2> DEFINE g == [agents[a] EXCEPT !.stage = st]
  <2>1. g \in AgentType /\ g.key = agents[a].key /\ g.told = agents[a].told
    BY <1>2 DEF AgentType
  <2>2. agents' = [agents EXCEPT ![a] = g]
    BY <1>1, <1>4 DEF Become
  <2> HIDE DEF g
  <2> QED BY <1>4, <2>1, <2>2, AgentStep
<1>5. CASE Connect(a) \/ AuthOk(a) \/ Broken(a)
  BY <1>1, <1>4, <1>5 DEF Connect, AuthOk, Broken, AgentAt, CloudStages
<1>6. CASE Command(a)
  BY <1>1, <1>4, <1>6 DEF Command, AgentAt, CloudStages
<1>7. CASE Execute(a)
  <2>1. commands' \subseteq Agents /\ UNCHANGED <<cloud_shutdown, stored, closed, failed, lives>>
    BY <1>1, <1>7 DEF Execute
  <2>2. CASE AgentAt(a, "command")
    BY <1>4, <1>7, <2>1, <2>2 DEF Execute, AgentAt, CloudStages
  <2>3. CASE ~AgentAt(a, "command")
    <3>1. UNCHANGED agents
      BY <1>7, <2>3 DEF Execute
    <3> QED BY <2>1, <3>1 DEF stored, CloudInv, CloudTypeOK, OneAgent, KeyAgrees, Running, AgentAt
  <2> QED BY <2>2, <2>3
<1>8. CASE Closed(a) \/ Retry(a)
  <2>1. PICK st \in CloudStages, b \in 0..MaxBackoff :
          agents' = [agents EXCEPT ![a].stage = st, ![a].backoff = b]
    <3>1. CASE Closed(a)
      BY <3>1, AgentRecords DEF Closed, CloudStages
    <3>2. CASE Retry(a)
      <4>1. agents' = [agents EXCEPT ![a].stage = "connect", ![a].backoff = Doubled(agents[a].backoff)]
        BY <1>1, <3>2 DEF Retry
      <4>2. Doubled(agents[a].backoff) \in 0..MaxBackoff
        BY <1>2, AgentRecords DEF AgentType
      <4> QED BY <4>1, <4>2 DEF CloudStages
    <3> QED BY <1>8, <3>1, <3>2
  <2> DEFINE g == [agents[a] EXCEPT !.stage = st, !.backoff = b]
  <2>2. g \in AgentType /\ g.key = agents[a].key /\ g.told = agents[a].told
    BY <1>2 DEF AgentType
  <2>3. agents' = [agents EXCEPT ![a] = g]
    BY <1>1, <2>1
  <2>4. /\ agents[a].stage # "none" /\ commands' \subseteq Agents
        /\ UNCHANGED <<cloud_shutdown, stored, closed, failed, lives>>
    BY <1>1, <1>8 DEF Closed, Retry, AgentAt
  <2> HIDE DEF g
  <2> QED BY <2>2, <2>3, <2>4, AgentStep
<1>9. CASE Start(a)
  <2> DEFINE none == [x \in Agents |-> NoAgent]
  <2>1. lives' \in 0..MaxLives /\ commands' = {} /\ closed' = FALSE /\ failed' = FALSE
        /\ api_key' \in ApiKeys \cup {None} /\ on_disk' = {api_key'}
    BY <1>9, CloudAssumption DEF Start, CloudInv, CloudTypeOK
  <2>2. CASE api_key' = None
    <3>1. agents' = none /\ cloud_shutdown' = None
      BY <1>9, <2>2 DEF Start
    <3>2. CloudTypeOK'
      BY <2>1, <2>2, <3>1, AgentRecords DEF CloudTypeOK, AgentType
    <3> QED BY <2>1, <2>2, <3>1, <3>2 DEF CloudInv, OneAgent, KeyAgrees, Running, AgentAt, NoAgent
  <2>3. CASE api_key' # None
    <3>1. api_key' \in ApiKeys
      BY <2>1, <2>3
    <3>2. agents' = [none EXCEPT ![a] = NewAgent(api_key')] /\ cloud_shutdown' = a
      BY <1>9, <2>3 DEF Start
    <3>3. agents' \in [Agents -> AgentType] /\ agents'[a] = NewAgent(api_key')
      BY <3>1, <3>2, AgentRecords
    <3>4. \A x \in Agents : x # a => agents'[x].stage = "none"
      BY <3>2 DEF NoAgent
    <3>5. CloudTypeOK'
      BY <2>1, <3>1, <3>2, <3>3 DEF CloudTypeOK, AgentType
    <3>6. OneAgent'
      BY <3>2, <3>4 DEF OneAgent, Running, AgentAt
    <3>7. KeyAgrees'
      BY <2>1, <3>2, <3>3, CloudAssumption DEF KeyAgrees, NewAgent
    <3> QED BY <3>5, <3>6, <3>7 DEF CloudInv
  <2> QED BY <2>2, <2>3
<1> QED BY <1>3, <1>5, <1>6, <1>7, <1>8, <1>9 DEF Agent

\* A step that changes nothing.
LEMMA StutterInv ==
  ASSUME CloudInv, UNCHANGED cloudVars
  PROVE  CloudInv'
BY DEF cloudVars, stored, CloudInv, CloudTypeOK, OneAgent, KeyAgrees, Running, AgentAt

\* The invariant holds in every reachable state, however often the daemon is
\* linked, unlinked, killed and started again (cloud.rs, server.rs).
THEOREM CloudInvariantHolds == CloudSpec => []CloudInv
<1>1. CloudInv /\ [CloudNext]_cloudVars => CloudInv'
  BY RequestInv, AgentSteps, StutterInv DEF CloudNext
<1> QED BY InitCloudInv, <1>1, PTL DEF CloudSpec

\* At most one agent is not on its way out, and the daemon can stop it
\* (handle_request, Link and Unlink).
THEOREM AtMostOneAgent == CloudSpec => []OneAgent
<1>1. CloudInv => OneAgent
  BY DEF CloudInv
<1> QED BY <1>1, CloudInvariantHolds, PTL

\* The agent that runs uses the key that is stored (save_cloud_config,
\* remove_cloud_config and load_cloud_config).
THEOREM StoredKeyRuns == CloudSpec => []KeyAgrees
<1>1. CloudInv => KeyAgrees
  BY DEF CloudInv
<1> QED BY <1>1, CloudInvariantHolds, PTL

\* Type correctness; the pause never exceeds MAX_BACKOFF (CloudAgent::run).
THEOREM CloudTypeCorrect == CloudSpec => []CloudTypeOK
<1>1. CloudInv => CloudTypeOK
  BY DEF CloudInv
<1> QED BY <1>1, CloudInvariantHolds, PTL
====
