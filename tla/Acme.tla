---- MODULE Acme ----
(***************************************************************************)
(* Certificates from Let's Encrypt (acme.rs): the tasks that issue one for *)
(* a host, started by run requests and by the renewal loop, the challenge  *)
(* tokens the proxy answers, the files under certs/, and the certificate   *)
(* in the store of tls.rs. There is one host: others share only the        *)
(* account file.                                                           *)
(*                                                                         *)
(* The challenge store is keyed by the token string, which the ACME server *)
(* makes up. Two orders that overlap may get the same one, as long as the  *)
(* authorization it belongs to is pending; then one task may remove what   *)
(* the other waits for.                                                    *)
(*                                                                         *)
(* A file is written with fs::write, which truncates it first: it is torn  *)
(* until the write is complete. The tasks run on several threads.          *)
(***************************************************************************)
EXTENDS Naturals, FiniteSets

CONSTANTS
  RunTasks,       \* issuing tasks of run requests
  Renewal,        \* the task of renewal_loop
  Ids,            \* identities of certificates and of the keys made for them
  Tokens,         \* challenge tokens of the ACME server
  Absent, Torn,   \* a file that is missing, or not completely written
  ListenPorts,    \* ports the proxy listens on
  ChallengePort,  \* where the ACME server looks for the token (80)
  MaxFaults       \* bound on failed requests, failed writes and crashes

ASSUME AcmeAssumption ==
  /\ Absent \notin Ids /\ Torn \notin Ids
  /\ Absent \notin Tokens
  /\ Renewal \notin RunTasks
  /\ MaxFaults \in Nat

VARIABLES
  registered,  \* is the host in acme_configs?
  issuers,     \* the tasks: where they are, and the certificate they hold
  tokens,      \* ChallengeStore: the tokens that are set
  asked,       \* the token of a task's order, or Absent if it needs none
  cleaning,    \* the tokens that tasks spawned after a failed poll will remove
  shared,      \* history: tokens that two orders got, or one whose removal is pending
  stranded,    \* history: tokens whose task could not tell the ACME server of them
  account,     \* account.json
  cert, key,   \* cert.pem and key.pem
  due,         \* certificates that expire within 30 days
  loaded,      \* the pair in the certificate store
  faults,
  disturbed    \* history: did tasks overlap, or was one cut off between its files?

files == <<account, cert, key>>
challenge == <<tokens, asked, cleaning, shared, stranded>>
vars == <<registered, issuers, challenge, files, due, loaded, faults, disturbed>>

-----------------------------------------------------------------------------
Issuers == RunTasks \cup {Renewal}
Files == Ids \cup {Absent, Torn}
Stages == {"idle", "check", "load", "load_key", "account", "account_write", "order", "ready", "poll",
           "finalize", "cert", "cert_write", "key", "key_write", "install"}
NoPair == [cert |-> Absent, key |-> Absent]

TypeOK ==
  /\ registered \in BOOLEAN
  /\ issuers \in [Issuers -> [stage : Stages, id : Ids \cup {Absent}]]
  /\ asked \in [Issuers -> Tokens \cup {Absent}]
  /\ \A set \in {tokens, cleaning, shared, stranded} : set \subseteq Tokens
  /\ account \in {"ok", Absent, Torn}
  /\ cert \in Files /\ key \in Files
  /\ due \subseteq Ids
  /\ loaded \in [cert : Ids \cup {Absent}, key : Ids \cup {Absent}]
  /\ faults \in 0..MaxFaults
  /\ disturbed \in BOOLEAN

Idle == [stage |-> "idle", id |-> Absent]
AllIdle == [i \in Issuers |-> Idle]

Init ==
  /\ registered = FALSE
  /\ issuers = AllIdle
  /\ asked = [i \in Issuers |-> Absent]
  /\ tokens = {} /\ cleaning = {} /\ shared = {} /\ stranded = {}
  /\ account = Absent /\ cert = Absent /\ key = Absent
  /\ due = {}
  /\ loaded = NoPair
  /\ faults = 0
  /\ disturbed = FALSE

-----------------------------------------------------------------------------
At(i, stage) == issuers[i].stage = stage
Go(i, stage, id) == issuers' = [issuers EXCEPT ![i] = [stage |-> stage, id |-> id]]
Return(i) == issuers' = [issuers EXCEPT ![i] = Idle]
Fault == faults < MaxFaults /\ faults' = faults + 1
InUse == {cert, key, loaded.cert, loaded.key} \cup {issuers[i].id : i \in Issuers}

\* spawn_acme_issue registers the host and starts a task; the renewal loop goes
\* through the registered hosts every 12 hours.
Begin(i) ==
  /\ At(i, "idle")
  /\ i = Renewal => registered
  /\ registered' = TRUE
  /\ Go(i, "check", Absent)
  /\ disturbed' = IF issuers = AllIdle THEN disturbed /\ ~(cert = key /\ loaded.cert = loaded.key)
                  ELSE TRUE
  /\ UNCHANGED <<challenge, files, due, loaded, faults>>

\* Wrong: whether the certificate is due is not looked at.
CheckExisting_any(i) ==
  /\ At(i, "check")
  /\ IF cert \in Ids /\ key # Absent
     THEN Go(i, "load", Absent)
     ELSE Go(i, "account", Absent)
  /\ UNCHANGED <<registered, challenge, files, due, loaded, faults, disturbed>>

\* issue_cert: both files exist and the certificate parses and is not due.
CheckExisting(i) ==
  /\ At(i, "check")
  /\ IF cert \in Ids \ due /\ key # Absent
     THEN Go(i, "load", Absent)
     ELSE Go(i, "account", Absent)
  /\ UNCHANGED <<registered, challenge, files, due, loaded, faults, disturbed>>

\* add_cert reads the certificate again; another task may be writing it.
ReadCert(i) ==
  /\ At(i, "load")
  /\ IF cert \in Ids THEN Go(i, "load_key", cert) ELSE Return(i)
  /\ UNCHANGED <<registered, challenge, files, due, loaded, faults, disturbed>>

\* Then the key is read and parsed. That it belongs to the certificate is not
\* checked.
LoadExisting(i) ==
  /\ At(i, "load_key")
  /\ Return(i)
  /\ loaded' = IF key \in Ids THEN [cert |-> issuers[i].id, key |-> key] ELSE loaded
  /\ UNCHANGED <<registered, challenge, files, due, faults, disturbed>>

\* The account: a file that does not parse is an error, none makes a new account.
Account(i) ==
  /\ At(i, "account")
  /\ \/ account = "ok" /\ Go(i, "order", Absent) /\ UNCHANGED account
     \/ account = Torn /\ Return(i) /\ UNCHANGED account
     \/ account = Absent /\ Go(i, "account_write", Absent) /\ account' = Torn
  /\ UNCHANGED <<registered, challenge, cert, key, due, loaded, faults, disturbed>>

WriteAccount(i) ==
  /\ At(i, "account_write")
  /\ account' = "ok"
  /\ Go(i, "order", Absent)
  /\ UNCHANGED <<registered, challenge, cert, key, due, loaded, faults, disturbed>>

\* The tokens some order or pending removal is about. (Only they are kept in shared.)
Held == cleaning \cup {asked[j] : j \in Issuers}
HeldByOthers(i) == cleaning \cup {asked[j] : j \in Issuers \ {i}}
Fresh == {tok \in Tokens : tok \notin tokens /\ tok \notin cleaning /\ \A j \in Issuers : asked[j] # tok}
OneFresh == IF Fresh = {} THEN {} ELSE {CHOOSE tok \in Fresh : TRUE}

\* A new order. If the ACME server remembers that it validated the host, there is no
\* challenge. Otherwise the token it hands out goes to the challenge store: a new one,
\* or the one of a pending authorization.
Order(i) ==
  /\ At(i, "order")
  /\ \/ Go(i, "poll", Absent) /\ UNCHANGED <<tokens, asked, shared, stranded>>
     \/ \E tok \in OneFresh \cup (Tokens \ Fresh) :
          /\ tokens' = tokens \cup {tok}
          /\ asked' = [asked EXCEPT ![i] = tok]
          /\ shared' = IF tok \in HeldByOthers(i) THEN shared \cup {tok} ELSE shared \ {tok}
          /\ stranded' = stranded \ {tok}
          /\ Go(i, "ready", Absent)
  /\ UNCHANGED <<registered, cleaning, files, due, loaded, faults, disturbed>>

Forgotten(i) == asked' = [asked EXCEPT ![i] = Absent]

\* Wrong: the token is removed as soon as the server has been told it is there.
SetReady_and_clean(i) ==
  /\ At(i, "ready")
  /\ Go(i, "poll", Absent)
  /\ tokens' = tokens \ {asked[i]}
  /\ UNCHANGED <<registered, asked, cleaning, shared, stranded, files, due, loaded, faults,
                 disturbed>>

\* The ACME server is told that the token can be fetched.
SetReady(i) ==
  /\ At(i, "ready")
  /\ Go(i, "poll", Absent)
  /\ UNCHANGED <<registered, challenge, files, due, loaded, faults, disturbed>>

\* The server cannot be told: the token stays.
SetReadyFails(i) ==
  /\ At(i, "ready")
  /\ Fault
  /\ stranded' = stranded \cup {asked[i]}
  /\ Forgotten(i)
  /\ Return(i)
  /\ UNCHANGED <<registered, tokens, cleaning, files, due, loaded, disturbed>>
  /\ shared' = shared \cap Held'

\* The server can fetch the token from the proxy, at the challenge port.
Fetched(i) == asked[i] = Absent \/ (asked[i] \in tokens /\ ChallengePort \in ListenPorts)

\* poll_ready, and the removal of the token. A shared one may be fetched for the other
\* order.
PollReady(i) ==
  /\ At(i, "poll")
  /\ Fetched(i) \/ asked[i] \in shared
  /\ tokens' = tokens \ {asked[i]}
  /\ Forgotten(i)
  /\ Go(i, "finalize", Absent)
  /\ UNCHANGED <<registered, cleaning, stranded, files, due, loaded, faults, disturbed>>
  /\ shared' = shared \cap Held'

\* The order became invalid: the token is removed, too.
PollInvalid(i) ==
  /\ At(i, "poll")
  /\ ~Fetched(i)
  /\ tokens' = tokens \ {asked[i]}
  /\ Forgotten(i)
  /\ Return(i)
  /\ UNCHANGED <<registered, cleaning, stranded, files, due, loaded, faults, disturbed>>
  /\ shared' = shared \cap Held'

\* Wrong: only a poll that ends well removes the token.
PollFailed_keeps_token(i) ==
  /\ At(i, "poll")
  /\ Fault
  /\ Forgotten(i)
  /\ Return(i)
  /\ UNCHANGED <<registered, tokens, cleaning, stranded, files, due, loaded, disturbed>>
  /\ shared' = shared \cap Held'

\* The poll failed or timed out: the removal of the token is left to a new task.
PollFailed(i) ==
  /\ At(i, "poll")
  /\ Fault
  /\ cleaning' = cleaning \cup ({asked[i]} \ {Absent})
  /\ Forgotten(i)
  /\ Return(i)
  /\ UNCHANGED <<registered, tokens, stranded, files, due, loaded, disturbed>>
  /\ shared' = shared \cap Held'

\* That task runs, whatever order the token belongs to by then.
Clean(tok) ==
  /\ tok \in cleaning
  /\ cleaning' = cleaning \ {tok}
  /\ tokens' = tokens \ {tok}
  /\ UNCHANGED <<registered, issuers, asked, stranded, files, due, loaded, faults,
                 disturbed>>
  /\ shared' = shared \cap Held'

\* A key is made, and a certificate for it is issued.
Finalize(i) ==
  /\ At(i, "finalize")
  /\ Ids \ InUse # {}
  /\ LET v == CHOOSE x \in Ids : x \notin InUse IN
       due' = due \cap InUse /\ Go(i, "cert", v)
  /\ UNCHANGED <<registered, challenge, files, loaded, faults, disturbed>>

\* cert.pem is written, then key.pem.
WriteCert(i) ==
  /\ \/ At(i, "cert") /\ cert' = Torn /\ Go(i, "cert_write", issuers[i].id)
     \/ At(i, "cert_write") /\ cert' = issuers[i].id /\ Go(i, "key", issuers[i].id)
  /\ UNCHANGED <<registered, challenge, account, key, due, loaded, faults, disturbed>>

WriteKey(i) ==
  /\ \/ At(i, "key") /\ key' = Torn /\ Go(i, "key_write", issuers[i].id)
     \/ At(i, "key_write") /\ key' = issuers[i].id /\ Go(i, "install", issuers[i].id)
  /\ UNCHANGED <<registered, challenge, account, cert, due, loaded, faults, disturbed>>

\* Wrong: the key is the one that was loaded before.
Install_keeps_key(i) ==
  /\ At(i, "install")
  /\ loaded' = [cert |-> issuers[i].id,
                key |-> IF loaded.key = Absent THEN issuers[i].id ELSE loaded.key]
  /\ Return(i)
  /\ UNCHANGED <<registered, challenge, files, due, faults, disturbed>>

\* add_cert_from_pem, with what the server sent and not with the files.
Install(i) ==
  /\ At(i, "install")
  /\ loaded' = [cert |-> issuers[i].id, key |-> issuers[i].id]
  /\ Return(i)
  /\ UNCHANGED <<registered, challenge, files, due, faults, disturbed>>

\* The certificate is on its way to disk and the key is not there yet.
Between == {"cert_write", "key", "key_write"}

\* Any other error: issue_cert returns and leaves everything as it is.
Fail(i) ==
  /\ issuers[i].stage \in {"account", "order", "finalize", "account_write",
                           "cert", "cert_write", "key", "key_write"}
  /\ Fault
  /\ disturbed' = (disturbed \/ issuers[i].stage \in Between)
  /\ Return(i)
  /\ UNCHANGED <<registered, challenge, files, due, loaded>>

-----------------------------------------------------------------------------
\* Time: a certificate comes within 30 days of its end. Issuing one takes minutes.
Age(v) ==
  /\ issuers = AllIdle
  /\ v \in {cert, loaded.cert}
  /\ due' = (due \cap InUse) \cup {v}
  /\ UNCHANGED <<registered, issuers, challenge, files, loaded, faults, disturbed>>

\* The daemon ends, and is started again.
Crash ==
  /\ Fault
  /\ disturbed' = (disturbed \/ \E i \in Issuers : issuers[i].stage \in Between)
  /\ registered' = FALSE
  /\ issuers' = AllIdle
  /\ asked' = [i \in Issuers |-> Absent]
  /\ tokens' = {} /\ cleaning' = {} /\ shared' = {} /\ stranded' = {}
  /\ loaded' = NoPair
  /\ UNCHANGED <<files, due>>

Issue(i) ==
  \/ CheckExisting(i) \/ ReadCert(i) \/ LoadExisting(i)
  \/ Account(i) \/ WriteAccount(i)
  \/ Order(i) \/ SetReady(i) \/ PollReady(i) \/ PollInvalid(i)
  \/ Finalize(i)
  \/ WriteCert(i) \/ WriteKey(i) \/ Install(i)

Next ==
  \/ \E i \in Issuers : Begin(i) \/ Issue(i) \/ SetReadyFails(i) \/ PollFailed(i) \/ Fail(i)
  \/ \E tok \in Tokens : Clean(tok)
  \/ \E v \in Ids : Age(v)
  \/ Crash

Spec == Init /\ [][Next]_vars

\* The renewal loop keeps ticking, and a task that can go on does. (Failures are
\* bounded: none repeats forever.)
FairSpec ==
  /\ Spec
  /\ WF_vars(Begin(Renewal))
  /\ \A i \in Issuers : WF_vars(Issue(i))
  /\ \A tok \in Tokens : WF_vars(Clean(tok))

-----------------------------------------------------------------------------
(* Properties. *)

Matches(pair) == pair.cert = pair.key
Served == loaded.cert \in Ids \ due /\ Matches(loaded)

\* A token is there as long as the ACME server may ask for it, whatever other tasks
\* remove, now or left over from an order that failed. The exception is a token that
\* the server gave to a second order before the first was done with it.
ChallengeAnswered ==
  \A i \in Issuers :
    At(i, "poll") => asked[i] = Absent \/ asked[i] \in tokens \/ asked[i] \in shared

\* A token that was set is removed in the end, however its order ends, by its task or
\* the one spawned for it: the proxy does not go on answering for it. The exception is
\* one that the ACME server could not be told of.
TokensRemoved == \A tok \in Tokens : (tok \in tokens) ~> (tok \notin tokens \/ tok \in stranded)

\* What nothing but the next expiry repairs: an account file that was cut off, and a
\* certificate that is not due next to a key that is not its own.
Writing == {"account_write", "cert", "install"} \cup Between
Stuck ==
  /\ \A i \in Issuers : issuers[i].stage \notin Writing
  /\ account = Torn \/ (cert \in Ids \ due /\ key \notin {cert, Absent})

\* "automatic Let's Encrypt certificates via ACME (HTTP-01)": a registered host is
\* served, and served again after each certificate came close to its end, with a
\* certificate that is not due and the key that belongs to it, through failures and
\* while tasks overlap, unless a file was left that no task repairs.
EventuallyServed == registered ~> (Served \/ ~registered \/ Stuck)

\* The certificate that is served goes with its key. Only tasks that overlap, or one
\* that was cut off between its two files, can make it otherwise.
PairMatches == Matches(loaded) \/ disturbed
====
