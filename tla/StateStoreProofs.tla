---- MODULE StateStoreProofs ----
(***************************************************************************)
(* Proofs about StateStore, for every set of names and configurations and  *)
(* any number of saves, starts, failures and crashes: nothing comes back   *)
(* from the past, migration loses nothing, the last save is restored, and  *)
(* the store implements SavedList.                                         *)
(***************************************************************************)
EXTENDS StateStore, TLAPS

-----------------------------------------------------------------------------
\* The lists that were to be saved and are not known to be: those of SavedList.
Pending == tried \cup (IF json \in {NoFile, Empty} THEN {} ELSE {json})

\* state.json is what it was at the beginning, or gone.
JsonIsOld == json \in {NoFile, old}

\* A save in progress is pending, and the keys it does not have to touch any more
\* are as its list wants them.
JobInOrder ==
  Saving =>
    /\ job.list \in Pending
    /\ \/ job.kind = "migrate" /\ phase = "boot" /\ job.list = json
       \/ job.kind \in {"save", "kill"} /\ phase = "up" /\ job.list \in tried /\ loaded = NoFile
    /\ job.delete # {} => job.put = Keys(job.list)
    /\ \A n \in Names \ job.delete :
         db[n] = IF n \in Keys(job.list) \ job.put THEN job.list[n] ELSE Absent

\* What a scan sees is what is on disk, changed by the writes that are not there
\* yet, of which the last one of each key counts.
Replay ==
  \A n \in Names :
    \/ disk[n] = db[n] /\ \A i \in 1..Len(log) : log[i][1] # n
    \/ \E i \in 1..Len(log) :
         /\ log[i][1] = n /\ log[i][2] = db[n]
         /\ \A j \in 1..Len(log) : j > i => log[j][1] # n

\* A configuration that is not on disk yet is of a save that is pending.
LogIsPending ==
  \A i \in 1..Len(log) :
    log[i][2] = Absent \/ \E list \in Pending : log[i][2] = list[log[i][1]]

\* Without a save that is pending there is nothing to write.
Settled == Pending = {} => log = <<>> /\ ~Saving

\* Before the first save of a user, a list that is not in state.json (any more) is
\* on disk.
Migrated == saves = 0 => tried = {} /\ (json \in {NoFile, Empty} => disk = old)

\* The inductive invariant.
Inv ==
  /\ TypeOK /\ JsonIsOld /\ JobInOrder /\ Replay /\ LogIsPending /\ Settled
  /\ NoResurrection /\ Migrated /\ RestoresLastSave

-----------------------------------------------------------------------------
\* The store.

\* A save is a record with fields, unlike no save.
LEMMA JobType ==
  ASSUME TypeOK, Saving
  PROVE  job \in [kind : {"migrate", "save", "kill"}, list : Lists,
                  delete : SUBSET Names, put : SUBSET Names]
  BY DEF TypeOK, Saving

\* With an empty log, a scan sees what is on disk.
LEMMA FlushedIsOnDisk ==
  ASSUME TypeOK, Replay, log = <<>>
  PROVE  db = disk
<1>1. 1..Len(log) = {}
  OBVIOUS
<1>2. \A n \in Names : disk[n] = db[n]
  BY <1>1 DEF Replay
<1> QED BY <1>2 DEF TypeOK, Lists

\* A write is seen at once and is the last one of its key.
LEMMA WriteKeepsReplay ==
  ASSUME TypeOK, Replay, NEW n \in Names, NEW v \in Versions \cup {Absent}, Write(n, v)
  PROVE  /\ db' \in Lists /\ log' \in Seq(Names \X (Versions \cup {Absent}))
         /\ Replay'
         /\ log' # <<>>
         /\ db' = [db EXCEPT ![n] = v]
         /\ \A i \in 1..Len(log') : \/ i \in 1..Len(log) /\ log'[i] = log[i]
                                    \/ log'[i] = <<n, v>>
<1>1. /\ log \in Seq(Names \X (Versions \cup {Absent}))
      /\ log' = Append(log, <<n, v>>)
      /\ db \in Lists /\ db' = [db EXCEPT ![n] = v]
      /\ disk' = disk
  BY DEF TypeOK, Write
<1>2. /\ log' \in Seq(Names \X (Versions \cup {Absent}))
      /\ Len(log) \in Nat /\ Len(log') = Len(log) + 1
      /\ \A i \in 1..Len(log) : log'[i] = log[i]
      /\ log'[Len(log) + 1] = <<n, v>>
  BY <1>1
<1>3. db' \in Lists /\ db'[n] = v /\ \A m \in Names \ {n} : db'[m] = db[m]
  BY <1>1 DEF Lists
<1>4. ASSUME NEW m \in Names
      PROVE  \/ disk'[m] = db'[m] /\ \A i \in 1..Len(log') : log'[i][1] # m
             \/ \E i \in 1..Len(log') :
                  /\ log'[i][1] = m /\ log'[i][2] = db'[m]
                  /\ \A j \in 1..Len(log') : j > i => log'[j][1] # m
  <2>1. CASE m = n
    BY <1>2, <1>3, <2>1
  <2>2. CASE m # n
    <3>1. CASE disk[m] = db[m] /\ \A i \in 1..Len(log) : log[i][1] # m
      BY <1>1, <1>2, <1>3, <2>2, <3>1
    <3>2. ASSUME NEW i \in 1..Len(log), log[i][1] = m, log[i][2] = db[m],
                 \A j \in 1..Len(log) : j > i => log[j][1] # m
          PROVE  /\ i \in 1..Len(log')
                 /\ log'[i][1] = m /\ log'[i][2] = db'[m]
                 /\ \A j \in 1..Len(log') : j > i => log'[j][1] # m
      <4>1. i \in 1..Len(log') /\ log'[i] = log[i] /\ db'[m] = db[m]
        BY <1>2, <1>3, <2>2
      <4>2. ASSUME NEW j \in 1..Len(log'), j > i PROVE log'[j][1] # m
        <5>1. CASE j = Len(log) + 1
          BY <1>2, <2>2, <5>1
        <5>2. CASE j # Len(log) + 1
          <6>1. j \in 1..Len(log) /\ log'[j] = log[j]
            BY <1>2, <5>2
          <6> QED BY <3>2, <4>2, <6>1
        <5> QED BY <5>1, <5>2
      <4> QED BY <3>2, <4>1, <4>2
    <3> QED BY <3>1, <3>2 DEF Replay
  <2> QED BY <2>1, <2>2
<1> QED BY <1>1, <1>2, <1>3, <1>4 DEF Replay

\* Writing the oldest entry back changes nothing for a scan.
LEMMA WriteBackKeepsReplay ==
  ASSUME TypeOK, Replay, WriteBack
  PROVE  /\ disk' \in Lists /\ log' \in Seq(Names \X (Versions \cup {Absent}))
         /\ Replay'
         /\ log # <<>>
         /\ 1 \in 1..Len(log)
         /\ disk' = [disk EXCEPT ![log[1][1]] = log[1][2]]
         /\ \A i \in 1..Len(log') : i + 1 \in 1..Len(log) /\ log'[i] = log[i + 1]
<1>1. /\ log \in Seq(Names \X (Versions \cup {Absent})) /\ log # <<>>
      /\ log' = Tail(log)
      /\ disk \in Lists /\ disk' = [disk EXCEPT ![log[1][1]] = log[1][2]]
      /\ db' = db
  BY DEF TypeOK, WriteBack
<1>2. /\ log' \in Seq(Names \X (Versions \cup {Absent}))
      /\ Len(log) \in Nat /\ Len(log) >= 1 /\ Len(log') = Len(log) - 1
      /\ \A i \in 1..Len(log') : log'[i] = log[i + 1]
      /\ log[1][1] \in Names /\ log[1][2] \in Versions \cup {Absent}
  BY <1>1
<1>3. /\ disk' \in Lists /\ disk'[log[1][1]] = log[1][2]
      /\ \A m \in Names \ {log[1][1]} : disk'[m] = disk[m]
  BY <1>1, <1>2 DEF Lists
<1>4. ASSUME NEW m \in Names
      PROVE  \/ disk'[m] = db'[m] /\ \A i \in 1..Len(log') : log'[i][1] # m
             \/ \E i \in 1..Len(log') :
                  /\ log'[i][1] = m /\ log'[i][2] = db'[m]
                  /\ \A j \in 1..Len(log') : j > i => log'[j][1] # m
  <2>1. CASE disk[m] = db[m] /\ \A i \in 1..Len(log) : log[i][1] # m
    BY <1>1, <1>2, <1>3, <2>1
  <2>2. ASSUME NEW i \in 1..Len(log), log[i][1] = m, log[i][2] = db[m],
               \A j \in 1..Len(log) : j > i => log[j][1] # m
        PROVE  \/ disk'[m] = db'[m] /\ \A k \in 1..Len(log') : log'[k][1] # m
               \/ \E k \in 1..Len(log') :
                    /\ log'[k][1] = m /\ log'[k][2] = db'[m]
                    /\ \A j \in 1..Len(log') : j > k => log'[j][1] # m
    <3>1. CASE i = 1
      <4>1. disk'[m] = db'[m]
        BY <1>1, <1>3, <2>2, <3>1
      <4>2. \A k \in 1..Len(log') : log'[k][1] # m
        BY <1>2, <2>2, <3>1
      <4> QED BY <4>1, <4>2
    <3>2. CASE i # 1
      <4>1. /\ i - 1 \in 1..Len(log')
            /\ log'[i - 1] = log[i]
            /\ \A j \in 1..Len(log') : j > i - 1 => log'[j][1] # m
        <5>1. i - 1 \in 1..Len(log') /\ (i - 1) + 1 = i
          BY <1>2, <3>2
        <5>2. \A j \in 1..Len(log') : j > i - 1 => j + 1 \in 1..Len(log) /\ j + 1 > i
          BY <1>2
        <5> QED BY <1>2, <2>2, <5>1, <5>2
      <4> QED BY <1>1, <2>2, <4>1
    <3> QED BY <3>1, <3>2
  <2> QED BY <2>1, <2>2 DEF Replay
<1>5. Replay'
  BY <1>4 DEF Replay
<1>6. 1 \in 1..Len(log) /\ \A i \in 1..Len(log') : i + 1 \in 1..Len(log)
  BY <1>2
<1> QED BY <1>1, <1>2, <1>3, <1>5, <1>6

\* What is seen without being on disk is of a save that is pending.
LEMMA SeenIsPending ==
  ASSUME TypeOK, Replay, LogIsPending, NEW n \in Names
  PROVE  \/ db[n] \in {disk[n], Absent}
         \/ \E list \in Pending : db[n] = list[n]
  BY DEF Replay, LogIsPending

\* A pending list is one that was tried, or the one of state.json.
LEMMA PendingIsKnown ==
  ASSUME TypeOK, JsonIsOld
  PROVE  \A list \in Pending : list \in Lists /\ (list \in tried \/ list = old)
  BY DEF TypeOK, JsonIsOld, Pending

-----------------------------------------------------------------------------
\* The invariant.

\* Initially nothing is stored, and state.json may be there.
LEMMA InitInv == Init => Inv
<1> SUFFICES ASSUME Init PROVE Inv
  OBVIOUS
<1>1. Empty \in Lists /\ \A n \in Names : Empty[n] = Absent
  BY DEF Empty, Lists
<1>2. TypeOK
  BY <1>1, StoreAssumption DEF Init, TypeOK
<1>3. JsonIsOld /\ JobInOrder
  BY DEF Init, JsonIsOld, JobInOrder, Saving
<1>4. Replay /\ LogIsPending
  <2>1. 1..Len(log) = {}
    BY DEF Init
  <2> QED BY <2>1 DEF Init, Replay, LogIsPending
<1>5. Settled
  BY DEF Init, Settled, Saving
<1>6. NoResurrection
  BY <1>1 DEF Init, NoResurrection
<1>7. Migrated /\ RestoresLastSave
  BY DEF Init, Migrated, RestoresLastSave
<1> QED BY <1>2, <1>3, <1>4, <1>5, <1>6, <1>7 DEF Inv

\* The first write of the log reaches the disk: a scan still sees what it saw.
LEMMA WriteBackInv ==
  ASSUME Inv, WriteBack
  PROVE  Inv'
<1> USE DEF Inv
<1>1. /\ disk' \in Lists /\ log' \in Seq(Names \X (Versions \cup {Absent}))
      /\ Replay'
      /\ log # <<>> /\ 1 \in 1..Len(log)
      /\ disk' = [disk EXCEPT ![log[1][1]] = log[1][2]]
      /\ \A i \in 1..Len(log') : i + 1 \in 1..Len(log) /\ log'[i] = log[i + 1]
  BY WriteBackKeepsReplay
<1>2. /\ UNCHANGED <<phase, db, json, job, saves, lives, old, last, tried, loaded>>
      /\ Pending' = Pending
  BY DEF WriteBack, history, Pending
<1>3. TypeOK' /\ JsonIsOld'
  BY <1>1, <1>2 DEF TypeOK, JsonIsOld
<1>4. JobInOrder'
  BY <1>2 DEF JobInOrder, Saving, Keys
<1>5. LogIsPending'
  BY <1>1, <1>2 DEF LogIsPending
<1>6. Pending # {} /\ Settled'
  BY <1>1, <1>2 DEF Settled
<1>7. NoResurrection'
  <2>1. log[1][2] = Absent \/ \E list \in Pending : log[1][2] = list[log[1][1]]
    BY <1>1 DEF LogIsPending
  <2>2. \/ log[1][2] \in {Absent, old[log[1][1]]}
        \/ \E list \in tried : log[1][2] = list[log[1][1]]
    BY <2>1, PendingIsKnown
  <2>3. \A n \in Names : disk'[n] = disk[n] \/ (n = log[1][1] /\ disk'[n] = log[1][2])
    BY <1>1 DEF TypeOK, Lists
  <2> QED BY <1>2, <2>2, <2>3 DEF NoResurrection
<1>8. tried # {} \/ (json \notin {NoFile, Empty} /\ old # Empty)
  BY <1>6 DEF Pending, JsonIsOld
<1>9. Migrated' /\ RestoresLastSave'
  BY <1>2, <1>8 DEF Migrated, RestoresLastSave
<1> QED BY <1>1, <1>3, <1>4, <1>5, <1>6, <1>7, <1>9

\* One write of a save.
LEMMA SaveWriteInv ==
  ASSUME Inv, NEW n \in Names, DeleteKey(n) \/ PutKey(n)
  PROVE  Inv'
<1> USE DEF Inv
<1>1. /\ Saving
      /\ job \in [kind : {"migrate", "save", "kill"}, list : Lists,
                  delete : SUBSET Names, put : SUBSET Names]
      /\ UNCHANGED <<phase, disk, json, saves, lives, old, last, tried, loaded>>
      /\ Pending' = Pending
      /\ job.list \in Pending
  BY JobType DEF DeleteKey, PutKey, Write, history, Pending, JobInOrder
<1> DEFINE v == IF DeleteKey(n) THEN Absent ELSE job.list[n]
<1>2. v \in Versions \cup {Absent} /\ Write(n, v)
  BY <1>1 DEF DeleteKey, PutKey, Lists
<1> HIDE DEF v
<1>3. /\ db' \in Lists /\ log' \in Seq(Names \X (Versions \cup {Absent}))
      /\ Replay' /\ log' # <<>>
      /\ db' = [db EXCEPT ![n] = v]
      /\ \A i \in 1..Len(log') : \/ i \in 1..Len(log) /\ log'[i] = log[i]
                                 \/ log'[i] = <<n, v>>
  BY <1>2, WriteKeepsReplay
<1>4. /\ job' \in [kind : {"migrate", "save", "kill"}, list : Lists,
                   delete : SUBSET Names, put : SUBSET Names]
      /\ job'.kind = job.kind /\ job'.list = job.list
  BY <1>1 DEF DeleteKey, PutKey
<1>5. TypeOK' /\ JsonIsOld'
  BY <1>1, <1>3, <1>4 DEF TypeOK, JsonIsOld
<1>6. JobInOrder'
  <2>1. db \in Lists
    BY DEF TypeOK
  <2>2. job.delete # {} => job.put = Keys(job.list)
    BY <1>1 DEF JobInOrder
  <2>3. \A m \in Names \ job.delete :
          db[m] = IF m \in Keys(job.list) \ job.put THEN job.list[m] ELSE Absent
    BY <1>1 DEF JobInOrder
  <2>4. \A m \in Names : db'[m] = IF m = n THEN v ELSE db[m]
    BY <1>3, <2>1 DEF Lists
  <2>5. CASE DeleteKey(n)
    <3>1. v = Absent /\ n \in job.delete /\ job'.delete = job.delete \ {n} /\ job'.put = job.put
      BY <1>1, <2>5 DEF DeleteKey, v
    <3>2. job'.delete # {} => job'.put = Keys(job'.list)
      BY <1>4, <2>2, <3>1 DEF Keys
    <3>3. \A m \in Names \ job'.delete :
            db'[m] = IF m \in Keys(job'.list) \ job'.put THEN job'.list[m] ELSE Absent
      BY <1>4, <2>2, <2>3, <2>4, <3>1 DEF Keys
    <3> QED BY <1>1, <1>4, <3>2, <3>3 DEF JobInOrder, Keys
  <2>6. CASE ~DeleteKey(n)
    <3>1. /\ v = job.list[n] /\ n \in job.put /\ job.delete = {}
          /\ job'.delete = {} /\ job'.put = job.put \ {n}
      BY <1>1, <2>6 DEF PutKey, v
    <3>2. \A m \in Names :
            db'[m] = IF m \in Keys(job'.list) \ job'.put THEN job'.list[m] ELSE Absent
      BY <1>4, <2>3, <2>4, <3>1 DEF Keys
    <3> QED BY <1>1, <1>4, <3>1, <3>2 DEF JobInOrder, Keys
  <2> QED BY <2>5, <2>6
<1>7. LogIsPending'
  <2>1. v = Absent \/ v = job.list[n]
    BY DEF v
  <2>2. \A i \in 1..Len(log') :
          log'[i][2] = Absent \/ \E list \in Pending : log'[i][2] = list[log'[i][1]]
    <3> TAKE i \in 1..Len(log')
    <3>1. CASE i \in 1..Len(log) /\ log'[i] = log[i]
      BY <3>1 DEF LogIsPending
    <3>2. CASE log'[i] = <<n, v>>
      BY <1>1, <2>1, <3>2
    <3> QED BY <1>3, <3>1, <3>2
  <2> QED BY <1>1, <2>2 DEF LogIsPending
<1>8. Settled'
  BY <1>1 DEF Settled
<1>9. NoResurrection' /\ Migrated' /\ RestoresLastSave'
  BY <1>1 DEF NoResurrection, Migrated, RestoresLastSave
<1> QED BY <1>3, <1>5, <1>6, <1>7, <1>8, <1>9

\* A save that is done is on disk, exactly.
LEMMA DoneIsStored ==
  ASSUME Inv, Saving, Flushed
  PROVE  disk = job.list /\ db = job.list /\ log = <<>>
<1>1. job \in [kind : {"migrate", "save", "kill"}, list : Lists,
               delete : SUBSET Names, put : SUBSET Names]
  BY JobType DEF Inv
<1>2. \A n \in Names : db[n] = job.list[n]
  BY <1>1 DEF Inv, JobInOrder, Flushed, Keys, Lists
<1>3. db = job.list
  BY <1>1, <1>2 DEF Inv, TypeOK, Lists
<1>4. log = <<>> /\ db = disk
  BY FlushedIsOnDisk DEF Inv, Flushed
<1> QED BY <1>3, <1>4

\* The end of a save, with an error or without.
LEMMA ReturnInv ==
  ASSUME Inv, Saving, NEW ok \in BOOLEAN, ok => Flushed, Return(ok)
  PROVE  Inv'
<1> USE DEF Inv
<1>1. /\ job \in [kind : {"migrate", "save", "kill"}, list : Lists,
                  delete : SUBSET Names, put : SUBSET Names]
      /\ job' = NoJob /\ ~Saving'
      /\ UNCHANGED <<db, saves, lives, old, loaded>>
  BY JobType DEF Return, Saving, history
<1>2. ok => disk = job.list /\ db = job.list /\ log = <<>>
  BY DoneIsStored
<1>3. JobInOrder'
  BY <1>1 DEF JobInOrder
<1>4. CASE job.kind = "migrate"
  <2>1. /\ phase' = "load" /\ UNCHANGED <<last, tried, log, disk>>
        /\ json' = json \/ (ok /\ json' = NoFile)
    BY <1>4 DEF Return, RemoveJson, history
  <2>2. job.list = json /\ json # NoFile /\ json = old
    BY <1>1, <1>4, StoreAssumption DEF JobInOrder, JsonIsOld, Lists
  <2>3. TypeOK' /\ JsonIsOld'
    BY <1>1, <2>1 DEF TypeOK, JsonIsOld
  <2>4. Replay'
    BY <1>1, <2>1 DEF Replay
  <2>5. ok \/ Pending' = Pending
    BY <2>1 DEF Pending
  <2>6. LogIsPending'
    <3>1. CASE ok
      <4>1. 1..Len(log') = {}
        BY <1>2, <2>1, <3>1
      <4> QED BY <4>1 DEF LogIsPending
    <3>2. CASE ~ok
      BY <2>1, <2>5, <3>2 DEF LogIsPending
    <3> QED BY <3>1, <3>2
  <2>7. Settled'
    BY <1>1, <1>2, <2>1, <2>5 DEF Settled
  <2>8. NoResurrection' /\ RestoresLastSave'
    BY <1>1, <2>1 DEF NoResurrection, RestoresLastSave
  <2>9. Migrated'
    BY <1>1, <1>2, <2>1, <2>2 DEF Migrated
  <2> QED BY <1>3, <2>3, <2>4, <2>6, <2>7, <2>8, <2>9
<1>5. CASE job.kind \in {"save", "kill"}
  <2>1. /\ json' = json
        /\ last' = (IF ok THEN job.list ELSE last)
        /\ tried' = (IF ok THEN {} ELSE tried)
        /\ phase' \in {"up", "closed"}
    BY <1>1, <1>5 DEF Return, JobInOrder
  <2>2. (log' = <<>> /\ disk' = db) \/ (log' = log /\ disk' = disk)
    BY <1>5 DEF Return
  <2>3. TypeOK' /\ JsonIsOld'
    <3>1. disk' \in Lists /\ log' \in Seq(Names \X (Versions \cup {Absent}))
      <4>1. CASE log' = <<>> /\ disk' = db
        BY <4>1 DEF TypeOK
      <4>2. CASE log' = log /\ disk' = disk
        BY <4>2 DEF TypeOK
      <4> QED BY <2>2, <4>1, <4>2
    <3>2. last' \in Lists /\ tried' \subseteq Lists
      BY <1>1, <2>1 DEF TypeOK
    <3> QED BY <1>1, <2>1, <3>1, <3>2 DEF TypeOK, JsonIsOld
  <2>4. Replay'
    <3>1. CASE log' = <<>> /\ disk' = db
      <4>1. 1..Len(log') = {}
        BY <3>1
      <4> QED BY <1>1, <3>1, <4>1 DEF Replay
    <3>2. CASE log' = log /\ disk' = disk
      BY <1>1, <3>2 DEF Replay
    <3> QED BY <2>2, <3>1, <3>2
  <2>5. ~ok => Pending' = Pending
    BY <2>1 DEF Pending
  <2>6. LogIsPending'
    <3>1. CASE log' = <<>>
      <4>1. 1..Len(log') = {}
        BY <3>1
      <4> QED BY <4>1 DEF LogIsPending
    <3>2. CASE log' # <<>>
      BY <1>2, <2>2, <2>5, <3>2 DEF LogIsPending
    <3> QED BY <3>1, <3>2
  <2>7. tried # {} /\ job.list \in tried /\ loaded = NoFile
    BY <1>5 DEF JobInOrder
  <2>8. Settled'
    <3>1. CASE ok
      BY <1>1, <1>2, <2>2, <3>1 DEF Settled
    <3>2. CASE ~ok
      BY <2>1, <2>5, <2>7, <3>2 DEF Settled, Pending
    <3> QED BY <3>1, <3>2
  <2>9. NoResurrection'
    <3>1. CASE ok
      BY <1>1, <1>2, <2>1, <2>2, <3>1 DEF NoResurrection
    <3>2. CASE ~ok
      <4>1. \A n \in Names : \/ db[n] \in {disk[n], Absent, old[n]}
                             \/ \E list \in tried : db[n] = list[n]
        BY SeenIsPending, PendingIsKnown
      <4>2. \A n \in Names : disk[n] \in {Absent, last[n], old[n]} \cup {list[n] : list \in tried}
        BY DEF NoResurrection
      <4>3. \A n \in Names : db[n] \in {Absent, last[n], old[n]} \cup {list[n] : list \in tried}
        BY <4>1, <4>2
      <4> QED BY <1>1, <2>1, <2>2, <3>2, <4>2, <4>3 DEF NoResurrection
    <3> QED BY <3>1, <3>2
  <2>10. Migrated'
    BY <1>1, <2>7 DEF Migrated
  <2>11. RestoresLastSave'
    BY <1>1, <1>2, <2>1, <2>2, <2>7 DEF RestoresLastSave
  <2> QED BY <1>3, <2>3, <2>4, <2>6, <2>8, <2>9, <2>10, <2>11
<1> QED BY <1>1, <1>4, <1>5

\* A daemon starts, and looks for state.json.
LEMMA OpenInv ==
  ASSUME Inv, Open \/ migrate_json_to_slatedb
  PROVE  Inv'
<1> USE DEF Inv
<1>1. UNCHANGED <<db, log, disk, saves, old, last, tried, loaded>>
  BY DEF Open, migrate_json_to_slatedb, history
<1>2. Empty \in Lists /\ NoFile \notin Lists
  BY StoreAssumption DEF Empty, Lists
<1>3. json' = json \/ (json = Empty /\ json' = NoFile)
  BY DEF Open, migrate_json_to_slatedb, RemoveJson
<1>4. Pending' = Pending
  BY <1>1, <1>2, <1>3 DEF Pending
<1>5. \/ job' = job /\ (Open \/ ~Saving)
      \/ /\ migrate_json_to_slatedb /\ job' = Save("migrate", json) /\ ~Saving
         /\ json' = json /\ json \notin {NoFile, Empty} /\ phase' = "boot"
  BY DEF Open, migrate_json_to_slatedb, Saving
<1>6. Save("migrate", json) \in [kind : {"migrate", "save", "kill"}, list : {json},
                                 delete : SUBSET Names, put : SUBSET Names]
  BY DEF Save, Keys
<1>7. TypeOK'
  <2>1. job' \in {NoJob} \cup [kind : {"migrate", "save", "kill"}, list : Lists,
                               delete : SUBSET Names, put : SUBSET Names]
    BY <1>5, <1>6 DEF TypeOK
  <2>2. phase' \in {"down", "boot", "load", "up", "closed"} /\ lives' \in 0..MaxLives
    BY StoreAssumption DEF TypeOK, Open, migrate_json_to_slatedb
  <2> QED BY <1>1, <1>3, <2>1, <2>2 DEF TypeOK
<1>8. JsonIsOld' /\ Replay' /\ LogIsPending'
  BY <1>1, <1>3, <1>4 DEF JsonIsOld, Replay, LogIsPending
<1>9. JobInOrder'
  <2>1. CASE job' = job /\ ~Saving
    BY <2>1 DEF JobInOrder, Saving
  <2>2. CASE Open /\ job' = job
    <3>1. ~Saving
      BY <2>2 DEF Open, JobInOrder
    <3> QED BY <2>2, <3>1 DEF JobInOrder, Saving
  <2>3. CASE /\ migrate_json_to_slatedb /\ job' = Save("migrate", json) /\ ~Saving
             /\ json' = json /\ json \notin {NoFile, Empty} /\ phase' = "boot"
    <3>1. /\ job'.kind = "migrate" /\ job'.list = json /\ job'.delete = Keys(db)
          /\ job'.put = Keys(json)
      BY <2>3 DEF Save
    <3>2. json \in Pending /\ json \in Lists
      BY <2>3 DEF Pending, TypeOK
    <3>3. \A n \in Names \ Keys(db) : db[n] = Absent
      BY DEF Keys
    <3> QED BY <1>1, <1>4, <2>3, <3>1, <3>2, <3>3 DEF JobInOrder, Keys
  <2> QED BY <1>5, <2>1, <2>2, <2>3
<1>10. Settled'
  BY <1>1, <1>4, <1>5 DEF Settled, Saving, Pending
<1>11. NoResurrection' /\ Migrated' /\ RestoresLastSave'
  BY <1>1, <1>3 DEF NoResurrection, Migrated, RestoresLastSave
<1> QED BY <1>7, <1>8, <1>9, <1>10, <1>11

\* The daemon loads what it can read.
LEMMA LoadInv ==
  ASSUME Inv, load
  PROVE  Inv'
<1> USE DEF Inv
<1>1. /\ UNCHANGED <<db, log, disk, json, job, saves, lives, old, last, tried>>
      /\ phase = "load" /\ phase' = "up" /\ Pending' = Pending
  BY DEF load, Pending
<1>2. loaded' \in Lists /\ \A n \in Names : loaded'[n] \in {Absent, db[n]}
  BY DEF load, TypeOK, Lists
<1>3. ~Saving
  BY <1>1 DEF JobInOrder
<1>4. TypeOK' /\ JsonIsOld' /\ JobInOrder' /\ Settled'
  BY <1>1, <1>2, <1>3 DEF TypeOK, JsonIsOld, JobInOrder, Settled, Saving
<1>5. Replay' /\ LogIsPending' /\ NoResurrection' /\ Migrated'
  BY <1>1 DEF Replay, LogIsPending, NoResurrection, Migrated
<1>6. RestoresLastSave'
  <2>1. CASE tried = {} /\ old = Empty
    <3>1. Pending = {}
      BY <2>1 DEF Pending, JsonIsOld
    <3>2. db = disk /\ disk = last
      BY <2>1, <3>1, FlushedIsOnDisk DEF Settled, RestoresLastSave
    <3> QED BY <1>1, <1>2, <3>2 DEF RestoresLastSave
  <2>2. CASE ~(tried = {} /\ old = Empty)
    BY <1>1, <2>2 DEF RestoresLastSave
  <2> QED BY <2>1, <2>2
<1> QED BY <1>4, <1>5, <1>6

\* A user saves, or kills the daemon.
LEMMA BeginSaveInv ==
  ASSUME Inv, NEW kind \in {"save", "kill"}, NEW list \in Lists, BeginSave(kind, list)
  PROVE  Inv'
<1> USE DEF Inv
<1>1. /\ UNCHANGED <<phase, db, log, disk, json, lives, old, last>>
      /\ saves' = saves + 1 /\ saves' \in 0..MaxSaves /\ saves' # 0
      /\ tried' = tried \cup {list} /\ loaded' = NoFile
      /\ phase = "up"
  BY StoreAssumption DEF BeginSave, TypeOK
<1>2. /\ job' = [kind |-> kind, list |-> list, delete |-> Keys(db), put |-> Keys(list)]
  BY DEF BeginSave, Save
<1>3. Pending \subseteq Pending' /\ list \in Pending' /\ tried' # {}
  BY <1>1 DEF Pending
<1>4. TypeOK' /\ JsonIsOld'
  <2>1. job' \in [kind : {"migrate", "save", "kill"}, list : Lists,
                  delete : SUBSET Names, put : SUBSET Names]
    BY <1>2 DEF Keys
  <2> QED BY <1>1, <2>1 DEF TypeOK, JsonIsOld
<1>5. JobInOrder'
  <2>1. \A n \in Names \ Keys(db) : db[n] = Absent
    BY DEF Keys
  <2> QED BY <1>1, <1>2, <1>3, <2>1 DEF JobInOrder, Keys
<1>6. Replay' /\ LogIsPending'
  BY <1>1, <1>3 DEF Replay, LogIsPending
<1>7. Settled' /\ Migrated' /\ RestoresLastSave'
  BY <1>1, <1>3 DEF Settled, Migrated, RestoresLastSave
<1>8. NoResurrection'
  BY <1>1 DEF NoResurrection
<1> QED BY <1>4, <1>5, <1>6, <1>7, <1>8

\* The daemon ends, and what was not written back is lost.
LEMMA EndInv ==
  ASSUME Inv, End
  PROVE  Inv'
<1> USE DEF Inv
<1>1. /\ UNCHANGED <<disk, json, saves, lives, old, last, tried>>
      /\ phase' = "down" /\ db' = disk /\ log' = <<>> /\ job' = NoJob /\ loaded' = NoFile
      /\ Pending' = Pending
  BY DEF End, Pending
<1>2. 1..Len(log') = {} /\ log' \in Seq(Names \X (Versions \cup {Absent}))
  BY <1>1
<1>3. TypeOK' /\ JsonIsOld' /\ JobInOrder' /\ Settled'
  BY <1>1, <1>2 DEF TypeOK, JsonIsOld, JobInOrder, Settled, Saving
<1>4. Replay' /\ LogIsPending'
  BY <1>1, <1>2 DEF Replay, LogIsPending
<1>5. NoResurrection' /\ Migrated' /\ RestoresLastSave'
  BY <1>1 DEF NoResurrection, Migrated, RestoresLastSave
<1> QED BY <1>3, <1>4, <1>5

\* Every step keeps the invariant.
LEMMA NextInv ==
  ASSUME Inv, [Next]_vars
  PROVE  Inv'
<1>1. CASE WriteBack
  BY <1>1, WriteBackInv
<1>2. ASSUME NEW n \in Names, DeleteKey(n) \/ PutKey(n) PROVE Inv'
  BY <1>2, SaveWriteInv
<1>3. CASE SaveDone \/ SaveFailed
  BY <1>3, ReturnInv DEF SaveDone, SaveFailed
<1>4. CASE Open \/ migrate_json_to_slatedb
  BY <1>4, OpenInv
<1>5. CASE load
  BY <1>5, LoadInv
<1>6. ASSUME NEW list \in Lists, BeginSave("save", list) PROVE Inv'
  BY <1>6, BeginSaveInv
<1>7. CASE BeginSave("kill", Empty)
  BY <1>7, BeginSaveInv DEF Empty, Lists
<1>8. CASE End
  BY <1>8, EndInv
<1>9. CASE UNCHANGED vars
  BY <1>9 DEF vars, history, Inv, TypeOK, JsonIsOld, JobInOrder, Replay, LogIsPending, Settled,
     NoResurrection, Migrated, RestoresLastSave, Pending, Saving, Keys
<1> QED BY <1>1, <1>2, <1>3, <1>4, <1>5, <1>6, <1>7, <1>8, <1>9 DEF Next

-----------------------------------------------------------------------------
\* The invariant holds in every reachable state.
THEOREM InvariantHolds == Spec => []Inv
<1> QED BY InitInv, NextInv, PTL DEF Spec

\* Whatever fails or ends in the middle, an application on disk has the
\* configuration of the last acknowledged save, of one tried since, or of the
\* state.json of the beginning (state.rs, save).
THEOREM NothingComesBack == Spec => []NoResurrection
<1>1. Inv => NoResurrection
  BY DEF Inv
<1> QED BY <1>1, InvariantHolds, PTL

\* state.json is not gone before its list is on disk (state.rs,
\* migrate_json_to_slatedb).
THEOREM MigrationIsSafe == Spec => []MigrationKeepsList
<1>1. Inv => MigrationKeepsList
  BY DEF Inv, Migrated, MigrationKeepsList
<1> QED BY <1>1, InvariantHolds, PTL

\* A daemon starts from the last acknowledged save, or from the part of it that
\* could be read (state.rs, save and load).
THEOREM LastSaveIsRestored == Spec => []RestoresLastSave
<1>1. Inv => RestoresLastSave
  BY DEF Inv
<1> QED BY <1>1, InvariantHolds, PTL

-----------------------------------------------------------------------------
\* The refinement.

\* A change of what is on disk, as SavedList wants it.
LEMMA ChangesAreAllowed ==
  ASSUME disk' \in Lists, Pending # {}, Pending' = Pending,
         \A n \in Names : \/ disk'[n] \in {disk[n], Absent}
                          \/ \E list \in Pending : disk'[n] = list[n]
  PROVE  SL!Change
<1>1. disk' = [n \in Names |-> disk'[n]]
  BY DEF Lists
<1> QED BY <1>1 DEF SL!Change, Pending

\* Every step of the store is a step of SavedList, or leaves it alone.
LEMMA StepImplements ==
  ASSUME Inv, [Next]_vars
  PROVE  SL!Next \/ UNCHANGED SL!vars
<1> USE DEF Inv
<1>1. CASE WriteBack
  <2>1. /\ disk' \in Lists
        /\ log # <<>> /\ 1 \in 1..Len(log)
        /\ disk' = [disk EXCEPT ![log[1][1]] = log[1][2]]
    BY <1>1, WriteBackKeepsReplay
  <2>2. Pending' = Pending /\ Pending # {}
    BY <1>1, <2>1 DEF WriteBack, history, Pending, Settled
  <2>3. \A n \in Names : disk'[n] = disk[n] \/ (n = log[1][1] /\ disk'[n] = log[1][2])
    BY <2>1 DEF TypeOK, Lists
  <2>4. log[1][2] = Absent \/ \E list \in Pending : log[1][2] = list[log[1][1]]
    BY <2>1 DEF LogIsPending
  <2>5. SL!Change
    BY <2>1, <2>2, <2>3, <2>4, ChangesAreAllowed
  <2> QED BY <2>5 DEF SL!Next
<1>2. ASSUME NEW n \in Names, DeleteKey(n) \/ PutKey(n) PROVE UNCHANGED SL!vars
  BY <1>2 DEF DeleteKey, PutKey, Write, history, SL!vars
<1>3. CASE SaveDone
  <2>1. disk = job.list /\ db = job.list /\ job.list \in Pending /\ job.list \in Lists
    BY <1>3, DoneIsStored, JobType DEF SaveDone, JobInOrder
  <2>2. disk' = disk
    BY <1>3, <2>1 DEF SaveDone, Return
  <2>3. Pending' \subseteq Pending
    BY <1>3 DEF SaveDone, Return, RemoveJson, history, Pending
  <2>4. SL!Done(job.list)
    BY <2>1, <2>2, <2>3 DEF SL!Done, Pending
  <2> QED BY <2>1, <2>4 DEF SL!Next, SL!Lists, Lists
<1>4. CASE SaveFailed
  <2>1. /\ job.kind \in {"migrate", "save", "kill"} /\ Saving /\ job.list \in Pending
        /\ Return(FALSE) /\ UNCHANGED <<tried, json>>
    BY <1>4, JobType DEF SaveFailed, Return, history, JobInOrder
  <2>2. CASE job.kind # "kill"
    BY <2>1, <2>2 DEF Return, SL!vars
  <2>3. CASE job.kind = "kill"
    <3>1. disk' = db /\ Pending' = Pending
      BY <2>1, <2>3 DEF Return, Pending
    <3>2. SL!Change
      BY <2>1, <3>1, SeenIsPending, ChangesAreAllowed DEF TypeOK
    <3> QED BY <3>2 DEF SL!Next
  <2> QED BY <2>2, <2>3
<1>5. CASE Open \/ migrate_json_to_slatedb
  <2>1. Empty \in Lists /\ NoFile \notin Lists
    BY StoreAssumption DEF Empty, Lists
  <2>2. /\ UNCHANGED <<disk, tried>>
        /\ json' = json \/ (json = Empty /\ json' = NoFile)
    BY <1>5 DEF Open, migrate_json_to_slatedb, RemoveJson, history
  <2> QED BY <2>1, <2>2 DEF SL!vars
<1>6. CASE load \/ End
  BY <1>6 DEF load, End, SL!vars
<1>7. ASSUME NEW kind, NEW list \in Lists, BeginSave(kind, list) PROVE SL!Next
  <2>1. UNCHANGED <<disk, json>> /\ tried' = tried \cup {list}
    BY <1>7 DEF BeginSave
  <2>2. SL!Try(list)
    BY <2>1 DEF SL!Try
  <2> QED BY <2>2 DEF SL!Next, SL!Lists, Lists
<1>8. Empty \in Lists
  BY DEF Empty, Lists
<1>9. CASE UNCHANGED vars
  BY <1>9 DEF vars, history, SL!vars
<1> QED BY <1>1, <1>2, <1>3, <1>4, <1>5, <1>6, <1>7, <1>8, <1>9 DEF Next

\* The store implements SavedList: a save is acknowledged, and state.json removed,
\* only when exactly its list is on disk, and the disk changes only as far as saves
\* are pending (state.rs).
THEOREM StoreImplementsSavedList == Spec => Implements
<1>1. Init => SL!Init
  <2> SUFFICES ASSUME Init PROVE SL!Init
    OBVIOUS
  <2>1. disk = [n \in Names |-> Absent]
    BY DEF Init, Empty
  <2>2. tried \cup (IF json \in {NoFile, Empty} THEN {} ELSE {json}) = {}
        \/ \E list \in Lists :
             tried \cup (IF json \in {NoFile, Empty} THEN {} ELSE {json}) = {list}
    BY DEF Init
  <2> QED BY <2>1, <2>2 DEF SL!Init, SL!Lists, Lists
<1>2. Inv /\ [Next]_vars => [SL!Next]_(SL!vars)
  BY StepImplements
<1> QED BY <1>1, <1>2, InvariantHolds, PTL DEF Spec, Implements, SL!Spec
====
