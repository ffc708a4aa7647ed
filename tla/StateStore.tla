---- MODULE StateStore ----
(***************************************************************************)
(* The saved process list (state.rs) over SlateDB, and the migration of    *)
(* the state.json that older versions kept. Saving deletes the old keys    *)
(* one by one, puts the new ones one by one and then flushes; the daemon   *)
(* can end anywhere in between.                                            *)
(*                                                                         *)
(* SlateDB is external: writes are visible at once, reach the disk in the  *)
(* order they were made, and flush returns when all of them have.          *)
(***************************************************************************)
EXTENDS Naturals, Sequences

CONSTANTS
  Names,          \* application names, the keys
  Versions,       \* configurations an application can have
  Absent,         \* no configuration
  NoFile,         \* there is no state.json
  MaxSaves,       \* bound on the saves users ask for
  MaxLives,       \* bound on the starts of the daemon
  StoreMayFail,   \* may SlateDB return an error?
  RemoveMayFail   \* may state.json be impossible to remove?

ASSUME StoreAssumption ==
  /\ Absent \notin Versions
  /\ NoFile \notin [Names -> Versions \cup {Absent}]
  /\ MaxSaves \in Nat /\ MaxLives \in Nat
  /\ StoreMayFail \in BOOLEAN /\ RemoveMayFail \in BOOLEAN

VARIABLES
  phase,    \* "down", "boot", "load", "up" or "closed"
  db,       \* what a scan of the keys sees
  log,      \* the writes that are not on disk yet, oldest first
  disk,     \* what survives the end of the daemon
  json,     \* the list in state.json
  job,      \* the save in progress
  saves,    \* saves users asked for
  lives,    \* starts of the daemon
  old,      \* history: the list in state.json at the beginning
  last,     \* history: the list of the last save a user was told is done
  tried,    \* history: the lists saved since without success, or being saved
  loaded    \* history: the list this daemon started from; NoFile once it saves

history == <<old, last, tried, loaded>>
vars == <<phase, db, log, disk, json, job, saves, lives, history>>

-----------------------------------------------------------------------------
Lists == [Names -> Versions \cup {Absent}]
Empty == [n \in Names |-> Absent]
Keys(list) == {n \in Names : list[n] # Absent}

\* A save: why, the list, the keys still to be deleted and to be put.
NoJob == [kind |-> "none"]
Save(kind, list) ==
  [kind |-> kind, list |-> list, delete |-> Keys(db), put |-> Keys(list)]
Saving == job # NoJob

TypeOK ==
  /\ phase \in {"down", "boot", "load", "up", "closed"}
  /\ db \in Lists /\ disk \in Lists /\ old \in Lists /\ last \in Lists
  /\ log \in Seq(Names \X (Versions \cup {Absent}))
  /\ json \in Lists \cup {NoFile} /\ loaded \in Lists \cup {NoFile}
  /\ job \in {NoJob} \cup [kind : {"migrate", "save", "kill"}, list : Lists,
                           delete : SUBSET Names, put : SUBSET Names]
  /\ tried \subseteq Lists
  /\ saves \in 0..MaxSaves /\ lives \in 0..MaxLives

Init ==
  /\ phase = "down"
  /\ db = Empty /\ disk = Empty /\ log = <<>>
  /\ json \in Lists \cup {NoFile}
  /\ job = NoJob
  /\ saves = 0 /\ lives = 0
  /\ old = IF json = NoFile THEN Empty ELSE json
  /\ last = old /\ tried = {} /\ loaded = NoFile

-----------------------------------------------------------------------------
\* One write of SlateDB: at once in db, later on disk.
Write(n, v) ==
  /\ db' = [db EXCEPT ![n] = v]
  /\ log' = Append(log, <<n, v>>)
  /\ UNCHANGED disk

\* SlateDB writes its log back.
WriteBack ==
  /\ log # <<>>
  /\ disk' = [disk EXCEPT ![log[1][1]] = log[1][2]]
  /\ log' = Tail(log)
  /\ UNCHANGED <<phase, db, json, job, saves, lives, history>>

\* save: delete every key of the scan,
DeleteKey(n) ==
  /\ Saving
  /\ n \in job.delete
  /\ Write(n, Absent)
  /\ job' = [job EXCEPT !.delete = @ \ {n}]
  /\ UNCHANGED <<phase, json, saves, lives, history>>

\* then put every configuration,
PutKey(n) ==
  /\ Saving
  /\ job.delete = {}
  /\ n \in job.put
  /\ Write(n, job.list[n])
  /\ job' = [job EXCEPT !.put = @ \ {n}]
  /\ UNCHANGED <<phase, json, saves, lives, history>>

\* Wrong: flush is not waited for.
Flushed_not == job.delete = {} /\ job.put = {}

\* then wait for flush.
Flushed == job.delete = {} /\ job.put = {} /\ log = <<>>

\* remove_file, its error ignored.
RemoveJson == json' = NoFile \/ (RemoveMayFail /\ json' = json)

\* What follows when save returns. Migration removes state.json only if it
\* succeeded; kill closes the store (which writes the log back) either way.
Return(ok) ==
  /\ job' = NoJob
  /\ \/ /\ job.kind = "migrate"
        /\ phase' = "load"
        /\ IF ok THEN RemoveJson ELSE UNCHANGED json
        /\ UNCHANGED <<history, log, disk>>
     \/ /\ job.kind = "save"
        /\ last' = IF ok THEN job.list ELSE last
        /\ tried' = IF ok THEN {} ELSE tried
        /\ UNCHANGED <<phase, json, old, loaded, log, disk>>
     \/ /\ job.kind = "kill"
        /\ phase' = "closed"
        /\ log' = <<>> /\ disk' = db
        /\ last' = IF ok THEN job.list ELSE last
        /\ tried' = IF ok THEN {} ELSE tried
        /\ UNCHANGED <<json, old, loaded>>
  /\ UNCHANGED <<db, saves, lives>>

SaveDone == Saving /\ Flushed /\ Return(TRUE)

\* Wrong: an error of the store is dropped.
SaveFailed_acknowledged == StoreMayFail /\ Saving /\ Return(TRUE)

SaveFailed == StoreMayFail /\ Saving /\ Return(FALSE)

-----------------------------------------------------------------------------
\* run_daemon opens the store.
Open ==
  /\ phase = "down"
  /\ lives < MaxLives
  /\ phase' = "boot"
  /\ lives' = lives + 1
  /\ UNCHANGED <<db, log, disk, json, job, saves, history>>

\* Wrong: state.json is removed before its list has been saved.
migrate_json_to_slatedb_removes_first ==
  /\ phase = "boot" /\ ~Saving
  /\ IF json \in {NoFile, Empty}
     THEN phase' = "load" /\ UNCHANGED job
     ELSE job' = Save("migrate", json) /\ UNCHANGED phase
  /\ json' = NoFile
  /\ UNCHANGED <<db, log, disk, saves, lives, history>>

\* Then it looks for state.json: one that is empty is removed, any other is saved
\* to the store. (One that cannot be read or parsed stays, and is as good as none.)
migrate_json_to_slatedb ==
  /\ phase = "boot" /\ ~Saving
  /\ \/ json = Empty /\ RemoveJson /\ phase' = "load" /\ UNCHANGED job
     \/ json = NoFile /\ phase' = "load" /\ UNCHANGED <<json, job>>
     \/ json \notin {NoFile, Empty} /\ job' = Save("migrate", json) /\ UNCHANGED <<json, phase>>
  /\ UNCHANGED <<db, log, disk, saves, lives, history>>

\* load, after which requests are served. An error ends the scan early.
load ==
  /\ phase = "load"
  /\ phase' = "up"
  /\ \/ loaded' = db
     \/ StoreMayFail /\ \E ns \in SUBSET Keys(db) :
          loaded' = [n \in Names |-> IF n \in ns THEN db[n] ELSE Absent]
  /\ UNCHANGED <<db, log, disk, json, job, saves, lives, old, last, tried>>

\* Wrong: the keys of the applications that are gone stay.
BeginSave_keeps_old(kind, list) ==
  /\ phase = "up" /\ ~Saving
  /\ saves < MaxSaves
  /\ saves' = saves + 1
  /\ job' = [Save(kind, list) EXCEPT !.delete = {}]
  /\ tried' = tried \cup {list}
  /\ loaded' = NoFile
  /\ UNCHANGED <<phase, db, log, disk, json, lives, old, last>>

\* The Save and Kill requests: the current list, and the empty one. They hold the
\* daemon's mutex until the save returns.
BeginSave(kind, list) ==
  /\ phase = "up" /\ ~Saving
  /\ saves < MaxSaves
  /\ saves' = saves + 1
  /\ job' = Save(kind, list)
  /\ tried' = tried \cup {list}
  /\ loaded' = NoFile
  /\ UNCHANGED <<phase, db, log, disk, json, lives, old, last>>

\* The daemon ends: exit(0) after a kill, or a crash. What is not on disk is lost.
End ==
  /\ phase # "down"
  /\ phase' = "down"
  /\ db' = disk /\ log' = <<>>
  /\ job' = NoJob
  /\ loaded' = NoFile
  /\ UNCHANGED <<disk, json, saves, lives, old, last, tried>>

Next ==
  \/ WriteBack
  \/ \E n \in Names : DeleteKey(n) \/ PutKey(n)
  \/ SaveDone
  \/ SaveFailed
  \/ Open
  \/ migrate_json_to_slatedb
  \/ load
  \/ \E list \in Lists : BeginSave("save", list)
  \/ BeginSave("kill", Empty)
  \/ End

Spec == Init /\ [][Next]_vars

-----------------------------------------------------------------------------
(* Properties. *)

\* A state.json that still has to be migrated is a save that is pending.
SL == INSTANCE SavedList WITH
        stored  <- disk,
        pending <- tried \cup (IF json \in {NoFile, Empty} THEN {} ELSE {json})

\* The store implements SavedList: through failures, restarts and the migration a
\* save is acknowledged, and state.json removed, only when exactly its list is on
\* disk, and the disk changes only as far as saves are pending.
Implements == SL!Spec

\* Nothing comes back from the past: whatever fails or ends in the middle, an
\* application on disk has the configuration of the last save that was
\* acknowledged, or of one that was tried since. The one exception is the list of
\* state.json, which a migration that failed at one start puts over newer saves at
\* the next.
NoResurrection ==
  \A n \in Names : disk[n] \in {Absent, last[n], old[n]} \cup {list[n] : list \in tried}

\* Migration loses nothing: state.json is not gone before its list is on disk,
\* wherever the daemon ended on the way.
MigrationKeepsList == json = NoFile /\ saves = 0 => disk = old

\* "Save current process list for restore on reboot": the list of the last
\* acknowledged save is what survives the end of the daemon, if none was tried
\* since and there was nothing to migrate, and a daemon starts from it, or from
\* the part of it that could be read.
RestoresLastSave ==
  tried = {} /\ old = Empty =>
    /\ disk = last
    /\ loaded # NoFile => \A n \in Names : loaded[n] \in {Absent, last[n]}
====
