---- MODULE Logs ----
(***************************************************************************)
(* The log of one application (capture_output, rotate_logs and             *)
(* rotate_log_file of process.rs): the pipe of each of its children, the   *)
(* task that copies the pipe to the log file, and the rotation of the      *)
(* files every 60 seconds. stdout.log and stderr.log are alike and share   *)
(* nothing: this is one of them.                                           *)
(*                                                                         *)
(* A capture task opens the log file by its path, on a thread of its own   *)
(* and without the daemon's mutex, and keeps that file: a rotation renames *)
(* it under the task. The task of a dead child goes on until the pipe is   *)
(* empty. A task whose child prints a line that is not UTF-8 ends, and the *)
(* pipe with it; a line that cannot be written is gone.                    *)
(*                                                                         *)
(* A rotation removes the oldest file and renames the others one by one;   *)
(* the daemon may end between two renames.                                 *)
(***************************************************************************)
EXTENDS Naturals, Sequences, FiniteSets, Functions

CONSTANTS
  LOG_MAX_SIZE,     \* a file that is longer is rotated; in lines here
  LOG_MAX_ROTATED,  \* the rotated files that are kept
  MaxChildren,      \* bound on the children started
  MaxLines,         \* bound on the lines the children print, all together
  Faults,           \* what may go wrong in a capture task
  None

ASSUME LogsAssumption ==
  /\ LOG_MAX_SIZE \in Nat
  /\ LOG_MAX_ROTATED \in Nat \ {0}
  /\ MaxChildren \in Nat
  /\ MaxLines \in Nat
  /\ Faults \subseteq {"open", "read", "write"}
  /\ None \notin Nat

VARIABLES
  managed,   \* is the application in the process table?
  children,  \* how many children were started; the last one may be alive
  alive,
  printed,   \* how many lines each child printed
  pipe,      \* what each child printed and its task has not read yet
  capture,   \* what the task of each child does
  file,      \* the file it has opened
  slots,     \* the files at log, log.1, ..., log.LOG_MAX_ROTATED
  content,   \* the lines of every file that was ever made, by number
  rotating,  \* the place the rotation has emptied and fills next, or None
  lost,      \* the lines that were printed and are in no file, each for a reason
  interrupted  \* how many rotations were cut off between two renames

taskVars == <<pipe, capture, file, content, lost>>
fileVars == <<slots, rotating, interrupted>>
logVars  == <<managed, children, alive, printed, taskVars, fileVars>>

-----------------------------------------------------------------------------
Children == 1..MaxChildren
Slots == 0..LOG_MAX_ROTATED
Files == DOMAIN content
Line == [child : Children, number : Nat \ {0}]
LinesOf(s) == {s[i] : i \in DOMAIN s}
Linked == {slots[i] : i \in Slots} \ {None}

LogTypeOK ==
  /\ managed \in BOOLEAN
  /\ children \in 0..MaxChildren
  /\ alive \in BOOLEAN /\ (alive => children > 0)
  /\ printed \in [Children -> Nat]
  /\ pipe \in [Children -> Seq(Line)]
  /\ capture \in [Children -> {"none", "opening", "copying", "ended"}]
  /\ content \in Seq(Seq(Line))
  /\ file \in [Children -> Files \cup {None}]
  /\ slots \in [Slots -> Files \cup {None}]
  /\ rotating \in Slots \cup {None}
  /\ lost \subseteq Line
  /\ interrupted \in Nat

LogInit ==
  /\ managed = FALSE
  /\ children = 0
  /\ alive = FALSE
  /\ printed = [k \in Children |-> 0]
  /\ pipe = [k \in Children |-> <<>>]
  /\ capture = [k \in Children |-> "none"]
  /\ file = [k \in Children |-> None]
  /\ slots = [i \in Slots |-> None]
  /\ content = <<>>
  /\ rotating = None
  /\ lost = {}
  /\ interrupted = 0

-----------------------------------------------------------------------------
\* start_process spawns a child and its capture task, under the mutex (so not in
\* the middle of a rotation); a restart has waited for the old child to die.
start_process ==
  /\ ~alive /\ rotating = None
  /\ children < MaxChildren
  /\ children' = children + 1
  /\ alive' = TRUE
  /\ managed' = TRUE
  /\ capture' = [capture EXCEPT ![children'] = "opening"]
  /\ UNCHANGED <<printed, pipe, file, content, lost, fileVars>>

\* The child exits, crashes or is killed by a restart that fails.
ChildEnds ==
  /\ alive
  /\ alive' = FALSE
  /\ UNCHANGED <<printed, managed, children, taskVars, fileVars>>

\* The application is deleted. Its log files stay.
delete ==
  /\ managed /\ rotating = None
  /\ managed' = FALSE
  /\ alive' = FALSE
  /\ UNCHANGED <<printed, children, taskVars, fileVars>>

\* The child prints a line. Without a task nobody reads the pipe, and it is closed.
PrintLine ==
  /\ alive
  /\ FoldFunction(+, 0, printed) < MaxLines
  /\ printed' = [printed EXCEPT ![children] = @ + 1]
  /\ LET line == [child |-> children, number |-> printed'[children]] IN
       IF capture[children] = "ended"
       THEN lost' = lost \cup {line} /\ UNCHANGED pipe
       ELSE pipe' = [pipe EXCEPT ![children] = Append(@, line)] /\ UNCHANGED lost
  /\ UNCHANGED <<managed, children, alive, capture, file, content, fileVars>>

-----------------------------------------------------------------------------
\* Wrong: the file is opened with truncation.
OpenLog_truncates(k) ==
  /\ capture[k] = "opening"
  /\ IF slots[0] = None
     THEN /\ content' = Append(content, <<>>)
          /\ slots' = [slots EXCEPT ![0] = Len(content')]
     ELSE /\ content' = [content EXCEPT ![slots[0]] = <<>>]
          /\ UNCHANGED slots
  /\ file' = [file EXCEPT ![k] = slots'[0]]
  /\ capture' = [capture EXCEPT ![k] = "copying"]
  /\ UNCHANGED <<printed, managed, children, alive, pipe, lost, rotating, interrupted>>

\* capture_output opens the log to append, and creates it if there is none.
OpenLog(k) ==
  /\ capture[k] = "opening"
  /\ IF slots[0] = None
     THEN /\ content' = Append(content, <<>>)
          /\ slots' = [slots EXCEPT ![0] = Len(content')]
     ELSE UNCHANGED <<content, slots>>
  /\ file' = [file EXCEPT ![k] = slots'[0]]
  /\ capture' = [capture EXCEPT ![k] = "copying"]
  /\ UNCHANGED <<printed, managed, children, alive, pipe, lost, rotating, interrupted>>

\* The task of child k returns, and what is in the pipe is gone with it.
Abandon(k) ==
  /\ capture' = [capture EXCEPT ![k] = "ended"]
  /\ lost' = lost \cup LinesOf(pipe[k])
  /\ pipe' = [pipe EXCEPT ![k] = <<>>]
  /\ UNCHANGED <<printed, managed, children, alive, file, content, fileVars>>

\* The file cannot be opened.
OpenFails(k) == "open" \in Faults /\ capture[k] = "opening" /\ Abandon(k)

\* The next line cannot be read: it is not UTF-8. The child may go on.
ReadFails(k) == "read" \in Faults /\ capture[k] = "copying" /\ pipe[k] # <<>> /\ Abandon(k)

\* One line is read and appended to the file, wherever that file is by now. If it
\* cannot be written it is gone, and the task goes on with the next one.
CopyLine(k) ==
  /\ capture[k] = "copying"
  /\ pipe[k] # <<>>
  /\ \/ /\ content' = [content EXCEPT ![file[k]] = Append(@, Head(pipe[k]))]
        /\ UNCHANGED lost
     \/ /\ "write" \in Faults
        /\ lost' = lost \cup {Head(pipe[k])}
        /\ UNCHANGED content
  /\ pipe' = [pipe EXCEPT ![k] = Tail(@)]
  /\ UNCHANGED <<printed, managed, children, alive, capture, file, fileVars>>

Dead(k) == k < children \/ ~alive

\* Wrong: the task ends with the child, whatever is left in the pipe.
CaptureEnds_with_child(k) ==
  /\ capture[k] = "copying"
  /\ Dead(k)
  /\ capture' = [capture EXCEPT ![k] = "ended"]
  /\ UNCHANGED <<printed, managed, children, alive, pipe, file, content, lost, fileVars>>

\* The end of the pipe: the child is dead and everything was read.
CaptureEnds(k) ==
  /\ capture[k] = "copying"
  /\ Dead(k)
  /\ pipe[k] = <<>>
  /\ capture' = [capture EXCEPT ![k] = "ended"]
  /\ UNCHANGED <<printed, managed, children, alive, pipe, file, content, lost, fileVars>>

-----------------------------------------------------------------------------
\* rotate_logs, for an application of the table whose log is too long: the oldest
\* file is removed. The mutex is held until the new log is made.
rotate_log_file ==
  /\ managed /\ rotating = None
  /\ slots[0] # None
  /\ Len(content[slots[0]]) > LOG_MAX_SIZE
  /\ slots' = [slots EXCEPT ![LOG_MAX_ROTATED] = None]
  /\ rotating' = LOG_MAX_ROTATED
  /\ UNCHANGED <<managed, children, alive, printed, taskVars, interrupted>>

\* Wrong: the rotated files are not moved; the log replaces the newest of them.
Rename_log_only ==
  /\ rotating \in Slots \ {0}
  /\ slots' = IF rotating = 1 THEN [slots EXCEPT ![1] = slots[0], ![0] = None] ELSE slots
  /\ rotating' = rotating - 1
  /\ UNCHANGED <<managed, children, alive, printed, taskVars, interrupted>>

\* The next file moves into the free place; if there is none the rename fails and
\* the place stays free.
Rename ==
  /\ rotating \in Slots \ {0}
  /\ slots' = [slots EXCEPT ![rotating] = slots[rotating - 1], ![rotating - 1] = None]
  /\ rotating' = rotating - 1
  /\ UNCHANGED <<managed, children, alive, printed, taskVars, interrupted>>

\* File::create makes the new log, and truncates the one that a task may have
\* made since the rename.
CreateLog ==
  /\ rotating = 0
  /\ rotating' = None
  /\ IF slots[0] = None
     THEN /\ content' = Append(content, <<>>)
          /\ slots' = [slots EXCEPT ![0] = Len(content')]
          /\ UNCHANGED lost
     ELSE /\ content' = [content EXCEPT ![slots[0]] = <<>>]
          /\ lost' = lost \cup LinesOf(content[slots[0]])
          /\ UNCHANGED slots
  /\ UNCHANGED <<printed, managed, children, alive, pipe, capture, file, interrupted>>

\* The daemon ends, and its tasks and pipes with it, between any two steps. A child
\* that outlives it has nowhere to print to.
End ==
  /\ managed' = FALSE
  /\ alive' = FALSE
  /\ capture' = [k \in Children |-> IF k > children THEN "none" ELSE "ended"]
  /\ lost' = lost \cup UNION {LinesOf(pipe[k]) : k \in Children}
  /\ pipe' = [k \in Children |-> <<>>]
  /\ interrupted' = IF rotating \in Slots \ {0} THEN interrupted + 1 ELSE interrupted
  /\ rotating' = None
  /\ UNCHANGED <<printed, children, file, slots, content>>

-----------------------------------------------------------------------------
Task(k) == OpenLog(k) \/ OpenFails(k) \/ CopyLine(k) \/ ReadFails(k) \/ CaptureEnds(k)

LogNext ==
  \/ start_process \/ ChildEnds \/ delete \/ PrintLine
  \/ \E k \in Children : Task(k)
  \/ rotate_log_file \/ Rename \/ CreateLog
  \/ End

LogSpec == LogInit /\ [][LogNext]_logVars

\* The runtime polls every task that can go on.
FairLogSpec == LogSpec /\ \A k \in Children : WF_logVars(Task(k))

-----------------------------------------------------------------------------
(* Properties. *)

\* The files after that of child k that got a task of their own. An old child's
\* task may open its file later than the task of a newer child.
NewerFiles(k) == {file[j] : j \in {c \in Children : file[c] # None}} \cap {f \in Files : f > file[k]}

\* Recent output is not deleted: after a rotation the tasks go on writing to the
\* rotated file and the log stays empty, so it takes a task with a file of its own
\* to rotate again. A file is at most one place further back than the newer files
\* that got a task, and one for every rotation the end of a daemon cut off. In
\* particular what the last child prints goes to a file that is there, unless tasks
\* of older children were late.
RecentOutputKept ==
  \A k \in 1..children :
    LET places == Cardinality(NewerFiles(k)) + interrupted IN
      file[k] # None /\ places < LOG_MAX_ROTATED
        => \E i \in 0..(places + 1) : slots[i] = file[k]

IsPrefixOf(s, t) == Len(s) <= Len(t) /\ SubSeq(t, 1, Len(s)) = s

\* A log file never loses a line, however children, tasks and rotations interleave.
\* The exception is a file that a task made in the middle of a rotation: the
\* rotation truncates it.
FilesOnlyGrow ==
  [][\A f \in Files : \/ IsPrefixOf(content[f], content'[f])
                      \/ rotating = 0 /\ f = slots[0]]_logVars

Written == UNION {LinesOf(content[f]) : f \in Files}
Unwritten(k) == {l \in [child : {k}, number : 1..printed[k]] : l \notin lost} \ Written

\* Every line a child prints gets to a file, also after the child's death and whatever
\* rotations, restarts and deletes come in between, or is lost for one of the reasons
\* the code has: its task could not open the file, met this line or an earlier one that
\* is not UTF-8, could not write it, or ended with the daemon; or a rotation truncated the
\* file that its task had made while the rotation was going on.
OutputDrained == \A k \in Children : (Unwritten(k) # {}) ~> (Unwritten(k) = {})
====
