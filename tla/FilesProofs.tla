---- MODULE FilesProofs ----
(***************************************************************************)
(* Proofs about the files an application has on disk: its log (Logs), for  *)
(* every number of children, lines and rotated files, and the directory of *)
(* its image (Images), for every set of images, paths and updates.         *)
(***************************************************************************)
EXTENDS Logs, Images, FiniteSetTheorems, WellFoundedInduction, TLAPS

-----------------------------------------------------------------------------
(* The log. *)

\* The number of the log file, or the one it will get. The age of a file is how many
\* files were made after it.
LogNumber == IF slots[0] = None THEN Len(content) + 1 ELSE Len(content)
Age(f) == LogNumber - f

\* Between two renames the files behind the free place have moved, and the log has not.
Renaming == rotating \in Slots \ {0}
Place(i) == IF Renaming /\ i > rotating THEN i - 1 ELSE i
Reach == IF Renaming THEN LOG_MAX_ROTATED - 1 ELSE LOG_MAX_ROTATED

\* The log is the newest file. A file stands no further back than its age and the
\* rotations that were cut off account for, and is there as long as that is in reach.
SlotsInOrder ==
  /\ slots[0] \in {Len(content), None}
  /\ \A i \in Slots : slots[i] # None => Place(i) <= Age(slots[i]) + interrupted
  /\ \A f \in Files : Age(f) + interrupted <= Reach => \E i \in Slots : slots[i] = f

\* A rename moves a file into a free place, and the log that is moved is not empty.
PlaceFree ==
  Renaming => slots[rotating] = None /\ slots[0] # None /\ content[slots[0]] # <<>>

\* A child that was not started has no task, and a task has a file from when it
\* opens it, and keeps it.
TasksHaveFiles ==
  \A k \in Children :
    /\ k > children => capture[k] = "none"
    /\ capture[k] \in {"none", "opening"} => file[k] = None
    /\ capture[k] = "copying" => file[k] # None

\* What makes the rotations wait for the tasks: a file was rotated because it was
\* too long, so a task had it open to write to it.
HasTask(f) == \E k \in Children : file[k] = f
TasksWrite == \A f \in Files : f # slots[0] \/ content[f] # <<>> => HasTask(f)

LogInv == LogTypeOK /\ SlotsInOrder /\ PlaceFree /\ TasksHaveFiles /\ TasksWrite

\* Initially there is no file.
LEMMA InitLogInv == LogInit => LogInv
<1> SUFFICES ASSUME LogInit PROVE LogInv
  OBVIOUS
<1>1. Files = {} /\ Len(content) = 0
  BY DEF LogInit, Files
<1>2. 0 \in 0..MaxChildren /\ 0 \in Nat /\ 0 \in Slots
  BY LogsAssumption DEF Slots
<1>3. <<>> \in Seq(Line) /\ <<>> \in Seq(Seq(Line))
  OBVIOUS
<1>4. LogTypeOK
  <2>1. /\ printed \in [Children -> Nat] /\ pipe \in [Children -> Seq(Line)]
        /\ capture \in [Children -> {"none", "opening", "copying", "ended"}]
        /\ content \in Seq(Seq(Line))
    BY <1>2, <1>3 DEF LogInit
  <2>2. file \in [Children -> Files \cup {None}] /\ slots \in [Slots -> Files \cup {None}]
    BY DEF LogInit
  <2>3. rotating \in Slots \cup {None} /\ lost \subseteq Line /\ interrupted \in Nat
    BY DEF LogInit
  <2> QED BY <1>2, <2>1, <2>2, <2>3 DEF LogInit, LogTypeOK
<1>5. SlotsInOrder
  BY <1>1, <1>2 DEF LogInit, SlotsInOrder
<1>6. PlaceFree
  BY LogsAssumption DEF LogInit, PlaceFree, Renaming, Slots
<1>7. TasksHaveFiles /\ TasksWrite
  BY <1>1 DEF LogInit, TasksHaveFiles, TasksWrite
<1> QED BY <1>4, <1>5, <1>6, <1>7 DEF LogInv

\* What the type says of the files and their numbers.
LEMMA FileNumbers ==
  ASSUME LogTypeOK
  PROVE  /\ content \in Seq(Seq(Line)) /\ Len(content) \in Nat
         /\ Files = 1..Len(content)
         /\ 0 \in Slots /\ None \notin Files /\ None \notin Slots
         /\ Slots \subseteq Nat /\ interrupted \in Nat
         /\ slots \in [Slots -> Files \cup {None}]
         /\ file \in [Children -> Files \cup {None}]
<1>1. content \in Seq(Seq(Line))
  BY DEF LogTypeOK
<1>2. Files = 1..Len(content) /\ Len(content) \in Nat
  BY <1>1 DEF Files
<1> QED BY <1>1, <1>2, LogsAssumption DEF LogTypeOK, Slots

\* Where the files are does not depend on what is in them, unless a log that is being
\* renamed were emptied.
LEMMA SameSlots ==
  ASSUME LogInv, slots' = slots, rotating' = rotating, interrupted' = interrupted,
         Len(content') = Len(content), Files' = Files,
         Renaming => content'[slots[0]] # <<>>
  PROVE  SlotsInOrder' /\ PlaceFree'
<1>1. SlotsInOrder'
  BY DEF LogInv, SlotsInOrder, LogNumber, Age, Place, Reach, Renaming
<1>2. PlaceFree'
  BY DEF LogInv, PlaceFree, Renaming
<1> QED BY <1>1, <1>2

-----------------------------------------------------------------------------
\* A step of the children leaves the files alone.
LEMMA ChildStep ==
  ASSUME LogInv, start_process \/ ChildEnds \/ delete \/ PrintLine
  PROVE  LogInv'
<1>1. UNCHANGED <<file, content, fileVars>>
  BY DEF start_process, ChildEnds, delete, PrintLine, taskVars
<1>2. LogTypeOK'
  <2>1. CASE start_process
    <3>1. children' \in Children /\ children' \in 0..MaxChildren
      BY <2>1, LogsAssumption DEF start_process, LogInv, LogTypeOK, Children
    <3> QED BY <2>1, <1>1, <3>1 DEF start_process, LogInv, LogTypeOK, Files, fileVars
  <2>2. CASE PrintLine
    <3> DEFINE line == [child |-> children, number |-> printed'[children]]
    <3>1. CASE children \in Children
      <4>1. printed[children] + 1 \in Nat \ {0}
        BY <3>1 DEF LogInv, LogTypeOK
      <4>2. printed' \in [Children -> Nat] /\ printed'[children] = printed[children] + 1
        BY <2>2, <3>1, <4>1 DEF PrintLine, LogInv, LogTypeOK
      <4>3. line \in Line
        BY <4>1, <4>2, <3>1 DEF Line
      <4>4. /\ \/ lost' = lost \cup {line} /\ pipe' = pipe
               \/ lost' = lost /\ pipe' = [pipe EXCEPT ![children] = Append(@, line)]
            /\ UNCHANGED <<managed, children, alive, capture>>
        BY <2>2 DEF PrintLine
      <4> HIDE DEF line
      <4>5. lost' \subseteq Line
        BY <4>3, <4>4 DEF LogInv, LogTypeOK
      <4>6. pipe' \in [Children -> Seq(Line)]
        <5>1. pipe \in [Children -> Seq(Line)] /\ pipe[children] \in Seq(Line)
          BY <3>1 DEF LogInv, LogTypeOK
        <5>2. Append(pipe[children], line) \in Seq(Line)
          BY <4>3, <5>1
        <5> QED BY <4>4, <5>1, <5>2
      <4> QED BY <4>4, <1>1, <4>2, <4>5, <4>6 DEF LogInv, LogTypeOK, Files, fileVars
    <3>2. children \in Children
      <4>1. alive
        BY <2>2 DEF PrintLine
      <4>2. children \in 0..MaxChildren /\ children > 0
        BY <4>1 DEF LogInv, LogTypeOK
      <4> QED BY <4>2, LogsAssumption DEF Children
    <3> QED BY <3>1, <3>2
  <2>3. CASE ChildEnds \/ delete
    BY <2>3, <1>1 DEF ChildEnds, delete, taskVars, fileVars, LogInv, LogTypeOK, Files
  <2> QED BY <2>1, <2>2, <2>3
<1>3. TasksHaveFiles'
  <2>1. CASE start_process
    <3> SUFFICES ASSUME NEW k \in Children
                 PROVE  /\ k > children' => capture'[k] = "none"
                        /\ capture'[k] \in {"none", "opening"} => file'[k] = None
                        /\ capture'[k] = "copying" => file'[k] # None
      BY DEF TasksHaveFiles
    <3>1. children' = children + 1 /\ children \in Nat /\ k \in Nat
      BY <2>1, LogsAssumption DEF start_process, LogInv, LogTypeOK, Children
    <3>2. CASE k = children'
      <4>1. capture[k] = "none" /\ capture'[k] = "opening"
        BY <2>1, <3>1, <3>2 DEF start_process, LogInv, LogTypeOK, TasksHaveFiles
      <4> QED BY <1>1, <3>1, <3>2, <4>1 DEF LogInv, TasksHaveFiles
    <3>3. CASE k # children'
      <4>1. capture'[k] = capture[k]
        BY <2>1, <3>3 DEF start_process, LogInv, LogTypeOK
      <4> QED BY <1>1, <3>1, <4>1 DEF LogInv, TasksHaveFiles
    <3> QED BY <3>2, <3>3
  <2>2. CASE ChildEnds \/ delete \/ PrintLine
    BY <2>2, <1>1 DEF ChildEnds, delete, PrintLine, taskVars, LogInv, TasksHaveFiles
  <2> QED BY <2>1, <2>2
<1>4. SlotsInOrder' /\ PlaceFree'
  BY <1>1, SameSlots DEF LogInv, PlaceFree, Files, fileVars
<1>5. TasksWrite'
  BY <1>1 DEF LogInv, TasksWrite, HasTask, Files, fileVars
<1> QED BY <1>2, <1>3, <1>4, <1>5 DEF LogInv

-----------------------------------------------------------------------------
\* The log is made: it gets the next number, and the files behind it stay. No rename
\* is going on: the log would be there.
LEMMA LogMade ==
  ASSUME LogTypeOK, SlotsInOrder, PlaceFree, slots[0] = None,
         content' = Append(content, <<>>),
         slots' = [slots EXCEPT ![0] = Len(content')],
         rotating' \in {rotating, None}, interrupted' = interrupted
  PROVE  /\ content' \in Seq(Seq(Line))
         /\ Files' = Files \cup {slots'[0]}
         /\ slots' \in [Slots -> (Files \cup {None})']
         /\ slots'[0] \in Files' /\ slots'[0] \notin Files /\ slots'[0] # None
         /\ \A f \in Files : content'[f] = content[f]
         /\ content'[slots'[0]] = <<>>
         /\ SlotsInOrder' /\ PlaceFree'
<1> DEFINE n == Len(content) + 1
<1>1. <<>> \in Seq(Line)
  OBVIOUS
<1>2. /\ content' \in Seq(Seq(Line)) /\ Len(content') = n
      /\ \A f \in 1..Len(content) : content'[f] = content[f]
      /\ content'[n] = <<>>
  BY <1>1, FileNumbers
<1>3. Files' = 1..n /\ n \in Nat /\ n \notin Files /\ n # None
  BY <1>2, FileNumbers, LogsAssumption DEF Files
<1>4. slots' \in [Slots -> Files' \cup {None}] /\ slots'[0] = n
      /\ \A i \in Slots \ {0} : slots'[i] = slots[i]
  BY <1>2, <1>3, FileNumbers
<1>5. LogNumber = n /\ LogNumber' = n
  BY <1>2, <1>3, <1>4 DEF LogNumber
<1>6. ~Renaming /\ ~Renaming'
  BY FileNumbers DEF PlaceFree, Renaming
<1>7. SlotsInOrder'
  <2>1. \A i \in Slots : slots'[i] # None => i <= LogNumber' - slots'[i] + interrupted'
    <3> SUFFICES ASSUME NEW i \in Slots, slots'[i] # None
                 PROVE  i <= n - slots'[i] + interrupted
      BY <1>5
    <3>1. CASE i = 0
      BY <3>1, <1>3, <1>4, FileNumbers
    <3>2. CASE i # 0
      BY <3>2, <1>4, <1>5, <1>6 DEF SlotsInOrder, Age, Place
    <3> QED BY <3>1, <3>2
  <2>2. ASSUME NEW f \in Files', LogNumber' - f + interrupted' <= LOG_MAX_ROTATED
        PROVE  \E i \in Slots : slots'[i] = f
    <3>1. CASE f = n
      BY <3>1, <1>4, FileNumbers
    <3>2. CASE f # n
      <4>1. f \in Files
        BY <3>2, <1>3, FileNumbers
      <4>2. PICK i \in Slots : slots[i] = f
        BY <4>1, <2>2, <1>5, <1>6 DEF SlotsInOrder, Age, Reach
      <4>3. i # 0
        BY <4>1, <4>2, FileNumbers
      <4> QED BY <4>2, <4>3, <1>4
    <3> QED BY <3>1, <3>2
  <2> QED BY <2>1, <2>2, <1>2, <1>4, <1>6 DEF SlotsInOrder, Age, Place, Reach
<1> QED BY <1>2, <1>3, <1>4, <1>6, <1>7, FileNumbers DEF PlaceFree

\* A task opens the log, which is there or is made.
LEMMA OpenLogStep ==
  ASSUME LogInv, NEW k \in Children, OpenLog(k)
  PROVE  LogInv'
<1>1. /\ LogTypeOK /\ SlotsInOrder /\ PlaceFree /\ capture[k] = "opening" /\ ~(k > children)
      /\ UNCHANGED <<printed, managed, children, alive, pipe, lost, rotating, interrupted>>
  BY DEF LogInv, OpenLog, TasksHaveFiles
<1>2. /\ content' \in Seq(Seq(Line)) /\ Files \subseteq Files'
      /\ slots' \in [Slots -> (Files \cup {None})']
      /\ slots'[0] \in Files' /\ slots'[0] # None
      /\ SlotsInOrder' /\ PlaceFree'
      /\ \A f \in Files' \ {slots'[0]} : f \in Files /\ content'[f] = content[f] /\ f # slots[0]
  <2>1. CASE slots[0] = None
    <3>1. content' = Append(content, <<>>) /\ slots' = [slots EXCEPT ![0] = Len(content')]
      BY <2>1 DEF OpenLog
    <3>2. /\ content' \in Seq(Seq(Line)) /\ Files' = Files \cup {slots'[0]}
          /\ slots' \in [Slots -> (Files \cup {None})']
          /\ slots'[0] \in Files' /\ slots'[0] # None /\ SlotsInOrder' /\ PlaceFree'
          /\ \A f \in Files : content'[f] = content[f]
      BY <3>1, <2>1, <1>1, LogMade
    <3> HIDE <3>1
    <3> QED BY <3>2, <2>1, FileNumbers, <1>1
  <2>2. CASE slots[0] # None
    <3>1. content' = content /\ slots' = slots /\ Files' = Files
      BY <2>2 DEF OpenLog, Files
    <3>2. SlotsInOrder' /\ PlaceFree'
      BY <1>1, <3>1, SameSlots DEF LogInv, PlaceFree
    <3> QED BY <2>2, <1>1, <3>1, <3>2, FileNumbers
  <2> QED BY <2>1, <2>2
<1>3. /\ file' \in [Children -> (Files \cup {None})'] /\ file'[k] = slots'[0]
      /\ \A j \in Children \ {k} : file'[j] = file[j]
  BY <1>1, <1>2, FileNumbers DEF OpenLog
<1>4. /\ capture' \in [Children -> {"none", "opening", "copying", "ended"}]
      /\ capture'[k] = "copying"
      /\ \A j \in Children \ {k} : capture'[j] = capture[j]
  BY <1>1 DEF OpenLog, LogTypeOK
<1>5. LogTypeOK'
  BY <1>1, <1>2, <1>3, <1>4 DEF LogTypeOK
<1>6. TasksHaveFiles'
  BY <1>1, <1>2, <1>3, <1>4 DEF LogInv, TasksHaveFiles
<1>7. TasksWrite'
  <2> SUFFICES ASSUME NEW f \in Files', f # slots'[0] \/ content'[f] # <<>>
               PROVE  \E j \in Children : file'[j] = f
    BY DEF TasksWrite, HasTask
  <2>1. CASE f = slots'[0]
    BY <2>1, <1>3
  <2>2. CASE f # slots'[0]
    <3>1. f \in Files /\ f # slots[0]
      BY <2>2, <1>2
    <3>2. PICK j \in Children : file[j] = f
      BY <3>1 DEF LogInv, TasksWrite, HasTask
    <3>3. file[k] = None /\ f # None
      BY <1>1, <3>1, FileNumbers DEF LogInv, TasksHaveFiles
    <3> QED BY <1>3, <3>2, <3>3
  <2> QED BY <2>1, <2>2
<1> QED BY <1>2, <1>5, <1>6, <1>7 DEF LogInv

\* A line is appended to a file that the task has open, or lost.
LEMMA CopyLineStep ==
  ASSUME LogInv, NEW k \in Children, CopyLine(k)
  PROVE  LogInv'
<1>0. UNCHANGED <<printed, managed, children, alive, capture, file, slots, rotating, interrupted>>
  BY DEF CopyLine, fileVars
<1>1. file[k] \in Files
  BY FileNumbers DEF LogInv, CopyLine, TasksHaveFiles
<1>2. Head(pipe[k]) \in Line /\ Tail(pipe[k]) \in Seq(Line)
  BY DEF LogInv, LogTypeOK, CopyLine
<1>3. /\ content' \in Seq(Seq(Line)) /\ Len(content') = Len(content) /\ Files' = Files
      /\ \A f \in Files \ {file[k]} : content'[f] = content[f]
      /\ \A f \in Files : content[f] # <<>> => content'[f] # <<>>
  <2>1. CASE content' = content
    BY <2>1, FileNumbers DEF LogInv, Files
  <2>2. CASE content' = [content EXCEPT ![file[k]] = Append(@, Head(pipe[k]))]
    <3>1. /\ Append(content[file[k]], Head(pipe[k])) \in Seq(Line)
          /\ Append(content[file[k]], Head(pipe[k])) # <<>>
      <4>1. content[file[k]] \in Seq(Line)
        BY <1>1, FileNumbers DEF LogInv
      <4> QED BY <4>1, <1>2
    <3> QED BY <2>2, <1>1, <3>1, FileNumbers DEF LogInv, Files
  <2> QED BY <2>1, <2>2 DEF CopyLine
<1>4. pipe' \in [Children -> Seq(Line)]
  BY <1>2 DEF CopyLine, LogInv, LogTypeOK
<1>5. lost' \subseteq Line
  BY <1>2 DEF CopyLine, LogInv, LogTypeOK
<1>6. LogTypeOK'
  BY <1>0, <1>3, <1>4, <1>5 DEF LogInv, LogTypeOK
<1>7. SlotsInOrder' /\ PlaceFree'
  <2>1. Renaming => content'[slots[0]] # <<>>
    BY <1>3, FileNumbers DEF LogInv, PlaceFree
  <2> QED BY <1>0, <1>3, <2>1, SameSlots
<1>8. TasksHaveFiles'
  BY <1>0 DEF LogInv, TasksHaveFiles
<1>9. TasksWrite'
  BY <1>0, <1>1, <1>3 DEF LogInv, TasksWrite, HasTask
<1> QED BY <1>6, <1>7, <1>8, <1>9 DEF LogInv

\* A task that ends, with its file or without one, and with a pipe that is read or lost.
LEMMA TaskEnds ==
  ASSUME LogInv, NEW k \in Children, OpenFails(k) \/ ReadFails(k) \/ CaptureEnds(k)
  PROVE  LogInv'
<1>1. /\ capture' = [capture EXCEPT ![k] = "ended"]
      /\ capture[k] \in {"opening", "copying"}
      /\ UNCHANGED <<printed, managed, children, alive, file, content, slots, rotating, interrupted>>
  BY DEF OpenFails, ReadFails, Abandon, CaptureEnds, fileVars
<1>2. pipe' \in [Children -> Seq(Line)] /\ lost' \subseteq Line
  <2>1. pipe[k] \in Seq(Line)
    BY DEF LogInv, LogTypeOK
  <2>2. LinesOf(pipe[k]) \subseteq Line /\ <<>> \in Seq(Line)
    BY <2>1 DEF LinesOf
  <2> QED BY <2>2 DEF OpenFails, ReadFails, Abandon, CaptureEnds, LogInv, LogTypeOK
<1>3. LogTypeOK'
  BY <1>1, <1>2 DEF LogInv, LogTypeOK, Files
<1>4. TasksHaveFiles'
  BY <1>1 DEF LogInv, LogTypeOK, TasksHaveFiles
<1>5. SlotsInOrder' /\ PlaceFree'
  BY <1>1, SameSlots DEF LogInv, PlaceFree, Files
<1>6. TasksWrite'
  BY <1>1 DEF LogInv, TasksWrite, HasTask, Files
<1> QED BY <1>3, <1>4, <1>5, <1>6 DEF LogInv

-----------------------------------------------------------------------------
\* The rotation begins: the last place becomes free. What stood there is older than
\* the rotation reaches.
LEMMA RotateStep ==
  ASSUME LogInv, rotate_log_file
  PROVE  LogInv'
<1>1. /\ LogTypeOK /\ rotating = None /\ rotating' = LOG_MAX_ROTATED
      /\ slots' = [slots EXCEPT ![LOG_MAX_ROTATED] = None]
      /\ UNCHANGED <<managed, children, alive, printed, pipe, capture, file, content, lost, interrupted>>
  BY DEF LogInv, rotate_log_file, taskVars
<1>2. LOG_MAX_ROTATED \in Slots \ {0} /\ LOG_MAX_ROTATED \in Nat
  BY LogsAssumption DEF Slots
<1>3. /\ slots' \in [Slots -> Files \cup {None}] /\ slots'[LOG_MAX_ROTATED] = None
      /\ \A i \in Slots \ {LOG_MAX_ROTATED} : slots'[i] = slots[i]
  BY <1>1, <1>2, FileNumbers
<1>4. /\ slots'[0] = slots[0] /\ slots[0] # None /\ slots[0] \in Files
      /\ content[slots[0]] # <<>>
  <2>1. slots[0] # None /\ Len(content[slots[0]]) > LOG_MAX_SIZE
    BY DEF rotate_log_file
  <2>2. content[slots[0]] # <<>>
    BY <2>1, LogsAssumption
  <2> QED BY <1>1, <1>2, <1>3, <2>1, <2>2, FileNumbers
<1>5. LogTypeOK'
  BY <1>1, <1>2, <1>3 DEF LogTypeOK, Files
<1>6. ~Renaming /\ Renaming'
  BY <1>1, <1>2, FileNumbers DEF Renaming
<1>7. LogNumber' = LogNumber /\ LogNumber \in Nat
  BY <1>1, <1>4, FileNumbers DEF LogNumber
<1>8. SlotsInOrder'
  <2>1. slots'[0] \in {Len(content'), None}
    BY <1>1, <1>4 DEF LogInv, SlotsInOrder
  <2>2. ASSUME NEW i \in Slots, slots'[i] # None
        PROVE  Place(i)' <= LogNumber' - slots'[i] + interrupted'
    <3>1. i # LOG_MAX_ROTATED /\ slots'[i] = slots[i] /\ i <= LOG_MAX_ROTATED
      BY <2>2, <1>3, LogsAssumption DEF Slots
    <3>2. i <= LogNumber - slots[i] + interrupted
      BY <2>2, <3>1, <1>6 DEF LogInv, SlotsInOrder, Age, Place
    <3>3. Place(i)' = i
      BY <3>1, <1>1, <1>2, FileNumbers DEF Place
    <3> QED BY <3>1, <3>2, <3>3, <1>1, <1>7
  <2>3. ASSUME NEW f \in Files', LogNumber' - f + interrupted' <= Reach'
        PROVE  \E i \in Slots : slots'[i] = f
    <3>1. f \in Files /\ f # None /\ f \in Nat
      BY <1>1, FileNumbers DEF Files
    <3>2. LogNumber - f + interrupted <= LOG_MAX_ROTATED - 1
      BY <2>3, <1>1, <1>6, <1>7 DEF Reach
    <3>3. LogNumber - f + interrupted <= LOG_MAX_ROTATED
      BY <3>1, <3>2, <1>1, <1>2, <1>7, FileNumbers
    <3>4. PICK i \in Slots : slots[i] = f
      BY <3>1, <3>3, <1>6 DEF LogInv, SlotsInOrder, Age, Reach
    <3>5. i <= LogNumber - f + interrupted
      BY <3>1, <3>4, <1>6 DEF LogInv, SlotsInOrder, Age, Place
    <3>6. i # LOG_MAX_ROTATED
      BY <3>1, <3>2, <3>5, <1>1, <1>2, <1>7, FileNumbers
    <3> QED BY <3>4, <3>6, <1>3
  <2> QED BY <2>1, <2>2, <2>3 DEF SlotsInOrder, Age
<1>9. PlaceFree'
  BY <1>1, <1>3, <1>4 DEF PlaceFree
<1>10. TasksHaveFiles'
  BY <1>1 DEF LogInv, TasksHaveFiles
<1>11. TasksWrite'
  BY <1>1, <1>4 DEF LogInv, TasksWrite, HasTask, Files
<1> QED BY <1>5, <1>8, <1>9, <1>10, <1>11 DEF LogInv

\* A rename moves a file into the free place, which is what was asked of its place. With
\* the log every file gets older by one, and a task has the log: it is not empty.
LEMMA RenameStep ==
  ASSUME LogInv, Rename
  PROVE  LogInv'
<1>1. /\ LogTypeOK /\ rotating \in Slots \ {0} /\ Renaming
      /\ UNCHANGED <<managed, children, alive, printed, pipe, capture, file, content, lost, interrupted>>
  BY DEF LogInv, Rename, taskVars, Renaming
<1>2. PICK r \in Slots \ {0} : r = rotating
  BY <1>1
<1>3. r \in Nat /\ r > 0 /\ r - 1 \in Slots /\ r - 1 # r /\ r - 1 \in Nat /\ r <= LOG_MAX_ROTATED
  BY LogsAssumption DEF Slots
<1>4. /\ slots' = [slots EXCEPT ![r] = slots[r - 1], ![r - 1] = None] /\ rotating' = r - 1
  BY <1>2 DEF Rename
<1>5. slots[r] = None /\ slots[0] # None /\ content[slots[0]] # <<>> /\ slots[0] = Len(content)
  BY <1>1, <1>2 DEF LogInv, PlaceFree, SlotsInOrder
<1>6. /\ slots' \in [Slots -> Files \cup {None}] /\ slots'[r] = slots[r - 1] /\ slots'[r - 1] = None
      /\ \A i \in Slots \ {r, r - 1} : slots'[i] = slots[i]
  BY <1>1, <1>3, <1>4, FileNumbers
<1> HIDE <1>4
<1>7. LogTypeOK'
  BY <1>1, <1>3, <1>4, <1>6 DEF LogTypeOK, Files
<1>8. /\ LogNumber = Len(content) /\ LogNumber' = IF r = 1 THEN Len(content) + 1 ELSE Len(content)
  <2>1. LogNumber = Len(content)
    BY <1>5 DEF LogNumber
  <2>2. CASE r = 1
    BY <2>1, <2>2, <1>1, <1>6 DEF LogNumber
  <2>3. CASE r # 1
    <3>1. 0 \in Slots \ {r, r - 1}
      BY <2>3, <1>3, FileNumbers, <1>1
    <3> QED BY <2>1, <2>3, <3>1, <1>1, <1>5, <1>6 DEF LogNumber
  <2> QED BY <2>1, <2>2, <2>3
<1>9. Renaming' <=> r # 1
  BY <1>3, <1>4 DEF Renaming
<1>10. SlotsInOrder'
  <2>1. slots'[0] \in {Len(content'), None}
    <3>1. CASE r = 1
      BY <3>1, <1>6
    <3>2. CASE r # 1
      <4>1. 0 \in Slots \ {r, r - 1}
        BY <3>2, <1>3, FileNumbers, <1>1
      <4> QED BY <4>1, <1>1, <1>5, <1>6
    <3> QED BY <3>1, <3>2
  <2>2. ASSUME NEW i \in Slots, slots'[i] # None
        PROVE  Place(i)' <= LogNumber' - slots'[i] + interrupted'
    <3> DEFINE older == IF r = 1 THEN 1 ELSE 0
    <3>0. i \in Nat /\ i # r - 1
      BY <2>2, <1>6, <1>1, FileNumbers
    <3>1. LogNumber' = LogNumber + older /\ LogNumber \in Nat
      BY <1>1, <1>8, FileNumbers
    <3>2. Place(i)' = IF r # 1 /\ i > r - 1 THEN i - 1 ELSE i
      BY <1>4, <1>9 DEF Place
    <3>3. CASE i = r
      <4>1. slots'[i] = slots[r - 1] /\ slots[r - 1] # None
        BY <2>2, <3>3, <1>6
      <4>2. slots[r - 1] \in Nat
        BY <4>1, <1>1, <1>3, FileNumbers
      <4>3. Place(r - 1) = r - 1
        BY <1>1, <1>2, <1>3 DEF Place
      <4>4. r - 1 <= LogNumber - slots[r - 1] + interrupted
        BY <4>1, <4>3, <1>3 DEF LogInv, SlotsInOrder, Age
      <4>5. Place(i)' <= r - 1 + older
        BY <3>2, <3>3, <1>3
      <4>6. LogNumber' - slots'[i] + interrupted' = LogNumber + older - slots[r - 1] + interrupted
        BY <4>1, <4>2, <3>1, <1>1, FileNumbers
      <4>7. Place(i)' \in Nat
        BY <3>2, <3>3, <1>3
      <4> HIDE DEF older
      <4>8. older \in Nat
        BY DEF older
      <4> QED BY <4>2, <4>4, <4>5, <4>6, <4>7, <4>8, <3>1, <1>1, <1>3, FileNumbers
    <3>4. CASE i # r
      <4>1. slots'[i] = slots[i] /\ slots[i] # None
        BY <2>2, <3>0, <3>4, <1>6
      <4>2. slots[i] \in Nat
        BY <4>1, <1>1, FileNumbers
      <4>3. Place(i) = IF i > r THEN i - 1 ELSE i
        BY <1>1, <1>2 DEF Place
      <4>4. Place(i) <= LogNumber - slots[i] + interrupted
        BY <4>1 DEF LogInv, SlotsInOrder, Age
      <4>5. Place(i)' <= Place(i) + older
        BY <3>0, <3>2, <3>4, <4>3, <1>3
      <4>6. LogNumber' - slots'[i] + interrupted' = LogNumber + older - slots[i] + interrupted
        BY <4>1, <4>2, <3>1, <1>1, FileNumbers
      <4>7. Place(i)' \in Nat /\ Place(i) \in Nat
        BY <3>0, <3>2, <4>3, <1>3
      <4> HIDE DEF older
      <4>8. older \in Nat
        BY DEF older
      <4> QED BY <4>2, <4>4, <4>5, <4>6, <4>7, <4>8, <3>1, <1>1, FileNumbers
    <3> QED BY <3>3, <3>4
  <2>3. ASSUME NEW f \in Files', LogNumber' - f + interrupted' <= Reach'
        PROVE  \E i \in Slots : slots'[i] = f
    <3>1. f \in Files /\ f # None /\ f \in Nat
      BY <1>1, FileNumbers DEF Files
    <3>2. LogNumber - f + interrupted <= LOG_MAX_ROTATED - 1
      <4>1. LogNumber' - f + interrupted <= IF r # 1 THEN LOG_MAX_ROTATED - 1 ELSE LOG_MAX_ROTATED
        BY <2>3, <1>1, <1>9 DEF Reach
      <4> QED BY <3>1, <4>1, <1>1, <1>8, LogsAssumption, FileNumbers
    <3>3. PICK i \in Slots : slots[i] = f
      BY <3>1, <3>2, <1>1 DEF LogInv, SlotsInOrder, Age, Reach
    <3>4. i # r
      BY <3>1, <3>3, <1>5
    <3>5. CASE i = r - 1
      BY <3>3, <3>5, <1>6
    <3>6. CASE i # r - 1
      BY <3>3, <3>4, <3>6, <1>6
    <3> QED BY <3>5, <3>6
  <2> QED BY <2>1, <2>2, <2>3 DEF SlotsInOrder, Age
<1>11. PlaceFree'
  <2> SUFFICES ASSUME r # 1
               PROVE  slots'[rotating'] = None /\ slots'[0] # None /\ content'[slots'[0]] # <<>>
    BY <1>9 DEF PlaceFree
  <2>1. 0 \in Slots \ {r, r - 1}
    BY <1>3, FileNumbers, <1>1
  <2> QED BY <2>1, <1>1, <1>4, <1>5, <1>6
<1>12. TasksHaveFiles'
  BY <1>1 DEF LogInv, TasksHaveFiles
<1>13. TasksWrite'
  <2> SUFFICES ASSUME NEW f \in Files, f # slots'[0] \/ content[f] # <<>>
               PROVE  HasTask(f)
    BY <1>1 DEF TasksWrite, HasTask, Files
  <2>1. f # slots[0] \/ content[f] # <<>>
    BY <1>5
  <2> QED BY <2>1 DEF LogInv, TasksWrite
<1> QED BY <1>7, <1>10, <1>11, <1>12, <1>13 DEF LogInv

\* The rotation makes the new log, or empties the one a task has made.
LEMMA CreateLogStep ==
  ASSUME LogInv, CreateLog
  PROVE  LogInv'
<1>0. /\ LogTypeOK /\ SlotsInOrder /\ PlaceFree
      /\ rotating = 0 /\ rotating' = None
      /\ UNCHANGED <<printed, managed, children, alive, pipe, capture, file, interrupted>>
  BY DEF LogInv, CreateLog
<1>t. TasksHaveFiles'
  BY <1>0 DEF LogInv, TasksHaveFiles
<1>1. CASE slots[0] = None
  <2>1. content' = Append(content, <<>>) /\ slots' = [slots EXCEPT ![0] = Len(content')] /\ lost' = lost
    BY <1>1 DEF CreateLog
  <2>2. /\ content' \in Seq(Seq(Line)) /\ Files' = Files \cup {slots'[0]}
        /\ slots' \in [Slots -> (Files \cup {None})']
        /\ slots'[0] \in Files' /\ SlotsInOrder' /\ PlaceFree'
        /\ \A f \in Files : content'[f] = content[f]
        /\ content'[slots'[0]] = <<>>
    BY <2>1, <1>0, <1>1, LogMade
  <2>3. lost' = lost
    BY <2>1
  <2> HIDE <2>1
  <2>4. LogTypeOK'
    BY <2>2, <2>3, <1>0, FileNumbers DEF LogTypeOK
  <2>5. TasksWrite'
    <3> SUFFICES ASSUME NEW f \in Files', f # slots'[0] \/ content'[f] # <<>>
                 PROVE  \E j \in Children : file'[j] = f
      BY DEF TasksWrite, HasTask
    <3>1. f \in Files /\ f # slots[0] /\ file' = file
      BY <2>2, <1>0, <1>1, FileNumbers
    <3> QED BY <3>1 DEF LogInv, TasksWrite, HasTask
  <2> QED BY <2>2, <2>4, <2>5, <1>t DEF LogInv
<1>2. CASE slots[0] # None
  <2>1. slots[0] \in Files /\ content[slots[0]] \in Seq(Line)
    BY <1>0, <1>2, FileNumbers
  <2>2. <<>> \in Seq(Line)
    OBVIOUS
  <2>3. /\ content' \in Seq(Seq(Line)) /\ Len(content') = Len(content) /\ Files' = Files
        /\ \A f \in Files \ {slots[0]} : content'[f] = content[f]
        /\ content'[slots[0]] = <<>> /\ slots' = slots
    <3>1. content' = [content EXCEPT ![slots[0]] = <<>>] /\ slots' = slots
      BY <1>2 DEF CreateLog
    <3>2. content' \in Seq(Seq(Line)) /\ Len(content') = Len(content)
      BY <1>0, <2>1, <2>2, <3>1, FileNumbers
    <3>3. \A g \in Files \ {slots[0]} : content'[g] = content[g]
      BY <1>0, <2>1, <3>1, FileNumbers
    <3>4. content'[slots[0]] = <<>>
      BY <1>0, <2>1, <3>1, FileNumbers
    <3> QED BY <1>0, <3>1, <3>2, <3>3, <3>4, FileNumbers DEF Files
  <2>4. lost' \subseteq Line
    BY <2>1, <1>0, <1>2 DEF CreateLog, LogTypeOK, LinesOf
  <2>5. LogTypeOK'
    BY <2>3, <2>4, <1>0 DEF LogTypeOK
  <2>6. ~Renaming /\ ~Renaming'
    BY <1>0, FileNumbers DEF Renaming
  <2>7. SlotsInOrder' /\ PlaceFree'
    <3>1. SlotsInOrder'
      BY <2>3, <2>6, <1>0 DEF SlotsInOrder, LogNumber, Age, Place, Reach
    <3>2. PlaceFree'
      BY <2>6 DEF PlaceFree
    <3> QED BY <3>1, <3>2
  <2>8. TasksWrite'
    BY <2>3, <1>0 DEF LogInv, TasksWrite, HasTask
  <2> QED BY <2>5, <2>7, <2>8, <1>t DEF LogInv
<1> QED BY <1>1, <1>2

\* The daemon ends. If that cuts a rotation off, every file may stand one place
\* further back than its age says, for good.
LEMMA EndStep ==
  ASSUME LogInv, End
  PROVE  LogInv'
<1>1. /\ LogTypeOK /\ rotating' = None
      /\ interrupted' = IF Renaming THEN interrupted + 1 ELSE interrupted
      /\ UNCHANGED <<printed, children, file, slots, content>>
  BY DEF End, LogInv, Renaming
<1>2. lost' \subseteq Line
  <2>1. \A k \in Children : pipe[k] \in Seq(Line)
    BY <1>1 DEF LogTypeOK
  <2>2. \A k \in Children : LinesOf(pipe[k]) \subseteq Line
    BY <2>1 DEF LinesOf
  <2>3. lost' = lost \cup UNION {LinesOf(pipe[k]) : k \in Children}
    BY DEF End
  <2> QED BY <2>2, <2>3, <1>1 DEF LogTypeOK
<1>3. <<>> \in Seq(Line)
  OBVIOUS
<1>4. LogTypeOK'
  <2>1. /\ pipe' \in [Children -> Seq(Line)] /\ interrupted' \in Nat
        /\ rotating' \in Slots \cup {None}
    BY <1>1, <1>3, FileNumbers DEF End
  <2>2. /\ capture' \in [Children -> {"none", "opening", "copying", "ended"}]
        /\ managed' = FALSE /\ alive' = FALSE
    BY DEF End
  <2> QED BY <1>1, <1>2, <2>1, <2>2 DEF LogTypeOK, Files
<1>5. TasksHaveFiles'
  BY DEF End, LogInv, TasksHaveFiles
<1>6. SlotsInOrder'
  <2>1. LogNumber' = LogNumber /\ LogNumber \in Nat /\ Files' = Files
    BY <1>1, FileNumbers DEF LogNumber, Files
  <2>2. ~Renaming'
    BY <1>1, FileNumbers DEF Renaming, Slots
  <2>3. ASSUME NEW i \in Slots, slots[i] # None
        PROVE  i <= LogNumber - slots[i] + interrupted'
    <3>1. Place(i) <= LogNumber - slots[i] + interrupted
      BY <2>3, <1>1 DEF LogInv, SlotsInOrder, Age
    <3>2. i <= IF Renaming THEN Place(i) + 1 ELSE Place(i)
      BY <1>1, FileNumbers DEF Place
    <3>3. slots[i] \in Nat /\ i \in Nat /\ Place(i) \in Int
      BY <2>3, <1>1, FileNumbers DEF Place
    <3> QED BY <3>1, <3>2, <3>3, <2>1, <1>1, FileNumbers
  <2>4. ASSUME NEW f \in Files, LogNumber - f + interrupted' <= LOG_MAX_ROTATED
        PROVE  \E i \in Slots : slots[i] = f
    <3>1. LogNumber - f + interrupted <= Reach
      BY <2>4, <2>1, <1>1, FileNumbers, LogsAssumption DEF Reach
    <3> QED BY <3>1 DEF LogInv, SlotsInOrder, Age
  <2> QED BY <2>1, <2>2, <2>3, <2>4, <1>1 DEF LogInv, SlotsInOrder, Age, Place, Reach
<1>7. PlaceFree'
  BY <1>1, FileNumbers DEF PlaceFree, Renaming, Slots
<1>8. TasksWrite'
  BY <1>1 DEF LogInv, TasksWrite, HasTask, Files
<1> QED BY <1>4, <1>5, <1>6, <1>7, <1>8 DEF LogInv

\* Every step keeps the invariant.
LEMMA NextLogInv ==
  ASSUME LogInv, [LogNext]_logVars
  PROVE  LogInv'
<1>1. CASE UNCHANGED logVars
  <2>1. LogTypeOK' /\ TasksHaveFiles' /\ TasksWrite'
    BY <1>1 DEF logVars, taskVars, fileVars, LogInv, LogTypeOK, TasksHaveFiles, TasksWrite,
                HasTask, Files
  <2>2. SlotsInOrder' /\ PlaceFree'
    BY <1>1, SameSlots DEF logVars, taskVars, fileVars, LogInv, PlaceFree, Files
  <2> QED BY <2>1, <2>2 DEF LogInv
<1> QED BY <1>1, ChildStep, OpenLogStep, CopyLineStep, TaskEnds, RotateStep, RenameStep,
           CreateLogStep, EndStep DEF LogNext, Task

-----------------------------------------------------------------------------
\* The files are numbered, placed and written to as the invariant says, always.
THEOREM LogInvariantHolds == LogSpec => []LogInv
  BY InitLogInv, NextLogInv, PTL DEF LogSpec

\* What a child printed is not deleted before as many newer files as are kept had
\* tasks of their own, however rotations and late tasks interleave: all newer
\* files but the log have a task, and a file stands no further back than the number
\* of newer files and of rotations that were cut off.
THEOREM RecentOutputIsKept == LogSpec => []RecentOutputKept
<1>1. LogInv => RecentOutputKept
  <2> SUFFICES ASSUME LogInv, NEW k \in 1..children, file[k] # None,
                      Cardinality(NewerFiles(k)) + interrupted < LOG_MAX_ROTATED
               PROVE  \E i \in 0..(Cardinality(NewerFiles(k)) + interrupted + 1) : slots[i] = file[k]
    BY DEF RecentOutputKept
  <2> DEFINE f == file[k]
             \* The log is counted while it is renamed: it is not empty.
             last == IF Renaming THEN LogNumber ELSE LogNumber - 1
             newer == Cardinality(NewerFiles(k))
  <2>1. k \in Children /\ f \in 1..Len(content) /\ LogTypeOK /\ Len(content) \in Nat
    <3>1. k \in Children
      BY LogsAssumption DEF LogInv, LogTypeOK, Children
    <3> QED BY <3>1, FileNumbers DEF LogInv
  <2>2. /\ LogNumber \in {Len(content), Len(content) + 1} /\ last \in Nat /\ last <= Len(content)
        /\ Renaming => LogNumber = Len(content)
    BY <2>1 DEF LogNumber, LogInv, PlaceFree
  <2>3. (f + 1)..last \subseteq NewerFiles(k)
    <3> SUFFICES ASSUME NEW g \in (f + 1)..last
                 PROVE  \E j \in Children : file[j] = g /\ file[j] # None /\ g \in Files /\ g > f
      BY DEF NewerFiles
    <3>1. g \in Files /\ g > f
      BY <2>1, <2>2, FileNumbers
    <3>2. g # slots[0] \/ content[g] # <<>>
      <4>1. CASE Renaming
        BY <4>1 DEF LogInv, PlaceFree
      <4>2. CASE ~Renaming
        BY <4>2, <2>1, <2>2, <3>1, FileNumbers DEF LogInv, SlotsInOrder, LogNumber
      <4> QED BY <4>1, <4>2
    <3>3. PICK j \in Children : file[j] = g
      BY <3>1, <3>2 DEF LogInv, TasksWrite, HasTask
    <3> QED BY <3>1, <3>3, <2>1, FileNumbers
  <2>4. IsFiniteSet(NewerFiles(k)) /\ newer \in Nat
    <3>1. NewerFiles(k) \subseteq 1..Len(content)
      BY <2>1, FileNumbers DEF NewerFiles
    <3>2. IsFiniteSet(1..Len(content))
      BY <2>1, FS_Interval
    <3> QED BY <3>1, <3>2, FS_Subset, FS_CardinalityType
  <2>5. last - f <= newer
    <3>1. Cardinality((f + 1)..last) = IF f + 1 > last THEN 0 ELSE last - (f + 1) + 1
      <4>1. f + 1 \in Int /\ last \in Int
        BY <2>1, <2>2
      <4> HIDE DEF f, last
      <4> QED BY <4>1, FS_Interval
    <3>2. Cardinality((f + 1)..last) <= newer
      BY <2>3, <2>4, FS_Subset
    <3>3. f \in Nat
      BY <2>1
    <3> HIDE DEF f, last, newer
    <3> QED BY <2>2, <2>4, <3>1, <3>2, <3>3
  <2>6. interrupted \in Nat /\ f \in Nat /\ LogNumber \in Nat /\ LOG_MAX_ROTATED \in Nat
    BY <2>1, <2>2, FileNumbers, LogsAssumption
  <2>7. LogNumber - f + interrupted <= Reach
    <3>1. last - f <= newer /\ newer + interrupted < LOG_MAX_ROTATED
      BY <2>5
    <3>2. last = IF Renaming THEN LogNumber ELSE LogNumber - 1
      OBVIOUS
    <3> HIDE DEF last, newer, f
    <3> QED BY <2>4, <2>6, <3>1, <3>2 DEF Reach
  <2>8. PICK i \in Slots : slots[i] = f
    BY <2>1, <2>7, FileNumbers DEF LogInv, SlotsInOrder, Age
  <2>9. i \in 0..(newer + interrupted + 1)
    <3>1. i \in Nat /\ f # None
      BY <2>1, FileNumbers
    <3>2. Place(i) <= LogNumber - f + interrupted
      BY <2>8, <3>1 DEF LogInv, SlotsInOrder, Age
    <3>3. i <= IF Renaming THEN Place(i) + 1 ELSE Place(i)
      BY <3>1, <2>1, FileNumbers DEF Place, Renaming
    <3>4. Place(i) \in Int
      BY <3>1, <2>1, FileNumbers DEF Place, Renaming
    <3>5. last = IF Renaming THEN LogNumber ELSE LogNumber - 1
      OBVIOUS
    <3> HIDE DEF last, newer, f
    <3> QED BY <2>4, <2>5, <2>6, <3>1, <3>2, <3>3, <3>4, <3>5
  <2> QED BY <2>8, <2>9
<1> QED BY <1>1, LogInvariantHolds, PTL

\* No step takes a line from a file, but the rotation that empties a log a task has
\* made in the middle of it: capture tasks append, renames keep the files.
THEOREM FilesOnlyGrowHolds == LogSpec => FilesOnlyGrow
<1>1. ASSUME LogInv, [LogNext]_logVars
      PROVE  [\A f \in Files : \/ IsPrefixOf(content[f], content'[f])
                               \/ rotating = 0 /\ f = slots[0]]_logVars
  <2> SUFFICES ASSUME LogNext, NEW f \in Files, ~(rotating = 0 /\ f = slots[0])
               PROVE  IsPrefixOf(content[f], content'[f])
    BY <1>1
  <2>1. content[f] \in Seq(Line) /\ LogTypeOK
    BY <1>1, FileNumbers DEF LogInv
  <2>2. IsPrefixOf(content[f], content[f])
    BY <2>1 DEF IsPrefixOf
  <2>3. ASSUME NEW k \in Children, CopyLine(k)
        PROVE  IsPrefixOf(content[f], content'[f])
    <3>1. CASE f = file[k] /\ content' # content
      <4>1. content'[f] = Append(content[f], Head(pipe[k]))
        BY <2>1, <2>3, <3>1, FileNumbers DEF CopyLine
      <4> QED BY <4>1, <2>1 DEF IsPrefixOf
    <3>2. CASE ~(f = file[k] /\ content' # content)
      BY <2>2, <2>3, <2>1, <3>2, FileNumbers DEF CopyLine
    <3> QED BY <3>1, <3>2
  <2>4. content' = Append(content, <<>>) => IsPrefixOf(content[f], content'[f])
    <3>1. Append(content, <<>>)[f] = content[f]
      BY <2>1, FileNumbers
    <3> QED BY <3>1, <2>2
  <2>5. CASE CreateLog
    BY <2>1, <2>2, <2>4, <2>5, FileNumbers DEF CreateLog
  <2>6. ASSUME NEW k \in Children, OpenLog(k)
        PROVE  IsPrefixOf(content[f], content'[f])
    BY <2>2, <2>4, <2>6 DEF OpenLog
  <2>7. CASE content' = content
    BY <2>2, <2>7
  <2> QED BY <2>3, <2>5, <2>6, <2>7
     DEF LogNext, Task, taskVars, start_process, ChildEnds, delete, PrintLine, OpenFails, ReadFails,
         Abandon, CaptureEnds, rotate_log_file, Rename, End
<1> QED BY <1>1, LogInvariantHolds, PTL DEF LogSpec, FilesOnlyGrow
-----------------------------------------------------------------------------
(* The image directory. *)

\* Every nonempty set of natural numbers with a bound has a greatest element.
LEMMA GreatestExists ==
  ASSUME NEW T, T # {}, NEW n \in Nat, \A x \in T : x \in Nat /\ x <= n
  PROVE  \E x \in T : \A y \in T : y <= x
<1> DEFINE R == {ss \in Nat \X Nat : ss[1] < ss[2]}
           Gaps == {n - x : x \in T}
<1>1. OpToRel(<, Nat) = R
  BY Zenon DEF OpToRel
<1>2. IsWellFoundedOn(R, Nat)
  BY <1>1, NatLessThanWellFounded, Zenon
<1>3. \A x, y \in Nat : <<y, x>> \in R <=> y < x
  OBVIOUS
<1>4. Gaps \subseteq Nat /\ Gaps # {}
  OBVIOUS
<1> HIDE DEF R, Gaps
<1>5. PICK g \in Gaps : \A h \in Gaps : ~(<<h, g>> \in R)
  BY <1>2, <1>4, WFMin, Zenon
<1>6. \A h \in Gaps : g <= h
  <2> SUFFICES ASSUME NEW h \in Gaps PROVE g <= h
    OBVIOUS
  <2>1. g \in Nat /\ h \in Nat
    BY <1>4
  <2>2. ~(h < g)
    BY <1>3, <1>5, <2>1, Zenon
  <2> QED BY <2>1, <2>2
<1> USE DEF Gaps
<1>7. PICK x \in T : g = n - x
  OBVIOUS
<1>8. ASSUME NEW y \in T PROVE y <= x
  <2>1. n - y \in Gaps
    OBVIOUS
  <2>2. g <= n - y
    BY <1>6, <2>1
  <2> HIDE DEF Gaps
  <2> QED BY <1>7, <2>2
<1> QED BY <1>8

\* What the first n - 1 entries of a layer do to path p: do they add or delete it, do
\* they add it, and do they delete what they have added?
HandledUpTo(layer, n, p) ==
  \E j \in DOMAIN layer.entries : j < n /\ (AddsAt(layer, j, p) \/ DeletesAt(layer, j, p))
AddedUpTo(layer, n, p) == \E j \in DOMAIN layer.entries : j < n /\ AddsAt(layer, j, p)
MisreadUpTo(layer, n, p) ==
  \E i, j \in DOMAIN layer.entries :
    i < j /\ j < n /\ AddsAt(layer, i, p) /\ DeletesAt(layer, j, p)

\* What directory d holds at path p when image r was extracted up to entry n of layer
\* l, and s was passed over: what that layer made of the path so far, or else what the
\* topmost layer below it that mentions the path made of it. No layer: whatever was
\* there.
Extracting(r, l, n, p) ==
  l \in DOMAIN Layers(r) /\ Layers(r)[l].known /\ HandledUpTo(Layers(r)[l], n, p)
InPlace(d, s, r, l, n, p) ==
  IF Extracting(r, l, n, p)
  THEN \/ p \in s
       \/ MisreadUpTo(Layers(r)[l], n, p)
       \/ d[p] = IF AddedUpTo(Layers(r)[l], n, p) THEN Data(r, p) ELSE Absent
  ELSE \A i \in Mentioning(r, p) :
         i < l /\ (\A k \in Mentioning(r, p) : k < l => k <= i)
           => \/ p \in s
              \/ Misread(Layers(r)[i], p)
              \/ d[p] = IF Adds(Layers(r)[i], p) THEN Data(r, p) ELSE Absent

\* What one entry of a layer of image r does to path p of directory d and to what was
\* passed over.
Effect(r, e, d, s, d2, s2, p) ==
  \/ /\ ~(e.kind = "file" /\ e.path = p) /\ ~(e.kind = "whiteout" /\ p \in Below[e.path])
     /\ d2[p] = d[p] /\ (p \in s2 <=> p \in s)
  \/ e.kind = "file" /\ e.path = p /\ (p \in s2 \/ d2[p] = Data(r, p))
  \/ e.kind = "whiteout" /\ p \in Below[e.path] /\ (p \in s2 \/ d2[p] = Absent)

\* What is known of the layers of an image.
LEMMA LayerTypes ==
  ASSUME NEW r \in References
  PROVE  /\ Len(Layers(r)) \in Nat /\ DOMAIN Layers(r) = 1..Len(Layers(r))
         /\ \A l \in DOMAIN Layers(r) : Layers(r)[l].entries \in Seq(Entry)
<1>1. Layers(r) \in Seq([known : BOOLEAN, entries : Seq(Entry)])
  BY ImagesAssumption DEF Layers, ImageType
<1>2. Len(Layers(r)) \in Nat /\ DOMAIN Layers(r) = 1..Len(Layers(r))
  BY <1>1
<1>3. \A l \in DOMAIN Layers(r) : Layers(r)[l].entries \in Seq(Entry)
  <2> SUFFICES ASSUME NEW l \in DOMAIN Layers(r) PROVE Layers(r)[l].entries \in Seq(Entry)
    OBVIOUS
  <2> DEFINE LayerType == [known : BOOLEAN, entries : Seq(Entry)]
  <2>1. \A x \in LayerType : x.entries \in Seq(Entry)
    OBVIOUS
  <2>2. Layers(r) \in Seq(LayerType)
    BY <1>1
  <2> HIDE DEF LayerType
  <2>3. l \in 1..Len(Layers(r))
    BY <1>2
  <2>4. Layers(r)[l] \in LayerType
    BY <2>2, <2>3
  <2> QED BY <2>1, <2>4
<1> QED BY <1>2, <1>3

\* Before the first layer nothing is asked of the directory.
LEMMA InPlaceFirst ==
  ASSUME NEW r \in References, NEW d, NEW s, NEW p \in Paths
  PROVE  InPlace(d, s, r, 1, 1, p)
<1>1. ~Extracting(r, 1, 1, p)
  <2>1. ASSUME NEW l \in DOMAIN Layers(r)
        PROVE  ~HandledUpTo(Layers(r)[l], 1, p)
    BY LayerTypes DEF HandledUpTo
  <2> QED BY <2>1 DEF Extracting
<1>2. \A i \in Mentioning(r, p) : ~(i < 1)
  BY LayerTypes DEF Mentioning
<1> QED BY <1>1, <1>2 DEF InPlace

\* An entry leaves every path in place or passed over: a file is there, a whiteout has
\* deleted what is below it.
LEMMA InPlaceEntry ==
  ASSUME NEW r \in References, NEW l \in DOMAIN Layers(r), Layers(r)[l].known,
         NEW n \in DOMAIN Layers(r)[l].entries, NEW d, NEW s, NEW d2, NEW s2, NEW p \in Paths,
         Effect(r, Layers(r)[l].entries[n], d, s, d2, s2, p),
         InPlace(d, s, r, l, n, p)
  PROVE  InPlace(d2, s2, r, l, n + 1, p)
<1> DEFINE layer == Layers(r)[l]
           e == layer.entries[n]
<1>1. n \in Nat /\ layer.entries \in Seq(Entry) /\ DOMAIN layer.entries \subseteq Nat
  BY LayerTypes
<1>2. \A j \in DOMAIN layer.entries : j < n + 1 <=> j < n \/ j = n
  BY <1>1
<1>3. HandledUpTo(layer, n + 1, p) <=>
        HandledUpTo(layer, n, p) \/ AddsAt(layer, n, p) \/ DeletesAt(layer, n, p)
  BY <1>2 DEF HandledUpTo
<1>4. AddedUpTo(layer, n + 1, p) <=> AddedUpTo(layer, n, p) \/ AddsAt(layer, n, p)
  BY <1>2 DEF AddedUpTo
<1>5. MisreadUpTo(layer, n, p) => MisreadUpTo(layer, n + 1, p)
  BY <1>2 DEF MisreadUpTo
<1>6. AddedUpTo(layer, n, p) /\ DeletesAt(layer, n, p) => MisreadUpTo(layer, n + 1, p)
  BY <1>2 DEF AddedUpTo, MisreadUpTo
<1>7. Extracting(r, l, n + 1, p) <=>
        Extracting(r, l, n, p) \/ AddsAt(layer, n, p) \/ DeletesAt(layer, n, p)
  BY <1>3 DEF Extracting
<1>8. CASE ~AddsAt(layer, n, p) /\ ~DeletesAt(layer, n, p)
  <2>1. d2[p] = d[p] /\ (p \in s2 <=> p \in s)
    BY <1>8 DEF Effect, AddsAt, DeletesAt
  <2> QED BY <1>4, <1>5, <1>7, <1>8, <2>1 DEF InPlace
<1>9. CASE AddsAt(layer, n, p)
  <2>1. p \in s2 \/ d2[p] = Data(r, p)
    BY <1>9 DEF Effect, AddsAt, DeletesAt
  <2> QED BY <1>4, <1>7, <1>9, <2>1 DEF InPlace
<1>10. CASE DeletesAt(layer, n, p)
  <2>1. (p \in s2 \/ d2[p] = Absent) /\ ~AddsAt(layer, n, p)
    BY <1>10 DEF Effect, AddsAt, DeletesAt
  <2> QED BY <1>4, <1>6, <1>7, <1>10, <2>1 DEF InPlace
<1> QED BY <1>8, <1>9, <1>10

\* At the end of a layer, or past one of an unknown type, that layer is one of those
\* below.
LEMMA InPlaceNext ==
  ASSUME NEW r \in References, NEW l \in DOMAIN Layers(r), NEW n \in Nat, NEW d, NEW s,
         NEW p \in Paths,
         ~(Layers(r)[l].known /\ n <= Len(Layers(r)[l].entries)),
         InPlace(d, s, r, l, n, p)
  PROVE  InPlace(d, s, r, l + 1, 1, p)
<1> DEFINE layer == Layers(r)[l]
<1>1. l \in Nat /\ layer.entries \in Seq(Entry) /\ Mentioning(r, p) \subseteq Nat
  BY LayerTypes DEF Mentioning
<1>2. ~Extracting(r, l + 1, 1, p)
  BY LayerTypes DEF Extracting, HandledUpTo
<1>3. layer.known => \A j \in DOMAIN layer.entries : j < n
  BY <1>1
<1>4. layer.known => (AddedUpTo(layer, n, p) <=> Adds(layer, p))
  BY <1>3 DEF AddedUpTo, Adds
<1>5. layer.known => (MisreadUpTo(layer, n, p) => Misread(layer, p))
  BY <1>3 DEF MisreadUpTo, Misread
\* A layer with nothing but an opaque marker is misread.
<1>6. layer.known /\ ~HandledUpTo(layer, n, p) => Misread(layer, p)
  BY <1>3 DEF HandledUpTo, Misread
<1>7. layer.known /\ HandledUpTo(layer, n, p) => Mentions(layer, p)
  BY DEF HandledUpTo, Mentions
<1> SUFFICES ASSUME NEW i \in Mentioning(r, p), i < l + 1,
                    \A k \in Mentioning(r, p) : k < l + 1 => k <= i
             PROVE  \/ p \in s
                    \/ Misread(Layers(r)[i], p)
                    \/ d[p] = IF Adds(Layers(r)[i], p) THEN Data(r, p) ELSE Absent
  BY <1>2 DEF InPlace
<1>8. i \in Nat
  BY <1>1
<1>9. CASE l \in Mentioning(r, p)
  <2>1. l <= i
    BY <1>1, <1>9
  <2>2. i = l
    BY <2>1, <1>1, <1>8
  <2>3. layer.known
    BY <1>9 DEF Mentioning
  <2> QED BY <1>4, <1>5, <1>6, <2>2, <2>3 DEF InPlace, Extracting
<1>10. CASE l \notin Mentioning(r, p)
  <2>1. i < l
    BY <1>1, <1>8, <1>10
  <2>2. \A k \in Mentioning(r, p) : k < l => k <= i
    BY <1>1
  <2>3. ~Extracting(r, l, n, p)
    BY <1>7, <1>10 DEF Extracting, Mentioning
  <2> QED BY <2>1, <2>2, <2>3 DEF InPlace
<1> QED BY <1>9, <1>10

\* Past the last layer the directory is the image, wherever the image mentions it.
LEMMA InPlaceLast ==
  ASSUME NEW r \in References, NEW l \in Nat, NEW n, NEW d, NEW s, NEW p \in Mentioned(r),
         l > Len(Layers(r)), InPlace(d, s, r, l, n, p)
  PROVE  p \in s \/ Misread(TopLayer(r, p), p) \/ d[p] = Overlay(r, p)
<1> DEFINE T == Mentioning(r, p)
           top == CHOOSE i \in T : \A j \in T : j <= i
<1>1. T # {} /\ \A i \in T : i \in Nat /\ i <= Len(Layers(r)) /\ i < l
  BY LayerTypes DEF Mentioned, Mentioning
<1>2. \E i \in T : \A j \in T : j <= i
  <2> HIDE DEF T
  <2> QED BY <1>1, GreatestExists, LayerTypes
<1>3. top \in T /\ \A j \in T : j <= top
  BY <1>2
<1>4. ~Extracting(r, l, n, p)
  BY LayerTypes DEF Extracting
<1>5. \/ p \in s
      \/ Misread(Layers(r)[top], p)
      \/ d[p] = IF Adds(Layers(r)[top], p) THEN Data(r, p) ELSE Absent
  BY <1>1, <1>3, <1>4 DEF InPlace
<1> QED BY <1>5 DEF Overlay, TopLayer
-----------------------------------------------------------------------------
\* A pull under the mutex that was the only one so far is alone still, and the
\* directory is what it made of it.
AloneInPlace ==
  LET q == pulls[Start] IN
    alone /\ q # IdlePull =>
      /\ Others = {}
      /\ q.at \in {"manifest", "config"} => q.layer = 1 /\ q.entry = 1
      /\ q.at \in {"layers", "entrypoint", "volumes"} =>
           /\ config = q.ref
           /\ \A p \in Paths : (q.at = "volumes" => p \notin VolumePaths)
                                 => InPlace(dir, skipped, q.ref, q.layer, q.entry, p)
      /\ q.at \in {"entrypoint", "volumes"} => q.layer > Len(Layers(q.ref))
      /\ q.at # "volumes" => mounted = 0
      /\ q.at = "volumes" =>
           /\ \A i \in 1..mounted : dir[Volumes[i]] = Host
           /\ Image[q.ref].entrypoint # Absent => found = Image[q.ref].entrypoint

ImageInv == TypeOK /\ AloneInPlace

ActivePulls == [at : {"manifest", "config", "layers", "entrypoint", "volumes", "apply"},
                ref : References, layer : Nat \ {0}, entry : Nat \ {0}]

\* A pull that is somewhere has a reference.
LEMMA PullTypes ==
  ASSUME TypeOK
  PROVE  /\ pulls \in [Pullers -> {IdlePull} \cup ActivePulls]
         /\ \A t \in Pullers : pulls[t].at # "idle" => pulls[t] \in ActivePulls
         /\ \A t \in Pullers : pulls[t].at = "idle" => pulls[t] = IdlePull
         /\ \A r \in References : NewPull(r) \in ActivePulls /\ NewPull(r) # IdlePull
         /\ Start \in Pullers /\ Updates = Pullers \ {Start}
<1>1. pulls \in [Pullers -> {IdlePull} \cup ActivePulls]
  BY DEF TypeOK, ActivePulls
<1>2. IdlePull.at = "idle" /\ \A q \in ActivePulls : q.at # "idle"
  BY DEF IdlePull, ActivePulls
<1>3. \A r \in References : NewPull(r) \in ActivePulls
  BY DEF NewPull, ActivePulls
<1>4. Start \in Pullers /\ Updates = Pullers \ {Start}
  BY ImagesAssumption DEF Pullers
<1> QED BY <1>1, <1>2, <1>3, <1>4

\* A pull that was somewhere goes on, and the others stay where they are.
LEMMA PullGoes ==
  ASSUME TypeOK, NEW t \in Pullers, NEW q \in {IdlePull} \cup ActivePulls,
         pulls' = [pulls EXCEPT ![t] = q]
  PROVE  /\ pulls' \in [Pullers -> {IdlePull} \cup ActivePulls]
         /\ pulls'[t] = q
         /\ \A u \in Pullers \ {t} : pulls'[u] = pulls[u]
  BY PullTypes

\* An entry is one of a layer of the image.
LEMMA EntryTyped ==
  ASSUME TypeOK, NEW t \in Pullers, pulls[t] \in ActivePulls, ExtractEntry(t)
  PROVE  /\ pulls[t].layer \in DOMAIN Layers(pulls[t].ref)
         /\ Layers(pulls[t].ref)[pulls[t].layer].known
         /\ pulls[t].entry \in DOMAIN Layers(pulls[t].ref)[pulls[t].layer].entries
         /\ CurrentLayer(t).entries[pulls[t].entry] \in Entry
<1>0. /\ pulls[t].ref \in References /\ pulls[t].layer \in Nat \ {0} /\ pulls[t].entry \in Nat \ {0}
  BY DEF ActivePulls
<1>1. pulls[t].layer \in DOMAIN Layers(pulls[t].ref)
  BY <1>0, LayerTypes DEF ExtractEntry, MoreEntries, MoreLayers
<1>2. Layers(pulls[t].ref)[pulls[t].layer].entries \in Seq(Entry)
  BY <1>0, <1>1, LayerTypes
<1> QED BY <1>0, <1>1, <1>2 DEF ExtractEntry, MoreEntries, CurrentLayer

\* One entry at a time, the directory holds files of images and remains of them.
LEMMA ExtractedTyped ==
  ASSUME TypeOK, NEW t \in Pullers, pulls[t] \in ActivePulls, ExtractEntry(t)
  PROVE  dir' \in [Paths -> Contents] /\ skipped' \subseteq Paths
<1> DEFINE e == CurrentLayer(t).entries[pulls[t].entry]
<1>1. e.path \in Paths /\ Below[e.path] \subseteq Paths
  BY EntryTyped, ImagesAssumption DEF Entry
<1>2. dir \in [Paths -> Contents] /\ skipped \subseteq Paths
  BY DEF TypeOK
<1>3. Absent \in Contents /\ Partial \in Contents
  BY DEF Contents
<1>4. Data(pulls[t].ref, e.path) \in Contents
  BY <1>1 DEF Contents, ActivePulls
<1>5. \/ UnpackFile(t, e.path) \/ RemoveWhiteout(t, e.path) \/ UNCHANGED <<dir, skipped>>
  BY DEF ExtractEntry
<1> HIDE DEF e
<1>6. CASE UnpackFile(t, e.path)
  BY <1>1, <1>2, <1>3, <1>4, <1>6 DEF UnpackFile, Note
<1>7. CASE RemoveWhiteout(t, e.path)
  BY <1>1, <1>2, <1>3, <1>7 DEF RemoveWhiteout, Note
<1> QED BY <1>2, <1>5, <1>6, <1>7

\* What an entry does to a path, for the pull under the mutex.
LEMMA EntryEffect ==
  ASSUME TypeOK, pulls[Start] \in ActivePulls, ExtractEntry(Start), NEW p \in Paths
  PROVE  Effect(pulls[Start].ref, CurrentLayer(Start).entries[pulls[Start].entry],
                dir, skipped, dir', skipped', p)
<1> DEFINE e == CurrentLayer(Start).entries[pulls[Start].entry]
           r == pulls[Start].ref
<1>1. e.path \in Paths /\ Below[e.path] \subseteq Paths /\ e.kind \in {"file", "whiteout", "opaque"}
  BY EntryTyped, PullTypes, ImagesAssumption DEF Entry
<1>2. dir \in [Paths -> Contents]
  BY DEF TypeOK
<1>3. \/ e.kind = "file" /\ UnpackFile(Start, e.path)
      \/ e.kind = "whiteout" /\ RemoveWhiteout(Start, e.path)
      \/ e.kind = "opaque" /\ UNCHANGED <<dir, skipped>>
  BY DEF ExtractEntry
<1> SUFFICES Effect(r, e, dir, skipped, dir', skipped', p)
  OBVIOUS
<1>4. r = pulls[Start].ref
  OBVIOUS
<1> HIDE DEF e, r
<1>5. CASE e.kind = "file" /\ UnpackFile(Start, e.path)
  <2>1. CASE p = e.path
    BY <1>1, <1>2, <1>4, <1>5, <2>1 DEF UnpackFile, Note, Effect
  <2>2. CASE p # e.path
    <3>1. dir'[p] = dir[p] /\ (p \in skipped' <=> p \in skipped)
      BY <1>1, <1>2, <1>5, <2>2 DEF UnpackFile, Note
    <3> QED BY <1>5, <2>2, <3>1 DEF Effect
  <2> QED BY <2>1, <2>2
<1>6. CASE e.kind = "whiteout" /\ RemoveWhiteout(Start, e.path)
  <2> DEFINE there == {q \in Below[e.path] : dir[q] # Absent}
  <2>1. PICK kept \in SUBSET (there \cap Faulty) :
          /\ dir' = [q \in Paths |-> IF q \in there \ kept THEN Absent ELSE dir[q]]
          /\ skipped' = (skipped \ Below[e.path]) \cup kept
    BY <1>6 DEF RemoveWhiteout, Note
  <2>2. CASE p \in Below[e.path]
    <3>1. p \in skipped' \/ dir'[p] = Absent
      BY <2>1, <2>2
    <3> QED BY <1>6, <2>2, <3>1 DEF Effect
  <2>3. CASE p \notin Below[e.path]
    <3>1. dir'[p] = dir[p] /\ (p \in skipped' <=> p \in skipped)
      BY <2>1, <2>3
    <3> QED BY <1>6, <2>3, <3>1 DEF Effect
  <2> QED BY <2>2, <2>3
<1>7. CASE e.kind = "opaque" /\ UNCHANGED <<dir, skipped>>
  BY <1>7 DEF Effect
<1> QED BY <1>3, <1>5, <1>6, <1>7

\* Where a pull moves to, as one record.
At(q, at) == [q EXCEPT !.at = at]
EntryDone(q) == [q EXCEPT !.entry = @ + 1]
LayerDone(q) == [q EXCEPT !.layer = @ + 1, !.entry = 1]

\* Wherever it moves to, it keeps its reference and its type.
LEMMA PullSteps ==
  ASSUME NEW q \in ActivePulls
  PROVE  /\ \A at \in {"config", "layers", "entrypoint", "volumes", "apply"} :
              /\ At(q, at) \in ActivePulls /\ At(q, at).at = at /\ At(q, at).ref = q.ref
              /\ At(q, at).layer = q.layer /\ At(q, at).entry = q.entry
         /\ /\ EntryDone(q) \in ActivePulls /\ EntryDone(q).at = q.at /\ EntryDone(q).ref = q.ref
            /\ EntryDone(q).layer = q.layer /\ EntryDone(q).entry = q.entry + 1
         /\ /\ LayerDone(q) \in ActivePulls /\ LayerDone(q).at = q.at /\ LayerDone(q).ref = q.ref
            /\ LayerDone(q).layer = q.layer + 1 /\ LayerDone(q).entry = 1
<1>1. ASSUME NEW at \in {"config", "layers", "entrypoint", "volumes", "apply"}
      PROVE  /\ At(q, at) \in ActivePulls /\ At(q, at).at = at /\ At(q, at).ref = q.ref
             /\ At(q, at).layer = q.layer /\ At(q, at).entry = q.entry
  BY DEF At, ActivePulls
<1>2. /\ EntryDone(q) \in ActivePulls /\ EntryDone(q).at = q.at /\ EntryDone(q).ref = q.ref
      /\ EntryDone(q).layer = q.layer /\ EntryDone(q).entry = q.entry + 1
  BY DEF EntryDone, ActivePulls
<1>3. /\ LayerDone(q) \in ActivePulls /\ LayerDone(q).at = q.at /\ LayerDone(q).ref = q.ref
      /\ LayerDone(q).layer = q.layer + 1 /\ LayerDone(q).entry = 1
  <2>1. q.layer + 1 \in Nat \ {0} /\ 1 \in Nat \ {0}
    BY DEF ActivePulls
  <2>2. LayerDone(q) \in ActivePulls
    BY <2>1 DEF LayerDone, ActivePulls
  <2> QED BY <2>2 DEF LayerDone, ActivePulls
<1> QED BY <1>1, <1>2, <1>3

\* The steps of a pull, each as the record it leaves.
LEMMA PullForms ==
  ASSUME TypeOK, NEW t \in Pullers
  PROVE  /\ pull_and_extract(t) \/ Fails(t) \/ NoEntrypoint(t) \/ UpdateFound(t)
              => pulls[t] \in ActivePulls
         /\ PullManifest(t) => pulls' = [pulls EXCEPT ![t] = At(pulls[t], "config")]
         /\ WriteConfig(t) => pulls' = [pulls EXCEPT ![t] = At(pulls[t], "layers")]
         /\ ExtractEntry(t) => pulls' = [pulls EXCEPT ![t] = EntryDone(pulls[t])]
         /\ NextLayer(t) => pulls' = [pulls EXCEPT ![t] = LayerDone(pulls[t])]
         /\ Pulled(t) => pulls' = [pulls EXCEPT ![t] = At(pulls[t], "entrypoint")]
         /\ UpdateFound(t) => pulls' = [pulls EXCEPT ![t] = At(pulls[t], "apply")]
         /\ Fails(t) \/ NoEntrypoint(t) => pulls' = [pulls EXCEPT ![t] = IdlePull]
<1>1. pull_and_extract(t) \/ Fails(t) \/ NoEntrypoint(t) \/ UpdateFound(t)
        => pulls[t] \in ActivePulls
  BY PullTypes DEF pull_and_extract, PullManifest, WriteConfig, ExtractEntry, NextLayer, Pulled,
     Fails, NoEntrypoint, UpdateFound
<1>2. ASSUME PullManifest(t) PROVE pulls' = [pulls EXCEPT ![t] = At(pulls[t], "config")]
  BY <1>2 DEF PullManifest, Go, At
<1>3. ASSUME WriteConfig(t) PROVE pulls' = [pulls EXCEPT ![t] = At(pulls[t], "layers")]
  BY <1>3 DEF WriteConfig, Go, At
<1>4. ASSUME ExtractEntry(t) PROVE pulls' = [pulls EXCEPT ![t] = EntryDone(pulls[t])]
  BY <1>4 DEF ExtractEntry, EntryDone
<1>5. ASSUME NextLayer(t) PROVE pulls' = [pulls EXCEPT ![t] = LayerDone(pulls[t])]
  BY <1>5, PullTypes DEF NextLayer, LayerDone
<1>6. ASSUME Pulled(t) PROVE pulls' = [pulls EXCEPT ![t] = At(pulls[t], "entrypoint")]
  BY <1>6 DEF Pulled, Go, At
<1>7. ASSUME UpdateFound(t) PROVE pulls' = [pulls EXCEPT ![t] = At(pulls[t], "apply")]
  BY <1>7 DEF UpdateFound, Go, At
<1>8. ASSUME Fails(t) \/ NoEntrypoint(t) PROVE pulls' = [pulls EXCEPT ![t] = IdlePull]
  BY <1>8 DEF Fails, NoEntrypoint, Returns
<1> QED BY <1>1, <1>2, <1>3, <1>4, <1>5, <1>6, <1>7, <1>8

-----------------------------------------------------------------------------
\* What the type says of the volumes.
LEMMA VolumeTypes ==
  /\ Len(Volumes) \in Nat /\ 0 \in 0..Len(Volumes)
  /\ \A i \in 1..Len(Volumes) : Volumes[i] \in Paths /\ Volumes[i] \in VolumePaths
  /\ \A v \in VolumePaths : \E i \in 1..Len(Volumes) : v = Volumes[i]
<1>1. Volumes \in Seq(Paths)
  BY ImagesAssumption
<1> QED BY <1>1 DEF VolumePaths

\* Initially nothing is pulled.
LEMMA InitImageInv == Init => ImageInv
<1> SUFFICES ASSUME Init PROVE ImageInv
  OBVIOUS
<1>1. 0 \in 0..MaxStarts
  BY ImagesAssumption
<1>2. TypeOK
  <2>1. dir \in [Paths -> Contents]
    <3>1. Absent \in Contents
      BY DEF Contents
    <3> QED BY <3>1 DEF Init
  <2>2. pulls \in [Pullers -> {IdlePull} \cup ActivePulls]
    BY DEF Init
  <2>3. /\ config \in References \cup {Absent} /\ app = Absent
        /\ starts \in 0..MaxStarts /\ alone \in BOOLEAN
        /\ skipped \subseteq Paths /\ found \in Paths \cup {Absent} /\ mounted \in 0..Len(Volumes)
    BY <1>1, VolumeTypes DEF Init
  <2> QED BY <2>1, <2>2, <2>3 DEF TypeOK, ActivePulls
<1>3. AloneInPlace
  BY DEF Init, AloneInPlace
<1> QED BY <1>2, <1>3 DEF ImageInv

\* Every step keeps the type.
LEMMA NextImageTyped ==
  ASSUME TypeOK, [Next]_vars
  PROVE  TypeOK'
<1>1. ASSUME NEW r \in References, Run(r) PROVE TypeOK'
  BY <1>1, PullTypes, VolumeTypes, ImagesAssumption DEF TypeOK, Run, BeginPull, ActivePulls
<1>2. ASSUME NEW r \in References, NEW t \in Updates, BeginUpdate(t, r) PROVE TypeOK'
  <2>1. pulls' \in [Pullers -> {IdlePull} \cup ActivePulls]
    BY <1>2, PullTypes DEF BeginUpdate
  <2>2. UNCHANGED <<dir, config, skipped, found, mounted, app, starts>> /\ alone' \in BOOLEAN
    BY <1>2 DEF BeginUpdate, startVars
  <2> QED BY <2>1, <2>2 DEF TypeOK, ActivePulls
<1> DEFINE AppType == [ref : References, running : BOOLEAN, program : Paths \cup {Absent}]
<1>3. CASE Restart
  <2>1. app \in AppType /\ app.ref \in References
    BY <1>3 DEF Restart, TypeOK
  <2>2. app' \in AppType
    BY <1>3, <2>1 DEF Restart
  <2> QED BY <1>3, <2>1, <2>2, PullTypes, VolumeTypes, ImagesAssumption
          DEF TypeOK, Restart, BeginPull, ActivePulls
<1>4. CASE Exit \/ Delete
  <2>1. app' \in {Absent} \cup AppType
    <3>1. CASE Exit
      <4>1. app \in AppType
        BY <3>1 DEF Exit, TypeOK
      <4> QED BY <3>1, <4>1 DEF Exit
    <3>2. CASE Delete
      BY <3>2 DEF Delete
    <3> QED BY <1>4, <3>1, <3>2
  <2> QED BY <1>4, <2>1 DEF TypeOK, Exit, Delete, startVars
<1>5. ASSUME NEW t \in Pullers, pull_and_extract(t) \/ Fails(t) \/ NoEntrypoint(t) \/ UpdateFound(t)
      PROVE  TypeOK'
  <2>1. pulls[t] \in ActivePulls /\ pulls[t].ref \in References
    BY <1>5, PullForms DEF ActivePulls
  <2>2. pulls' \in [Pullers -> {IdlePull} \cup ActivePulls]
    BY <1>5, <2>1, PullForms, PullSteps, PullGoes DEF pull_and_extract
  <2>3. ExtractEntry(t) => dir' \in [Paths -> Contents] /\ skipped' \subseteq Paths
    BY <2>1, ExtractedTyped
  <2>4. config' \in References \cup {Absent}
    BY <1>5, <2>1 DEF pull_and_extract, PullManifest, WriteConfig, ExtractEntry, NextLayer, Pulled,
       Fails, NoEntrypoint, UpdateFound, TypeOK
  <2> QED BY <1>5, <2>2, <2>3, <2>4
      DEF pull_and_extract, PullManifest, WriteConfig, ExtractEntry, NextLayer, Pulled,
          Fails, NoEntrypoint, UpdateFound, startVars, TypeOK, ActivePulls
<1>6. CASE Spawn
  <2>1. pulls[Start].ref \in References /\ found \in Paths \cup {Absent}
    BY <1>6, PullTypes DEF Spawn, ActivePulls, TypeOK
  <2>2. app' \in AppType
    BY <1>6, <2>1 DEF Spawn
  <2>3. pulls' \in [Pullers -> {IdlePull} \cup ActivePulls]
    BY <1>6, PullTypes DEF Spawn, Returns
  <2> QED BY <1>6, <2>2, <2>3 DEF Spawn, startVars, TypeOK, ActivePulls
<1>9. ASSUME NEW p \in Paths, StartFound(p) PROVE TypeOK'
  <2>1. pulls[Start] \in ActivePulls /\ pulls' = [pulls EXCEPT ![Start] = At(pulls[Start], "volumes")]
    BY <1>9, PullTypes DEF StartFound, Go, At
  <2>2. pulls' \in [Pullers -> {IdlePull} \cup ActivePulls]
    BY <2>1, PullSteps, PullGoes, PullTypes
  <2> QED BY <1>9, <2>2 DEF StartFound, TypeOK, ActivePulls
<1>10. CASE MountVolume
  <2>1. mounted + 1 \in 1..Len(Volumes) /\ Volumes[mounted + 1] \in Paths
    BY <1>10, VolumeTypes DEF MountVolume, TypeOK
  <2>2. pulls' \in [Pullers -> {IdlePull} \cup ActivePulls]
    BY <1>10, PullTypes DEF MountVolume, Returns
  <2>3. Host \in Contents /\ Partial \in Contents
    BY DEF Contents
  <2>4. dir' \in [Paths -> Contents] /\ mounted' \in 0..Len(Volumes)
    BY <1>10, <2>1, <2>3, VolumeTypes DEF MountVolume, TypeOK
  <2> QED BY <1>10, <2>2, <2>4 DEF MountVolume, TypeOK, ActivePulls
<1>7. ASSUME NEW t \in Updates, Update(t) PROVE TypeOK'
  <2>1. pulls[t].ref \in References
    BY <1>7, PullTypes DEF Update, ActivePulls
  <2>2. CASE app = Absent
    BY <1>7, <2>2 DEF Update, Returns, startVars, TypeOK
  <2>3. CASE app # Absent
    <3>1. app \in AppType
      BY <2>3 DEF TypeOK
    <3>2. app' \in AppType
      BY <1>7, <2>1, <2>3, <3>1 DEF Update
    <3> QED BY <1>7, <2>1, <2>3, <3>2, PullTypes, VolumeTypes, ImagesAssumption
            DEF Update, BeginPull, TypeOK, ActivePulls
  <2> QED BY <2>2, <2>3
<1>8. CASE UNCHANGED vars
  BY <1>8 DEF vars, startVars, TypeOK
<1> QED BY <1>1, <1>2, <1>3, <1>4, <1>5, <1>6, <1>7, <1>8, <1>9, <1>10, PullTypes DEF Next
-----------------------------------------------------------------------------
\* A pull under the mutex begins: it is alone if nothing else writes then.
LEMMA BeginAlone ==
  ASSUME TypeOK, NEW r \in References, alone' = (Others = {}), mounted' = 0,
         pulls'[Start] = NewPull(r),
         \A t \in Updates : pulls'[t].at \in {"manifest", "config", "layers"} => pulls'[t] = pulls[t]
  PROVE  AloneInPlace'
<1>1. Others' \subseteq Others
  BY DEF Others
<1>2. NewPull(r).at = "manifest" /\ NewPull(r).layer = 1 /\ NewPull(r).entry = 1
  BY DEF NewPull
<1> QED BY <1>1, <1>2 DEF AloneInPlace

\* Another pull cannot touch the directory while the one under the mutex is alone.
LEMMA OthersAlone ==
  ASSUME ImageInv, NEW t \in Updates,
         pull_and_extract(t) \/ Fails(t) \/ NoEntrypoint(t) \/ UpdateFound(t)
  PROVE  AloneInPlace'
<1>1. t \in Pullers /\ t # Start /\ TypeOK
  BY PullTypes DEF ImageInv
<1>2. pulls[t] \in ActivePulls /\ alone' = alone
  BY <1>1, PullForms DEF pull_and_extract, PullManifest, WriteConfig, ExtractEntry, NextLayer,
     Pulled, Fails, NoEntrypoint, UpdateFound
<1>3. pulls'[Start] = pulls[Start] /\ \A u \in Updates \ {t} : pulls'[u] = pulls[u]
  BY <1>1, <1>2, PullForms, PullSteps, PullGoes, PullTypes DEF pull_and_extract
<1> SUFFICES ASSUME alone, pulls[Start] # IdlePull
             PROVE  AloneInPlace'
  BY <1>2, <1>3 DEF AloneInPlace
<1>4. Others = {} /\ pulls[t].at \notin {"manifest", "config", "layers"}
  BY DEF ImageInv, AloneInPlace, Others
<1>5. UNCHANGED <<dir, config, skipped, found, mounted>> /\ pulls'[t].at \in {"idle", "apply"}
  <2>1. Fails(t) \/ NoEntrypoint(t) \/ UpdateFound(t)
    BY <1>4 DEF pull_and_extract, PullManifest, WriteConfig, ExtractEntry, NextLayer, Pulled
  <2>2. pulls'[t].at \in {"idle", "apply"}
    BY <1>1, <1>2, <2>1, PullForms, PullSteps, PullGoes, PullTypes DEF IdlePull
  <2> QED BY <2>1, <2>2 DEF Fails, NoEntrypoint, UpdateFound, startVars
<1>6. Others' = {}
  BY <1>3, <1>4, <1>5 DEF Others
<1> QED BY <1>2, <1>3, <1>5, <1>6 DEF ImageInv, AloneInPlace

\* The pull under the mutex extends what it has done.
LEMMA StartAlone ==
  ASSUME ImageInv, pull_and_extract(Start)
  PROVE  AloneInPlace'
<1>1. Start \in Pullers /\ TypeOK /\ pulls[Start] \in ActivePulls /\ alone' = alone
  BY PullTypes, PullForms DEF ImageInv, pull_and_extract, PullManifest, WriteConfig,
     ExtractEntry, NextLayer, Pulled
<1>2. PICK q \in ActivePulls : q = pulls[Start]
  BY <1>1
<1>3. q.ref \in References /\ q.layer \in Nat \ {0} /\ q.entry \in Nat \ {0}
  BY DEF ActivePulls
<1>4. \A u \in Updates : pulls'[u] = pulls[u]
  BY <1>1, PullForms, PullSteps, PullGoes, PullTypes DEF pull_and_extract
<1>5. Others' = Others
  BY <1>4 DEF Others
<1> SUFFICES ASSUME alone PROVE AloneInPlace'
  BY <1>1 DEF AloneInPlace
<1>6. /\ Others = {}
      /\ q.at \in {"manifest", "config"} => q.layer = 1 /\ q.entry = 1
      /\ q.at = "layers" =>
           config = q.ref /\ \A p \in Paths : InPlace(dir, skipped, q.ref, q.layer, q.entry, p)
      /\ q.at # "volumes" => mounted = 0
      /\ q.at # "volumes" /\ mounted' = mounted
  BY <1>1, <1>2, PullTypes DEF ImageInv, AloneInPlace, IdlePull, ActivePulls,
     pull_and_extract, PullManifest, WriteConfig, ExtractEntry, NextLayer, Pulled, startVars
<1>7. CASE PullManifest(Start)
  <2>1. /\ pulls'[Start].at = "config" /\ pulls'[Start].layer = q.layer
        /\ pulls'[Start].entry = q.entry /\ q.at = "manifest"
    BY <1>1, <1>2, <1>7, PullForms, PullSteps, PullGoes DEF PullManifest
  <2> QED BY <1>5, <1>6, <2>1 DEF AloneInPlace
<1>8. CASE WriteConfig(Start)
  <2>1. /\ pulls'[Start].at = "layers" /\ pulls'[Start].ref = q.ref
        /\ pulls'[Start].layer = q.layer /\ pulls'[Start].entry = q.entry
        /\ q.at = "config" /\ config' = q.ref
    BY <1>1, <1>2, <1>8, PullForms, PullSteps, PullGoes DEF WriteConfig
  <2>2. \A p \in Paths : InPlace(dir', skipped', q.ref, 1, 1, p)
    BY <1>3, InPlaceFirst
  <2> QED BY <1>5, <1>6, <2>1, <2>2 DEF AloneInPlace
<1>9. CASE ExtractEntry(Start)
  <2>1. /\ pulls'[Start].at = "layers" /\ pulls'[Start].ref = q.ref
        /\ pulls'[Start].layer = q.layer /\ pulls'[Start].entry = q.entry + 1
        /\ q.at = "layers" /\ config' = config
    <3>1. q.at = "layers" /\ config' = config
      BY <1>2, <1>9 DEF ExtractEntry
    <3>2. pulls' = [pulls EXCEPT ![Start] = EntryDone(q)] /\ EntryDone(q) \in ActivePulls
      BY <1>1, <1>2, <1>9, PullForms, PullSteps
    <3>3. pulls'[Start] = EntryDone(q)
      BY <1>1, <3>2, PullGoes
    <3> QED BY <3>1, <3>3, PullSteps
  <2>2. /\ q.layer \in DOMAIN Layers(q.ref) /\ Layers(q.ref)[q.layer].known
        /\ q.entry \in DOMAIN Layers(q.ref)[q.layer].entries
        /\ CurrentLayer(Start) = Layers(q.ref)[q.layer]
    BY <1>1, <1>2, <1>9, EntryTyped DEF CurrentLayer
  <2>3. \A p \in Paths : InPlace(dir', skipped', q.ref, q.layer, q.entry + 1, p)
    <3> SUFFICES ASSUME NEW p \in Paths
                 PROVE  InPlace(dir', skipped', q.ref, q.layer, q.entry + 1, p)
      OBVIOUS
    <3>1. InPlace(dir, skipped, q.ref, q.layer, q.entry, p)
      BY <1>6, <2>1
    <3>2. Effect(q.ref, Layers(q.ref)[q.layer].entries[q.entry], dir, skipped, dir', skipped', p)
      BY <1>1, <1>2, <1>9, <2>2, EntryEffect
    <3> QED BY <1>3, <2>2, <3>1, <3>2, InPlaceEntry
  <2> QED BY <1>5, <1>6, <2>1, <2>3 DEF AloneInPlace
<1>10. CASE NextLayer(Start)
  <2>1. /\ pulls'[Start].at = "layers" /\ pulls'[Start].ref = q.ref
        /\ pulls'[Start].layer = q.layer + 1 /\ pulls'[Start].entry = 1
        /\ q.at = "layers" /\ config' = config /\ dir' = dir /\ skipped' = skipped
    <3>1. q.at = "layers" /\ config' = config /\ dir' = dir /\ skipped' = skipped
      BY <1>2, <1>10 DEF NextLayer
    <3>2. pulls' = [pulls EXCEPT ![Start] = LayerDone(q)] /\ LayerDone(q) \in ActivePulls
      BY <1>1, <1>2, <1>10, PullForms, PullSteps
    <3>3. pulls'[Start] = LayerDone(q)
      BY <1>1, <3>2, PullGoes
    <3> QED BY <3>1, <3>3, PullSteps
  <2>2. /\ q.layer \in DOMAIN Layers(q.ref)
        /\ ~(Layers(q.ref)[q.layer].known /\ q.entry <= Len(Layers(q.ref)[q.layer].entries))
    BY <1>2, <1>3, <1>10, LayerTypes DEF NextLayer, MoreEntries, MoreLayers, CurrentLayer
  <2>3. \A p \in Paths : InPlace(dir, skipped, q.ref, q.layer + 1, 1, p)
    BY <1>3, <1>6, <2>1, <2>2, InPlaceNext
  <2> QED BY <1>5, <1>6, <2>1, <2>3 DEF AloneInPlace
<1>11. CASE Pulled(Start)
  <2>1. /\ pulls'[Start].at = "entrypoint" /\ pulls'[Start].ref = q.ref
        /\ pulls'[Start].layer = q.layer /\ pulls'[Start].entry = q.entry
        /\ q.at = "layers" /\ config' = config /\ dir' = dir /\ skipped' = skipped
    BY <1>1, <1>2, <1>11, PullForms, PullSteps, PullGoes DEF Pulled
  <2>2. q.layer > Len(Layers(q.ref))
    BY <1>2, <1>3, <1>11, LayerTypes DEF Pulled, MoreLayers
  <2> QED BY <1>5, <1>6, <2>1, <2>2 DEF AloneInPlace
<1> QED BY <1>7, <1>8, <1>9, <1>10, <1>11 DEF pull_and_extract

\* The entrypoint is the one of the configuration, which is that of the reference.
LEMMA FoundAlone ==
  ASSUME ImageInv, NEW x \in Paths, StartFound(x)
  PROVE  AloneInPlace'
<1>1. /\ TypeOK /\ Start \in Pullers /\ pulls[Start].at = "entrypoint" /\ pulls[Start] \in ActivePulls
      /\ UNCHANGED <<dir, config, skipped, mounted, app, starts, alone>>
      /\ found' = x /\ x \in FindEntrypoint(dir, config)
      /\ pulls' = [pulls EXCEPT ![Start] = At(pulls[Start], "volumes")]
  BY PullTypes DEF ImageInv, StartFound, Go, At
<1>2. PICK q \in ActivePulls : q = pulls[Start]
  BY <1>1
<1>3. /\ pulls'[Start] = At(q, "volumes") /\ \A u \in Updates : pulls'[u] = pulls[u]
      /\ At(q, "volumes") \in ActivePulls /\ At(q, "volumes").at = "volumes"
      /\ At(q, "volumes").ref = q.ref /\ At(q, "volumes").layer = q.layer
      /\ At(q, "volumes").entry = q.entry
  BY <1>1, <1>2, PullSteps, PullGoes, PullTypes
<1>4. Others' = Others
  BY <1>3 DEF Others
<1> SUFFICES ASSUME alone PROVE AloneInPlace'
  BY <1>1 DEF AloneInPlace
<1>5. /\ Others = {} /\ config = q.ref /\ mounted = 0 /\ q.layer > Len(Layers(q.ref))
      /\ \A p \in Paths : InPlace(dir, skipped, q.ref, q.layer, q.entry, p)
  BY <1>1, <1>2 DEF ImageInv, AloneInPlace, IdlePull
<1>6. Image[q.ref].entrypoint # Absent => x = Image[q.ref].entrypoint
  BY <1>1, <1>2, <1>5, ImagesAssumption DEF FindEntrypoint, ActivePulls
<1>7. \A i \in 1..mounted' : dir'[Volumes[i]] = Host
  BY <1>1, <1>5
<1> QED BY <1>1, <1>3, <1>4, <1>5, <1>6, <1>7 DEF AloneInPlace

\* A volume is copied to its place, and every other path stays as it is.
LEMMA MountAlone ==
  ASSUME ImageInv, MountVolume
  PROVE  AloneInPlace'
<1>1. /\ TypeOK /\ Start \in Pullers /\ pulls[Start].at = "volumes"
      /\ UNCHANGED <<config, skipped, found, app, starts, alone>>
  BY PullTypes DEF ImageInv, MountVolume
<1>2. CASE pulls' = [pulls EXCEPT ![Start] = IdlePull]
  BY <1>1, <1>2, PullTypes DEF AloneInPlace
<1>3. CASE pulls' # [pulls EXCEPT ![Start] = IdlePull]
  <2> DEFINE v == Volumes[mounted + 1]
  <2>1. dir' = [dir EXCEPT ![v] = Host] /\ mounted' = mounted + 1 /\ pulls' = pulls
    BY <1>3 DEF MountVolume, Returns
  <2>2. mounted \in Nat /\ v \in Paths /\ v \in VolumePaths /\ mounted + 1 \in 1..Len(Volumes)
    BY <1>1, VolumeTypes DEF MountVolume, TypeOK
  <2>3. dir \in [Paths -> Contents]
    BY <1>1 DEF TypeOK
  <2>4. dir'[v] = Host /\ \A p \in Paths \ {v} : dir'[p] = dir[p]
    BY <2>1, <2>2, <2>3
  <2> SUFFICES ASSUME alone, pulls[Start] # IdlePull PROVE AloneInPlace'
    BY <1>1, <2>1 DEF AloneInPlace
  <2>5. PICK q : q = pulls[Start]
    OBVIOUS
  <2>6. /\ Others = {} /\ q.at = "volumes"
        /\ config = q.ref
        /\ \A p \in Paths \ VolumePaths : InPlace(dir, skipped, q.ref, q.layer, q.entry, p)
        /\ q.layer > Len(Layers(q.ref))
        /\ \A i \in 1..mounted : dir[Volumes[i]] = Host
        /\ Image[q.ref].entrypoint # Absent => found = Image[q.ref].entrypoint
    BY <1>1, <2>5 DEF ImageInv, AloneInPlace
  <2>7. \A i \in 1..mounted' : dir'[Volumes[i]] = Host
    <3> SUFFICES ASSUME NEW i \in 1..(mounted + 1) PROVE dir'[Volumes[i]] = Host
      BY <2>1
    <3>1. CASE Volumes[i] = v
      BY <3>1, <2>4
    <3>2. CASE Volumes[i] # v
      <4>1. i \in 1..mounted
        BY <3>2, <2>2
      <4>2. Volumes[i] \in Paths \ {v}
        BY <3>2, <4>1, <2>2, VolumeTypes
      <4> QED BY <4>1, <4>2, <2>4, <2>6
    <3> QED BY <3>1, <3>2
  <2>8. \A p \in Paths \ VolumePaths : InPlace(dir', skipped, q.ref, q.layer, q.entry, p)
    <3> SUFFICES ASSUME NEW p \in Paths \ VolumePaths
                 PROVE  InPlace(dir', skipped, q.ref, q.layer, q.entry, p)
      OBVIOUS
    <3>1. dir'[p] = dir[p] /\ InPlace(dir, skipped, q.ref, q.layer, q.entry, p)
      BY <2>2, <2>4, <2>6
    <3> QED BY <3>1 DEF InPlace
  <2>9. Others' = Others /\ pulls'[Start] = q
    BY <2>1, <2>5 DEF Others
  <2> HIDE <2>1
  <2> QED BY <1>1, <2>6, <2>7, <2>8, <2>9 DEF AloneInPlace
<1> QED BY <1>2, <1>3

\* Every step keeps the invariant.
LEMMA NextImageInv ==
  ASSUME ImageInv, [Next]_vars
  PROVE  ImageInv'
<1>0. TypeOK /\ TypeOK'
  BY NextImageTyped DEF ImageInv
<1> SUFFICES AloneInPlace'
  BY <1>0 DEF ImageInv
<1>1. ASSUME NEW r \in References, Run(r) PROVE AloneInPlace'
  BY <1>1, <1>0, BeginAlone, PullTypes DEF Run, BeginPull
<1>2. ASSUME NEW r \in References, NEW t \in Updates, BeginUpdate(t, r) PROVE AloneInPlace'
  BY <1>2 DEF BeginUpdate, AloneInPlace
<1>3. CASE Restart
  <2>1. app.ref \in References
    BY <1>0, <1>3 DEF Restart, TypeOK
  <2> QED BY <1>3, <1>0, <2>1, BeginAlone, PullTypes DEF Restart, BeginPull
<1>4. CASE Exit \/ Delete \/ UNCHANGED vars
  BY <1>4 DEF Exit, Delete, vars, startVars, ImageInv, AloneInPlace, Others
<1>5. ASSUME NEW t \in Updates,
             pull_and_extract(t) \/ Fails(t) \/ NoEntrypoint(t) \/ UpdateFound(t)
      PROVE  AloneInPlace'
  BY <1>5, OthersAlone
<1>6. CASE pull_and_extract(Start)
  BY <1>6, StartAlone
<1>7. ASSUME pulls' = [pulls EXCEPT ![Start] = IdlePull] PROVE AloneInPlace'
  BY <1>7, <1>0, PullTypes DEF AloneInPlace
<1>8. CASE Fails(Start) \/ NoEntrypoint(Start)
  BY <1>7, <1>8 DEF Fails, NoEntrypoint, Returns
<1>9. CASE Spawn
  BY <1>7, <1>9 DEF Spawn, Returns
<1>11. ASSUME NEW p \in Paths, StartFound(p) PROVE AloneInPlace'
  BY <1>11, <1>0, FoundAlone DEF ImageInv
<1>12. CASE MountVolume
  BY <1>12, <1>0, MountAlone DEF ImageInv
<1>10. ASSUME NEW t \in Updates, Update(t) PROVE AloneInPlace'
  <2>1. pulls[t].ref \in References /\ t # Start
    BY <1>0, <1>10, PullTypes DEF Update, ActivePulls
  <2>2. CASE app = Absent
    <3>1. pulls'[Start] = pulls[Start] /\ pulls[Start] = IdlePull
      BY <1>0, <1>10, <2>1, <2>2, PullTypes DEF Update, LockFree, Returns
    <3> QED BY <3>1 DEF AloneInPlace
  <2>3. CASE app # Absent
    <3>1. /\ pulls'[Start] = NewPull(pulls[t].ref) /\ pulls'[t] = IdlePull
          /\ \A u \in Updates \ {t} : pulls'[u] = pulls[u]
          /\ alone' = (Others = {}) /\ mounted' = 0
      BY <1>0, <1>10, <2>1, <2>3, PullTypes DEF Update, BeginPull
    <3>2. IdlePull.at = "idle"
      BY DEF IdlePull
    <3> QED BY <1>0, <2>1, <3>1, <3>2, BeginAlone
  <2> QED BY <2>2, <2>3
<1> QED BY <1>1, <1>2, <1>3, <1>4, <1>5, <1>6, <1>8, <1>9, <1>10, <1>11, <1>12, PullTypes, <1>0
   DEF Next, UpdateFound

-----------------------------------------------------------------------------
\* The directory is typed, and a pull that is alone has made of it what it should.
THEOREM ImageInvariantHolds == Spec => []ImageInv
  BY InitImageInv, NextImageInv, PTL DEF Spec

\* An application comes to run when start_process has copied the volumes, and in no
\* other step.
LEMMA OnlySpawnRuns ==
  ASSUME ImageInv, [Next]_vars, Spawned
  PROVE  Spawn
<1>1. app' # app /\ app'.running /\ app' # Absent
  BY DEF Spawned
<1>2. app \in {Absent} \cup [ref : References, running : BOOLEAN, program : Paths \cup {Absent}]
  BY DEF ImageInv, TypeOK
<1>3. ~Restart /\ ~Exit /\ ~Delete /\ ~(UNCHANGED vars)
  BY <1>1, <1>2 DEF Restart, Exit, Delete, vars
<1>4. \A t \in Updates : ~Update(t)
  BY <1>1, <1>2 DEF Update
<1> QED BY <1>1, <1>3, <1>4 DEF Next, Run, BeginUpdate, pull_and_extract, PullManifest, WriteConfig,
    ExtractEntry, NextLayer, Pulled, Fails, NoEntrypoint, UpdateFound, StartFound, MountVolume

\* What is known of a pull that spawns alone.
LEMMA SpawnAlone ==
  ASSUME ImageInv, Spawn, alone
  PROVE  /\ pulls[Start].ref \in References
         /\ app'.ref = pulls[Start].ref /\ app'.program = found
         /\ UNCHANGED <<dir, skipped>>
         /\ \A v \in VolumePaths : dir[v] = Host
         /\ \A p \in Paths \ VolumePaths :
              InPlace(dir, skipped, pulls[Start].ref, pulls[Start].layer, pulls[Start].entry, p)
         /\ pulls[Start].layer \in Nat
         /\ pulls[Start].layer > Len(Layers(pulls[Start].ref))
         /\ Image[pulls[Start].ref].entrypoint # Absent => found = Image[pulls[Start].ref].entrypoint
<1>1. /\ TypeOK /\ pulls[Start].at = "volumes" /\ mounted = Len(Volumes)
      /\ pulls[Start] \in ActivePulls /\ pulls[Start] # IdlePull
  BY PullTypes DEF ImageInv, Spawn, IdlePull
<1>2. PICK q \in ActivePulls : q = pulls[Start]
  BY <1>1
<1>3. q.ref \in References /\ q.layer \in Nat
  BY DEF ActivePulls
<1>4. /\ \A i \in 1..Len(Volumes) : dir[Volumes[i]] = Host
      /\ \A p \in Paths \ VolumePaths : InPlace(dir, skipped, q.ref, q.layer, q.entry, p)
      /\ q.layer > Len(Layers(q.ref))
      /\ Image[q.ref].entrypoint # Absent => found = Image[q.ref].entrypoint
  BY <1>1, <1>2 DEF ImageInv, AloneInPlace
<1>5. \A v \in VolumePaths : dir[v] = Host
  BY <1>4, VolumeTypes
<1>6. app'.ref = q.ref /\ app'.program = found /\ UNCHANGED <<dir, skipped>>
  BY <1>2 DEF Spawn
<1> QED BY <1>2, <1>3, <1>4, <1>5, <1>6

\* What a program finds when it starts is its volumes over its image, on every path the
\* image mentions, whatever an earlier image, a failed pull or a pull that was given up
\* has left, unless another pull was at work, an entry was passed over or a layer is
\* misread there.
THEOREM ImageIsInPlace == Spec => ImageInPlace
<1>1. ASSUME ImageInv, [Next]_vars
      PROVE  [Spawned /\ alone =>
                /\ \A v \in VolumePaths : dir'[v] = Host
                /\ \A p \in Mentioned(app'.ref) \ VolumePaths :
                     \/ p \in skipped'
                     \/ Misread(TopLayer(app'.ref, p), p)
                     \/ dir'[p] = Overlay(app'.ref, p)]_vars
  <2> SUFFICES ASSUME Spawned, alone
               PROVE  /\ \A v \in VolumePaths : dir'[v] = Host
                      /\ \A p \in Mentioned(app'.ref) \ VolumePaths :
                           \/ p \in skipped'
                           \/ Misread(TopLayer(app'.ref, p), p)
                           \/ dir'[p] = Overlay(app'.ref, p)
    OBVIOUS
  <2>1. Spawn
    BY <1>1, OnlySpawnRuns
  <2>2. PICK q : q = pulls[Start]
    OBVIOUS
  <2>3. /\ q.ref \in References /\ app'.ref = q.ref /\ UNCHANGED <<dir, skipped>>
        /\ \A v \in VolumePaths : dir[v] = Host
        /\ \A p \in Paths \ VolumePaths : InPlace(dir, skipped, q.ref, q.layer, q.entry, p)
        /\ q.layer \in Nat /\ q.layer > Len(Layers(q.ref))
    BY <1>1, <2>1, <2>2, SpawnAlone
  <2>4. Mentioned(q.ref) \subseteq Paths
    BY DEF Mentioned
  <2>5. \A p \in Mentioned(q.ref) \ VolumePaths :
          p \in skipped \/ Misread(TopLayer(q.ref, p), p) \/ dir[p] = Overlay(q.ref, p)
    BY <2>3, <2>4, InPlaceLast
  <2> QED BY <2>3, <2>5
<1> QED BY <1>1, ImageInvariantHolds, PTL DEF Spec, ImageInPlace

\* The program is the one the image of the entry names, under the same condition:
\* the configuration in the directory is that image's.
THEOREM RightProgramHolds == Spec => RightProgram
<1>1. ASSUME ImageInv, [Next]_vars
      PROVE  [Spawned /\ alone /\ Image[app'.ref].entrypoint # Absent
                => app'.program = Image[app'.ref].entrypoint]_vars
  <2> SUFFICES ASSUME Spawned, alone, Image[app'.ref].entrypoint # Absent
               PROVE  app'.program = Image[app'.ref].entrypoint
    OBVIOUS
  <2>1. Spawn
    BY <1>1, OnlySpawnRuns
  <2> QED BY <1>1, <2>1, SpawnAlone
<1> QED BY <1>1, ImageInvariantHolds, PTL DEF Spec, RightProgram
====
