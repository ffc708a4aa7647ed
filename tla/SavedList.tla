---- MODULE SavedList ----
(***************************************************************************)
(* What the store promises of the saved process list: a save is not        *)
(* atomic, but it is done only when its list, and nothing else, is stored, *)
(* and as long as no save is pending nothing changes.                      *)
(***************************************************************************)
CONSTANTS Names, Versions, Absent

VARIABLES
  stored,   \* the list that survives
  pending   \* the lists that were to be saved and are not known to be

vars == <<stored, pending>>

Lists == [Names -> Versions \cup {Absent}]

Init ==
  /\ stored = [n \in Names |-> Absent]
  /\ pending = {} \/ \E list \in Lists : pending = {list}

Try(list) ==
  /\ pending' = pending \cup {list}
  /\ UNCHANGED stored

\* Any part of a pending save.
Change ==
  /\ pending # {}
  /\ \A n \in Names : stored'[n] \in {stored[n], Absent} \cup {list[n] : list \in pending}
  /\ stored' = [n \in Names |-> stored'[n]]
  /\ UNCHANGED pending

Done(list) ==
  /\ list \in pending
  /\ stored = list
  /\ pending' \subseteq pending
  /\ UNCHANGED stored

Next == Change \/ \E list \in Lists : Try(list) \/ Done(list)

Spec == Init /\ [][Next]_vars
====
