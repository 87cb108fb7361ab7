------------------------------ MODULE RowStore ------------------------------
(***************************************************************************)
(* What a partition promises its callers: a row that was added is kept,    *)
(* first in memory and later on disk; a crash costs what is in memory, and *)
(* only rows of deleted series or outside the retention are left out.      *)
(***************************************************************************)
CONSTANTS Rows, Perishable

VARIABLES
  mem,   \* rows a crash would lose
  disk,  \* rows that survive a crash
  dead,  \* rows of deleted series or outside the retention
  gone   \* dead rows that have been left out

vars == <<mem, disk, dead, gone>>

Init == mem = {} /\ disk = {} /\ dead = {} /\ gone = {}

\* A new row arrives in memory.
Add(r) ==
  /\ r \notin mem \cup disk \cup gone
  /\ mem' = mem \cup {r}
  /\ UNCHANGED <<disk, dead, gone>>

\* Some rows move to disk, and some dead rows disappear for good.
Persist(moved, lost) ==
  /\ moved \subseteq mem /\ lost \subseteq (mem \cup disk) \cap dead
  /\ mem' = mem \ (moved \cup lost)
  /\ disk' = (disk \cup moved) \ lost
  /\ gone' = gone \cup lost
  /\ UNCHANGED dead

\* A series is deleted, or a row leaves the retention.
Perish(r) == dead' = dead \cup {r} /\ UNCHANGED <<mem, disk, gone>>

\* The process dies.
Crash == mem' = {} /\ UNCHANGED <<disk, dead, gone>>

Next ==
  \/ \E r \in Rows : Add(r)
  \/ \E moved \in SUBSET mem, lost \in SUBSET dead : Persist(moved, lost)
  \/ \E r \in Perishable : Perish(r)
  \/ Crash

Spec == Init /\ [][Next]_vars
=============================================================================
