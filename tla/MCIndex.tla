------------------------------ MODULE MCIndex -------------------------------
(***************************************************************************)
(* Series registration and the per-day index on small instances.  The two  *)
(* share no variable: a behaviour is one of the registry or one of the     *)
(* per-day index, while the other stands still in its initial state.       *)
(***************************************************************************)
EXTENDS SeriesRegistry, PerDayIndex, TLC

CONSTANTS
  Checked,     \* which of "registry", "perday" are checked
  MaxBatch,    \* bound on the rows of a batch
  SwitchSame   \* whether a batch may have a series on both sides of a switch of partitions

VARIABLE component

MCBatches ==
  {b \in UNION {[1..k -> Names \X Dates] : k \in 1..MaxBatch} :
     \/ SwitchSame
     \/ \A i, j \in DOMAIN b : b[i][1] = b[j][1] => PartOf(b[i][2]) = PartOf(b[j][2])}

\* The threads of a kind are interchangeable.
ThreadSymmetry == Permutations(Inserters) \cup Permutations(Writers)

IndexInit ==
  /\ component \in Checked
  /\ RegistryInit /\ PerDayInit
  /\ component = "registry" => hour = 0

IndexNext ==
  /\ UNCHANGED component
  /\ \/ component = "registry" /\ RegistryNext /\ UNCHANGED perDayVars
     \/ component = "perday" /\ PerDayNext /\ UNCHANGED registryVars

IndexSpec == IndexInit /\ [][IndexNext]_<<component, registryVars, perDayVars>>
=============================================================================
