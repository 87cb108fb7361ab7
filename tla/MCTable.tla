------------------------------ MODULE MCTable ------------------------------
(***************************************************************************)
(* Small instances of the table for TLC.  To keep them small a behaviour   *)
(* has either searches or rows that are ahead of the clock, which is the   *)
(* choice of the initial state.                                            *)
(***************************************************************************)
EXTENDS Table

CONSTANT Scenes   \* which of "searches", "ahead" are checked

VARIABLE scene

MCInit == scene \in Scenes /\ Init

MCNext ==
  /\ UNCHANGED scene
  /\ Next
  /\ scene = "searches" => \A a \in Adders : adder'[a].ts <= now'
  /\ scene = "ahead" => UNCHANGED searches

MCSpec == MCInit /\ [][MCNext]_<<vars, scene>>

\* What is left out are steps that no fairness is about.
MCFairSpec == MCSpec /\ Fairness
=============================================================================
