---------------------------- MODULE MCTeamTasks ----------------------------
(* TeamTasks for TLC: identifiers and names are interchangeable. *)
EXTENDS TeamTasks, TLC

TaskSymmetry == Permutations(Task) \cup Permutations(Member)
=============================================================================
