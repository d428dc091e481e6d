------------------------------ MODULE MCTeamRun ------------------------------
(* Two tasks, the second depends on the first; two members. *)
EXTENDS TeamRun
CONSTANTS t1, t2
DepsChain == [t \in Task |-> IF t = t2 THEN {t1} ELSE {}]
=============================================================================
