------------------------------ MODULE MCSafety ------------------------------
(* What is checked without fairness: the algorithms, and two parts of a team *)
(* that share no state with them or with each other, the roster and the      *)
(* integration.  A behaviour is one of a single part, chosen at the start;   *)
(* the others stay as they begin.                                            *)
EXTENDS MCAlgorithms, TeamRoster, TeamIntegration

VARIABLE part

TheBranches == <<"ann", "bob">>

safetyVars == <<part, algorithmVars, rosterVars, integVars>>

SafetyInit ==
  /\ part \in {"algorithms", "roster", "integration"}
  /\ AlgorithmsInit /\ (part # "algorithms" => topic = "recovery")
  /\ RosterInit /\ IntegInit

SafetyNext ==
  /\ UNCHANGED part
  /\ \/ part = "algorithms" /\ AlgorithmsNext /\ UNCHANGED <<rosterVars, integVars>>
     \/ part = "roster" /\ RosterNext /\ UNCHANGED <<algorithmVars, integVars>>
     \/ part = "integration" /\ IntegNext /\ UNCHANGED <<algorithmVars, rosterVars>>

SafetySpec == SafetyInit /\ [][SafetyNext]_safetyVars
=============================================================================
