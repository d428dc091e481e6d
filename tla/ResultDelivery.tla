--------------------------- MODULE ResultDelivery ---------------------------
(***************************************************************************)
(* What the subagent system promises about the results of subagents        *)
(* (huicode/subagents): the main agent gets a result at most once, in the  *)
(* answer of the Agent tool or with a later request, and nothing of a task *)
(* that was cleared.  SubagentManager shows how the promise is kept.       *)
(***************************************************************************)
EXTENDS Naturals

CONSTANT Task

VARIABLES
  ready,    \* the results that wait for the main agent's next request
  copies,   \* how often each result went to the main agent
  gone      \* the tasks that were cleared

Init == ready = {} /\ copies = [t \in Task |-> 0] /\ gone = {}

Fresh(t) == t \notin ready \cup gone /\ copies[t] = 0

Finish(t) ==
  /\ Fresh(t)
  /\ ready' = ready \cup {t}
  /\ UNCHANGED <<copies, gone>>

\* A foreground task's result is the answer of the tool call.
Answer(t) ==
  /\ Fresh(t)
  /\ copies' = [copies EXCEPT ![t] = 1]
  /\ UNCHANGED <<ready, gone>>

\* Results injected into a request that got its response.
Inject(S) ==
  /\ S # {} /\ S \subseteq ready
  /\ copies' = [t \in Task |-> IF t \in S THEN copies[t] + 1 ELSE copies[t]]
  /\ ready' = ready \ S
  /\ UNCHANGED gone

Drop(S) ==
  /\ gone' = gone \cup S
  /\ ready' = ready \ S
  /\ UNCHANGED copies

Next == \/ \E t \in Task : Finish(t) \/ Answer(t)
        \/ \E S \in SUBSET Task : Inject(S) \/ Drop(S)

Spec == Init /\ [][Next]_<<ready, copies, gone>>
=============================================================================
