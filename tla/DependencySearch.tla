-------------------------- MODULE DependencySearch --------------------------
(***************************************************************************)
(* The depth-first search by which _validate_dependencies refuses cyclic   *)
(* task dependencies (huicode/teams/tasks.py), one call or return of its   *)
(* inner function `visit` per step, on every graph over Node.  TeamTasks   *)
(* uses the answer, Acyclic; here the search is shown to give it.          *)
(***************************************************************************)
EXTENDS Naturals, Sequences

CONSTANT Node

VARIABLES
  graph,     \* the dependencies of every task
  roots,     \* the tasks the outer loop has not called visit on
  frames,    \* the active calls: the node and the children not visited yet
  visiting,  \* the nodes of the active calls
  visited,   \* the nodes whose call returned
  outcome    \* "searching", "ok" or the error "dependency_cycle"

searchVars == <<graph, roots, frames, visiting, visited, outcome>>

SearchInit ==
  /\ graph \in [Node -> SUBSET Node]
  /\ roots = Node
  /\ frames = <<>>
  /\ visiting = {} /\ visited = {}
  /\ outcome = "searching"

\* The body of visit(n) up to its loop over the children; `below` are the
\* callers' frames.
Enter(n, below) ==
  \/ /\ n \in visiting
     /\ outcome' = "dependency_cycle"
     /\ UNCHANGED <<frames, visiting, visited>>
  \/ /\ n \notin visiting /\ n \in visited
     /\ frames' = below
     /\ UNCHANGED <<visiting, visited, outcome>>
  \/ /\ n \notin visiting \cup visited
     /\ visiting' = visiting \cup {n}
     /\ frames' = Append(below, [node |-> n, children |-> graph[n]])
     /\ UNCHANGED <<visited, outcome>>

Top == frames[Len(frames)]
Callers == SubSeq(frames, 1, Len(frames) - 1)

VisitRoot(n) ==
  /\ outcome = "searching" /\ frames = <<>> /\ n \in roots
  /\ roots' = roots \ {n}
  /\ Enter(n, <<>>)
  /\ UNCHANGED graph

VisitChild(n) ==
  /\ outcome = "searching" /\ frames # <<>> /\ n \in Top.children
  /\ Enter(n, Append(Callers, [Top EXCEPT !.children = @ \ {n}]))
  /\ UNCHANGED <<graph, roots>>

Return ==
  /\ outcome = "searching" /\ frames # <<>> /\ Top.children = {}
  /\ visiting' = visiting \ {Top.node}
  /\ visited' = visited \cup {Top.node}
  /\ frames' = Callers
  /\ UNCHANGED <<graph, roots, outcome>>

\* Mutant: the outer loop stops as soon as one call returned.
FinishEarly ==
  /\ outcome = "searching" /\ frames = <<>> /\ visited # {}
  /\ outcome' = "ok"
  /\ UNCHANGED <<graph, roots, frames, visiting, visited>>

Finish ==
  /\ outcome = "searching" /\ frames = <<>> /\ roots = {}
  /\ outcome' = "ok"
  /\ UNCHANGED <<graph, roots, frames, visiting, visited>>

SearchNext ==
  \/ \E n \in Node : VisitRoot(n) \/ VisitChild(n)
  \/ Return
  \/ Finish

SearchSpec == SearchInit /\ [][SearchNext]_searchVars

-----------------------------------------------------------------------------
\* The answer TeamTasks takes from the search, where it is called Acyclic.
CycleFree(g) ==
  \A S \in SUBSET DOMAIN g : S # {} => \E n \in S : g[n] \cap S = {}

\* The search reports a cycle only when there is one, and passes only graphs
\* that have none.
AnswerIsRight ==
  /\ outcome = "dependency_cycle" => ~ CycleFree(graph)
  /\ outcome = "ok" => CycleFree(graph)
=============================================================================
