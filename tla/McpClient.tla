------------------------------ MODULE McpClient ------------------------------
(* The MCP client (huicode/mcp: transport.py, session.py, manager.py,        *)
(* tools.py, jsonrpc.py).  The servers are started one after the other; then *)
(* the main agent and the subagents, whose registries share the tools, call  *)
(* a server through its one transport, and the main thread closes all.       *)
(*                                                                           *)
(* A stdio server's lines arrive in one queue, from which every waiting call *)
(* takes.  A call keeps the lines that are not its own to itself and gives   *)
(* them back when its own has come.                                          *)
(*                                                                           *)
(* Left out: environment, stderr, the text of requests and answers.  The     *)
(* server is external: it answers in any order, late or never, and says      *)
(* things nobody asked for.                                                  *)
EXTENDS Naturals, Sequences, SequencesExt

CONSTANTS
  Server,     \* the configured servers, in order (a sequence)
  Caller,     \* threads that call tools
  MaxCalls,   \* bound: calls of a behaviour
  MaxNoise    \* bound: notifications and bad lines of a behaviour

ASSUME McpAssumption == MaxCalls \in Nat /\ MaxNoise \in Nat /\ IsInjective(Server)

VARIABLES
  starting,   \* start(): the servers still to come, and the place in the first
  process,    \* per server: the child process
  sessions,   \* MCPManager.sessions
  tools,      \* servers some of whose tools are registered
  errors,     \* MCPManager.errors
  managing,   \* "starting", "started" or "closed"
  inbox,      \* per server: _messages
  unanswered, \* per server: ids the server has not answered
  call,       \* per caller: the call under way
  nextId, noise,
  failures    \* history: calls that did not get their answer

mcpVars == <<starting, process, sessions, tools, errors, managing, inbox, unanswered,
             call, nextId, noise, failures>>

Servers == ToSet(Server)
NoCall == [server |-> "none", id |-> 0, kept |-> <<>>]
Notification == 0
BadLine == MaxCalls + 1
Line == 0 .. MaxCalls + 1
Calling(c) == call[c] # NoCall

McpTypeOK ==
  /\ process \in [Servers -> {"none", "up", "dead", "closed"}]
  /\ sessions \subseteq Servers /\ tools \subseteq Servers /\ errors \subseteq Servers
  /\ managing \in {"starting", "started", "closed"}
  /\ inbox \in [Servers -> Seq(Line)] /\ unanswered \in [Servers -> SUBSET (1 .. MaxCalls)]
  /\ call \in [Caller -> [server : Servers \cup {"none"}, id : Line, kept : Seq(Line)]]
  /\ nextId \in 1 .. MaxCalls + 1 /\ noise \in 0 .. MaxNoise /\ failures \in BOOLEAN

McpInit ==
  /\ starting = [left |-> Server, at |-> "spawn"] /\ managing = "starting"
  /\ process = [s \in Servers |-> "none"]
  /\ sessions = {} /\ tools = {} /\ errors = {}
  /\ inbox = [s \in Servers |-> <<>>] /\ unanswered = [s \in Servers |-> {}]
  /\ call = [c \in Caller |-> NoCall]
  /\ nextId = 1 /\ noise = 0 /\ failures = FALSE

-----------------------------------------------------------------------------
(* MCPManager.start: spawn, initialize, enter the session, list, register.   *)

Starting(at) == starting.left # <<>> /\ starting.at = at
Calls == <<inbox, unanswered, call, nextId, noise, failures>>
NextServer == starting' = [left |-> Tail(starting.left), at |-> "spawn"]
GoTo(at) == starting' = [starting EXCEPT !.at = at]

\* What fails for one server is an error of that server, and the next follows.
\* The child process of a failed initialize stays.
ServerFails == LET s == Head(starting.left) IN
  /\ starting.left # <<>>
  /\ errors' = errors \cup {s}
  /\ NextServer
  /\ UNCHANGED <<process, sessions, tools, managing, Calls>>

Spawn == LET s == Head(starting.left) IN
  /\ Starting("spawn")
  /\ process' = [process EXCEPT ![s] = "up"]
  /\ GoTo("initialize")
  /\ UNCHANGED <<sessions, tools, errors, managing, Calls>>

\* The session is entered before its tools are listed.
EnterSession(s) == sessions' = sessions \cup {s}

Initialize == LET s == Head(starting.left) IN
  /\ Starting("initialize")
  /\ EnterSession(s)
  /\ GoTo("list")
  /\ UNCHANGED <<process, tools, errors, managing, Calls>>

\* One tool more is registered; one without a name is an error (ServerFails).
RegisterTool == LET s == Head(starting.left) IN
  /\ Starting("list")
  /\ tools' = tools \cup {s}
  /\ UNCHANGED <<starting, process, sessions, errors, managing, Calls>>

EndOfTools == LET s == Head(starting.left) IN
  /\ Starting("list")
  /\ NextServer
  /\ UNCHANGED <<process, sessions, tools, errors, managing, Calls>>

Started ==
  /\ managing = "starting" /\ starting.left = <<>>
  /\ managing' = "started"
  /\ UNCHANGED <<starting, process, sessions, tools, errors, Calls>>

Start == ServerFails \/ Spawn \/ Initialize \/ RegisterTool \/ EndOfTools \/ Started

-----------------------------------------------------------------------------
(* MCPToolAdapter.run -> MCPClientSession._request -> StdioMCPTransport      *)

Startup == <<starting, sessions, tools, errors>>
Ended(c, failed) ==
  /\ call' = [call EXCEPT ![c] = NoCall]
  /\ failures' = (failures \/ failed)

\* The pipe of a process that died breaks, a closed transport has no process.
Write(c, s) ==
  /\ managing # "starting" /\ s \in tools /\ ~ Calling(c) /\ nextId <= MaxCalls
  /\ nextId' = nextId + 1
  /\ IF process[s] = "up"
     THEN /\ unanswered' = [unanswered EXCEPT ![s] = @ \cup {nextId}]
          /\ call' = [call EXCEPT ![c] = [server |-> s, id |-> nextId, kept |-> <<>>]]
          /\ UNCHANGED failures
     ELSE Ended(c, TRUE) /\ UNCHANGED unanswered
  /\ UNCHANGED <<Startup, process, managing, inbox, noise>>

\* Mutant: lines that are not for this call are dropped.
KeepNothing(c, line) == call' = call

\* pending.append(received)
Keep(c, line) == call' = [call EXCEPT ![c].kept = Append(@, line)]

\* The next line of the queue: the answer, somebody else's line, or an error.
Take(c) == LET s == call[c].server  line == Head(inbox[s]) IN
  /\ Calling(c) /\ inbox[s] # <<>>
  /\ CASE line = BadLine ->
            /\ inbox' = [inbox EXCEPT ![s] = Tail(@)]
            /\ Ended(c, TRUE)
       [] line = call[c].id ->
            /\ inbox' = [inbox EXCEPT ![s] = Tail(@) \o call[c].kept]
            /\ Ended(c, FALSE)
       [] OTHER ->
            /\ inbox' = [inbox EXCEPT ![s] = Tail(@)]
            /\ Keep(c, line)
            /\ UNCHANGED failures
  /\ UNCHANGED <<Startup, process, managing, unanswered, nextId, noise>>

\* Nothing has come for timeout_seconds since the last line.
Timeout(c) ==
  /\ Calling(c) /\ inbox[call[c].server] = <<>>
  /\ Ended(c, TRUE)
  /\ UNCHANGED <<Startup, process, managing, inbox, unanswered, nextId, noise>>

-----------------------------------------------------------------------------
(* The servers, through _read_stdout *)

Says(s, line) == inbox' = [inbox EXCEPT ![s] = Append(@, line)]

Answer(s, id) ==
  /\ process[s] = "up" /\ id \in unanswered[s]
  /\ unanswered' = [unanswered EXCEPT ![s] = @ \ {id}]
  /\ Says(s, id)
  /\ UNCHANGED <<Startup, process, managing, call, nextId, noise, failures>>

Chatter(s, line) ==
  /\ process[s] = "up" /\ s \in sessions /\ managing # "starting" /\ noise < MaxNoise
  /\ noise' = noise + 1
  /\ Says(s, line)
  /\ UNCHANGED <<Startup, process, managing, unanswered, call, nextId, failures>>

ServerDies(s) ==
  /\ process[s] = "up" /\ managing # "starting"
  /\ process' = [process EXCEPT ![s] = "dead"]
  /\ UNCHANGED <<Startup, managing, inbox, unanswered, call, nextId, noise, failures>>

\* MCPManager.close
CloseAll ==
  /\ managing = "started"
  /\ managing' = "closed"
  /\ process' = [s \in Servers |-> IF s \in sessions THEN "closed" ELSE process[s]]
  /\ sessions' = {}
  /\ UNCHANGED <<starting, tools, errors, Calls>>

-----------------------------------------------------------------------------
McpNext ==
  \/ Start \/ CloseAll
  \/ \E c \in Caller : Take(c) \/ Timeout(c) \/ \E s \in Servers : Write(c, s)
  \/ \E s \in Servers : ServerDies(s) \/ \E id \in unanswered[s] : Answer(s, id)
  \/ \E s \in Servers : Chatter(s, Notification) \/ Chatter(s, BadLine)

\* A thread takes what is there, or its get() times out.
McpFairness == \A c \in Caller : WF_mcpVars(Take(c) \/ Timeout(c))

McpSpec == McpInit /\ [][McpNext]_mcpVars /\ McpFairness

-----------------------------------------------------------------------------
(* Properties *)

\* As long as no call has failed, an answer that has come is where its call
\* finds it: in the queue, or with another call that will give it back.
AnswerIsReachable ==
  ~ failures =>
    \A c \in Caller : Calling(c) =>
      LET s == call[c].server  id == call[c].id IN
        \/ id \in unanswered[s] \/ id \in ToSet(inbox[s])
        \/ \E d \in Caller \ {c} : call[d].server = s /\ id \in ToSet(call[d].kept)

\* Every call ends, whoever else waits; for this, notifications must be finitely
\* many (MaxNoise), as each one starts the timeout anew.
EveryCallEnds == \A c \in Caller : Calling(c) ~> ~ Calling(c)

\* Not so (specs/008 F10, answers belong to their requests by id): a call that
\* times out or meets a bad line drops the answers it keeps for others, which then time out.
AnswersSurviveFailures ==
  \A c \in Caller : Calling(c) =>
    LET s == call[c].server  id == call[c].id IN
      \/ id \in unanswered[s] \/ id \in ToSet(inbox[s])
      \/ \E d \in Caller \ {c} : call[d].server = s /\ id \in ToSet(call[d].kept)
=============================================================================
