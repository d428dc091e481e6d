----------------------------- MODULE HookManager -----------------------------
(* Hooks (huicode/hooks).  Their rules (config.py, matching.py, actions.py,  *)
(* events.py): which ones are accepted, how the three sources are merged,    *)
(* when a condition matches and what the outcome of an action means.         *)
(*                                                                           *)
(* At run time (manager.py) agents of several threads dispatch events,       *)
(* asynchronous actions go to a pool of daemon threads, and the main thread  *)
(* closes the manager while all this goes on.  The sections under its lock   *)
(* are single steps; between them anybody steps in.  Whether a condition     *)
(* matches is left open.                                                     *)
(*                                                                           *)
(* A field is named by its first part ("tool", "result", ...; "common" for   *)
(* the fields of every event); a text is the set of fields its template      *)
(* names and the set of environment variables it names; an empty text is     *)
(* NoText.  Left out: the expansion of variables and the redaction of        *)
(* payloads, which change nothing but texts, the prompt blocks, the counters *)
(* of summary(), the text of the log.                                        *)
EXTENDS Naturals, Sequences, FiniteSets, SequencesExt

Guarding == "tool_before"
EventFields == [
  session_start |-> {"session"}, session_end |-> {"session"},
  turn_start |-> {"turn"}, turn_end |-> {"turn"},
  message_received |-> {"message"}, message_completed |-> {"message"},
  tool_before |-> {"tool"}, tool_after |-> {"tool", "result"},
  context_before_compact |-> {"context"}, context_after_compact |-> {"context"},
  agent_error |-> {"error"}]
Events == DOMAIN EventFields
Outcomes == {"ok", "exit_2", "error", "timeout", "deny", "deny_without_reason",
             "bad_json"}

-----------------------------------------------------------------------------
(* _parse_rule: what is refused when the program starts.  A condition is the *)
(* record of its mode and predicates, the sequence <<>> if there is none.    *)

NoText == [fields |-> {}, names |-> {}, empty |-> TRUE]
Text(fields, names) == [fields |-> fields, names |-> names, empty |-> FALSE]

FieldAllowed(event, field) == field \in EventFields[event] \cup {"common"}

\* One way of matching, or "not" with one way below it; a regex must compile.
PredicateAccepted(event, p) ==
  /\ FieldAllowed(event, p.field)
  /\ Cardinality(p.ways) = 1 /\ p.ways \subseteq {"exact", "glob", "regex", "not"}
  /\ "not" \in p.ways => Cardinality(p.below) = 1 /\ p.below \subseteq {"exact", "glob", "regex"}
  /\ "regex" \in p.ways \cup p.below => p.compiles

ConditionAccepted(event, condition) == condition # <<>> =>
  /\ Cardinality(condition.modes) = 1 /\ condition.modes \subseteq {"all", "any"}
  /\ condition.predicates # <<>>
  /\ \A p \in ToSet(condition.predicates) : PredicateAccepted(event, p)

TemplateAccepted(event, text) == \A f \in text.fields : FieldAllowed(event, f)
Expands(text, environ) == text.names \subseteq environ

ActionAccepted(event, action, environ) == ~ action.text.empty /\
  CASE action.type = "command" -> Expands(action.text, environ)
    [] action.type = "prompt" -> /\ action.scope \in {"next_request", "turn", "session"}
                                 /\ TemplateAccepted(event, action.text)
    [] action.type = "http" -> /\ Expands(action.text, environ)
                               /\ action.low \in 100 .. action.high /\ action.high <= 599
    [] action.type = "subagent" -> TemplateAccepted(event, action.text)
    [] OTHER -> FALSE

RuleAccepted(rule, environ) ==
  /\ rule.event \in Events /\ rule.timeout \in 1 .. 300
  /\ ConditionAccepted(rule.event, rule.condition)
  /\ ActionAccepted(rule.event, rule.action, environ)
  /\ rule.async => rule.event # Guarding /\ rule.action.type # "prompt"
  /\ rule.action.type = "subagent" => rule.event # Guarding
  /\ rule.action.type = "prompt" => rule.event # "session_end"

\* _parse_source: one bad rule, or one id twice, refuses the whole source.
SourceAccepted(source, environ) ==
  /\ \A i \in DOMAIN source : RuleAccepted(source[i], environ)
  /\ \A i, j \in DOMAIN source : source[i].id = source[j].id => i = j

\* load_hook_catalog: user, config, project; a later rule of the same id takes
\* the place of the earlier one and goes to the end.
Enter(catalog, rule) == Append(SelectSeq(catalog, LAMBDA r : r.id # rule.id), rule)
Catalog(user, config, project) == FoldLeft(Enter, <<>>, user \o config \o project)

-----------------------------------------------------------------------------
(* match_condition and event_payload: a payload is a function of its fields. *)
(* A predicate on a field the event does not have holds only if it is        *)
(* negated.                                                                  *)

Holds(predicate, payload) == LET negate == "not" \in predicate.ways IN
  IF predicate.field \in DOMAIN payload
  THEN (payload[predicate.field] = predicate.value) # negate
  ELSE negate
Matches(condition, payload) == condition # <<>> =>
  LET all == ToSet(condition.predicates) IN
  IF condition.modes = {"all"} THEN \A p \in all : Holds(p, payload)
                               ELSE \E p \in all : Holds(p, payload)

-----------------------------------------------------------------------------
(* _run_command and _run_http: only an explicit answer denies, and only      *)
(* before a tool; whatever goes wrong lets the tool run.                     *)

CommandStatus(rule, outcome) ==
  CASE outcome = "ok" -> "success"
    [] outcome = "timeout" -> "timeout"
    [] outcome = "exit_2" /\ rule.event = Guarding -> "denied"
    [] OTHER -> "failed"
HttpStatus(rule, outcome) ==
  CASE outcome = "timeout" -> "timeout"
    [] outcome \in {"error", "exit_2", "bad_json"} -> "failed"
    [] outcome = "deny" /\ rule.event = Guarding -> "denied"
    [] outcome = "deny_without_reason" /\ rule.event = Guarding -> "failed"
    [] OTHER -> "success"

\* execute: a subagent's hooks start no subagents, and a background action has
\* nowhere to put a prompt.
Status(rule, outcome, bySubagent) ==
  CASE rule.action.type = "command" -> CommandStatus(rule, outcome)
    [] rule.action.type = "http" -> HttpStatus(rule, outcome)
    [] rule.action.type = "prompt" -> IF rule.async THEN "failed" ELSE "success"
    [] rule.action.type = "subagent" -> IF bySubagent THEN "skipped" ELSE
                                        IF outcome = "error" THEN "failed" ELSE "success"

-----------------------------------------------------------------------------
(* The manager at run time *)

CONSTANTS
  Agent,       \* the threads that dispatch; "main" is the one that closes
  Rules,       \* the catalog
  Job,         \* bound: the futures of a behaviour
  MaxWorkers,  \* max_workers
  MaxEvents    \* bound: events of a behaviour

ASSUME RulesAssumption == SourceAccepted(Rules, {})

VARIABLES
  todo,        \* per agent: the places in Rules that its dispatch has still to look at
  holding,     \* per agent: the future it has submitted but not entered yet
  onceDone,    \* _once_executed
  future,      \* per job: where its future is
  callback,    \* per job: how far completed() is
  pending,     \* _pending
  abandoned,   \* _abandoned
  poolClosed,
  closing,     \* where close() is, and with which futures
  events,
  runs,        \* history: how often an action was started, by rule id
  records      \* history: final log records, by job

hooksVars == <<todo, holding, onceDone, future, callback, pending, abandoned, poolClosed,
          closing, events, runs, records>>

RuleId == {Rules[i].id : i \in DOMAIN Rules}
Finished(j) == future[j] \in {"done", "cancelled"}

HooksTypeOK ==
  /\ todo \in [Agent -> SUBSET DOMAIN Rules]
  /\ holding \in [Agent -> Job \cup {0}] /\ onceDone \subseteq RuleId
  /\ future \in [Job -> {"none", "queued", "running", "done", "cancelled"}]
  /\ callback \in [Job -> {"unset", "entered", "set", "checked", "recorded", "over"}]
  /\ pending \subseteq Job /\ abandoned \subseteq Job /\ poolClosed \in BOOLEAN

HooksInit ==
  /\ todo = [a \in Agent |-> {}] /\ holding = [a \in Agent |-> 0]
  /\ onceDone = {} /\ pending = {} /\ abandoned = {} /\ poolClosed = FALSE
  /\ future = [j \in Job |-> "none"] /\ callback = [j \in Job |-> "unset"]
  /\ closing = [at |-> "open", futures |-> {}]
  /\ events = 0 /\ runs = [r \in RuleId |-> 0] /\ records = [j \in Job |-> 0]

-----------------------------------------------------------------------------
(* dispatch *)

RulesFor(event) == {i \in DOMAIN Rules : Rules[i].event = event /\ Rules[i].enabled}
Idle(a) == todo[a] = {} /\ holding[a] = 0

\* Rules are looked at in their order, one at a time.
TurnOf(a, i) == i \in todo[a] /\ (\A k \in todo[a] : i <= k) /\ holding[a] = 0

Dispatch(a, event) ==
  /\ Idle(a) /\ events < MaxEvents
  /\ event = "session_end" => a = "main"
  /\ IF a = "main"
     THEN /\ closing.at = "open"
          /\ closing' = IF event = "session_end" THEN [closing EXCEPT !.at = "last_event"]
                                                 ELSE closing
     ELSE event # "session_end" /\ UNCHANGED closing
  /\ todo' = [todo EXCEPT ![a] = RulesFor(event)]
  /\ events' = events + 1
  /\ UNCHANGED <<holding, onceDone, future, callback, pending, abandoned, poolClosed,
                 runs, records>>

\* Mutant: a once-rule is entered only by an action that runs at once.
MarkOnceNow(rule) ==
  /\ ~ (rule.once /\ rule.id \in onceDone)
  /\ onceDone' = IF rule.once /\ ~ rule.async THEN onceDone \cup {rule.id} ELSE onceDone

\* _mark_once: looked up and entered under the lock.
MarkOnce(rule) ==
  /\ ~ (rule.once /\ rule.id \in onceDone)
  /\ onceDone' = IF rule.once THEN onceDone \cup {rule.id} ELSE onceDone

Launched(rule) == runs' = [runs EXCEPT ![rule.id] = @ + 1]

\* The condition does not match, or the once-rule has had its turn.
Skip(a, i) ==
  /\ TurnOf(a, i)
  /\ todo' = [todo EXCEPT ![a] = @ \ {i}]
  /\ UNCHANGED <<holding, onceDone, future, callback, pending, abandoned, poolClosed,
                 closing, events, runs, records>>

\* A denial ends the dispatch: later rules are not looked at.
RunNow(a, i) == LET rule == Rules[i] IN
  /\ TurnOf(a, i) /\ ~ rule.async
  /\ MarkOnce(rule) /\ Launched(rule)
  /\ \E outcome \in Outcomes :
       todo' = [todo EXCEPT ![a] =
                  IF Status(rule, outcome, a # "main") = "denied" THEN {} ELSE @ \ {i}]
  /\ UNCHANGED <<holding, future, callback, pending, abandoned, poolClosed, closing,
                 events, records>>

\* _schedule, until the pool has the action.  A closed pool raises, and the
\* rule is recorded as failed.
Schedule(a, i) == LET rule == Rules[i] IN
  /\ TurnOf(a, i) /\ rule.async
  /\ MarkOnce(rule)
  /\ IF poolClosed
     THEN UNCHANGED <<holding, future, runs>>
     ELSE \E j \in Job :
          /\ future[j] = "none" /\ \A k \in Job : k < j => future[k] # "none"
          /\ future' = [future EXCEPT ![j] = "queued"]
          /\ holding' = [holding EXCEPT ![a] = j]
          /\ Launched(rule)
  /\ todo' = [todo EXCEPT ![a] = @ \ {i}]
  /\ UNCHANGED <<callback, pending, abandoned, poolClosed, closing, events, records>>

\* ... then the future is entered in _pending ...
Enroll(a) == LET j == holding[a] IN
  /\ j # 0 /\ callback[j] = "unset"
  /\ pending' = pending \cup {j}
  /\ callback' = [callback EXCEPT ![j] = "entered"]
  /\ UNCHANGED <<todo, holding, onceDone, future, abandoned, poolClosed, closing,
                 events, runs, records>>

\* ... and gets its callback, which runs at once if the action has ended.
Attach(a) == LET j == holding[a] IN
  /\ j # 0 /\ callback[j] = "entered"
  /\ callback' = [callback EXCEPT ![j] = "set"]
  /\ holding' = [holding EXCEPT ![a] = 0]
  /\ UNCHANGED <<todo, onceDone, future, pending, abandoned, poolClosed, closing, events, runs,
                 records>>

-----------------------------------------------------------------------------
(* The pool *)

Work(j) ==
  /\ future[j] = "queued" /\ Cardinality({i \in Job : future[i] = "running"}) < MaxWorkers
  /\ future' = [future EXCEPT ![j] = "running"]
  /\ UNCHANGED <<todo, holding, onceDone, callback, pending, abandoned, poolClosed,
                 closing, events, runs, records>>

Finish(j) ==
  /\ future[j] = "running"
  /\ future' = [future EXCEPT ![j] = "done"]
  /\ UNCHANGED <<todo, holding, onceDone, callback, pending, abandoned, poolClosed,
                 closing, events, runs, records>>

\* completed(): an abandoned future is forgotten; ...
Check(j) ==
  /\ callback[j] = "set" /\ Finished(j)
  /\ callback' = [callback EXCEPT ![j] = IF j \in abandoned THEN "over" ELSE "checked"]
  /\ abandoned' = abandoned \ {j}
  /\ UNCHANGED <<todo, holding, onceDone, future, pending, poolClosed, closing, events,
                 runs, records>>

\* ... any other one is recorded ...
Record(j) ==
  /\ callback[j] = "checked"
  /\ callback' = [callback EXCEPT ![j] = "recorded"]
  /\ records' = [records EXCEPT ![j] = @ + 1]
  /\ UNCHANGED <<todo, holding, onceDone, future, pending, abandoned, poolClosed, closing,
                 events, runs>>

\* ... and leaves _pending.
Leave(j) ==
  /\ callback[j] = "recorded"
  /\ callback' = [callback EXCEPT ![j] = "over"]
  /\ pending' = pending \ {j}
  /\ UNCHANGED <<todo, holding, onceDone, future, abandoned, poolClosed, closing, events,
                 runs, records>>

-----------------------------------------------------------------------------
(* close() *)

CloseGoes(at, futures) == closing' = [at |-> at, futures |-> futures]

\* The rules of session_end have run.
CloseSnapshot ==
  /\ closing.at = "last_event" /\ Idle("main")
  /\ CloseGoes("wait", pending)
  /\ UNCHANGED <<todo, holding, onceDone, future, callback, pending, abandoned, poolClosed,
                 events, runs, records>>

\* All are done, or two seconds are over.
CloseWaited ==
  /\ closing.at = "wait"
  /\ CloseGoes("sweep", {j \in closing.futures : ~ Finished(j)})
  /\ UNCHANGED <<todo, holding, onceDone, future, callback, pending, abandoned, poolClosed,
                 events, runs, records>>

\* Mutant: what is given up is not recorded.
AbandonQuietly(j) ==
  /\ closing.at = "sweep" /\ j \in closing.futures
  /\ pending' = pending \ {j} /\ abandoned' = abandoned \cup {j}
  /\ CloseGoes("sweep", closing.futures \ {j})
  /\ future' = [future EXCEPT ![j] = IF @ = "queued" THEN "cancelled" ELSE @]
  /\ UNCHANGED <<todo, holding, onceDone, callback, poolClosed, events, runs, records>>

\* One that is not done is given up: cancelled if no worker has it, and
\* recorded as skipped unless its callback has just taken it from _pending.
Abandon(j) ==
  /\ closing.at = "sweep" /\ j \in closing.futures
  /\ pending' = pending \ {j} /\ abandoned' = abandoned \cup {j}
  /\ records' = [records EXCEPT ![j] = IF j \in pending THEN @ + 1 ELSE @]
  /\ future' = [future EXCEPT ![j] = IF @ = "queued" THEN "cancelled" ELSE @]
  /\ CloseGoes("sweep", closing.futures \ {j})
  /\ UNCHANGED <<todo, holding, onceDone, callback, poolClosed, events, runs>>

\* shutdown(wait=False, cancel_futures=True): what is still queued is cancelled.
Shutdown ==
  /\ closing.at = "sweep" /\ closing.futures = {}
  /\ poolClosed' = TRUE
  /\ future' = [j \in Job |-> IF future[j] = "queued" THEN "cancelled" ELSE future[j]]
  /\ CloseGoes("closed", {})
  /\ UNCHANGED <<todo, holding, onceDone, callback, pending, abandoned, events, runs,
                 records>>

-----------------------------------------------------------------------------
Turn(a) == \/ \E i \in todo[a] : Skip(a, i) \/ RunNow(a, i) \/ Schedule(a, i)
           \/ Enroll(a) \/ Attach(a)
Callback(j) == Check(j) \/ Record(j) \/ Leave(j)
Close == CloseSnapshot \/ CloseWaited \/ Shutdown \/ \E j \in Job : Abandon(j)

HooksNext ==
  \/ \E a \in Agent : Turn(a) \/ \E e \in Events : Dispatch(a, e)
  \/ \E j \in Job : Work(j) \/ Finish(j) \/ Callback(j)
  \/ Close

\* Threads are scheduled, and an action ends: it has a timeout.
HooksFairness ==
  /\ \A a \in Agent : WF_hooksVars(Enroll(a)) /\ WF_hooksVars(Attach(a))
  /\ \A j \in Job : WF_hooksVars(Work(j)) /\ WF_hooksVars(Finish(j)) /\ WF_hooksVars(Callback(j))
  /\ WF_hooksVars(Close)

HooksSpec == HooksInit /\ [][HooksNext]_hooksVars /\ HooksFairness

-----------------------------------------------------------------------------
(* Properties *)

\* specs/013: a once-rule runs once in the process, whichever threads meet it.
OnceRunsOnce ==
  \A i \in DOMAIN Rules : Rules[i].once => runs[Rules[i].id] <= 1

\* specs/013: as long as the process lives, every action given to the pool gets
\* a final record, whether it ends before close(), while close() waits, after
\* it was given up, or is never run.
ScheduledIsRecorded == \A j \in Job : future[j] = "queued" ~> records[j] > 0

\* Not so: a future that ends between the wait and the sweep is recorded by
\* its callback and again, as skipped, by close().
RecordedOnce == \A j \in Job : records[j] <= 1
=============================================================================
