--------------------------- MODULE ServicesProofs ---------------------------
(***************************************************************************)
(* The services around the agents, each section about one component.       *)
(***************************************************************************)
EXTENDS HookManager, McpClient, Notes, Skills, ContextManager,
        FiniteSetTheorems, SequenceTheorems, WellFoundedInduction, TLAPS

-----------------------------------------------------------------------------
(***************************************************************************)
(* Hooks: a once-rule runs once, for every accepted catalog and any number *)
(* of agents, events, futures and workers.                                 *)
(***************************************************************************)

\* An accepted catalog names each of its rules once.
LEMMA IdsAreUnique ==
  \A i, k \in DOMAIN Rules : Rules[i].id = Rules[k].id => i = k
BY RulesAssumption DEF SourceAccepted

-----------------------------------------------------------------------------
(* The inductive invariant: a once-rule that was started is entered, and    *)
(* only rules of the catalog are started.                                    *)

TurnsInv == todo \in [Agent -> SUBSET DOMAIN Rules]
RunsInv == runs \in [RuleId -> Nat]
EnteredInv ==
  \A i \in DOMAIN Rules :
    Rules[i].once => \/ runs[Rules[i].id] = 0
                     \/ runs[Rules[i].id] = 1 /\ Rules[i].id \in onceDone
OnceInv == TurnsInv /\ RunsInv /\ EnteredInv

LEMMA OnceInit == HooksInit => OnceInv
<1> SUFFICES ASSUME HooksInit PROVE OnceInv
  OBVIOUS
<1>1. TurnsInv
  BY DEF HooksInit, TurnsInv
<1>2. RunsInv
  BY DEF HooksInit, RunsInv
<1>3. EnteredInv
  BY DEF HooksInit, EnteredInv, RuleId
<1> QED
  BY <1>1, <1>2, <1>3 DEF OnceInv

\* A step that starts nothing keeps what was started, and enters no less.
LEMMA NothingStarted ==
  ASSUME OnceInv, TurnsInv', UNCHANGED runs, onceDone \subseteq onceDone'
  PROVE  OnceInv'
<1>1. RunsInv'
  BY DEF OnceInv, RunsInv
<1>2. EnteredInv'
  BY DEF OnceInv, EnteredInv
<1> QED
  BY <1>1, <1>2 DEF OnceInv

\* One rule is started: no other rule has its id, and if it runs once it had
\* not been entered before, so it had not run.
LEMMA OneStarted ==
  ASSUME OnceInv, TurnsInv', NEW i \in DOMAIN Rules,
         MarkOnce(Rules[i]), Launched(Rules[i])
  PROVE  OnceInv'
<1> DEFINE id == Rules[i].id
<1>1. id \in RuleId
  BY DEF RuleId
<1>2. RunsInv' /\ runs' = [runs EXCEPT ![id] = runs[id] + 1] /\ runs \in [RuleId -> Nat]
  BY <1>1 DEF OnceInv, RunsInv, Launched
<1>3. onceDone \subseteq onceDone'
  BY DEF MarkOnce
<1>4. ASSUME NEW k \in DOMAIN Rules, Rules[k].once
      PROVE  \/ runs'[Rules[k].id] = 0
             \/ runs'[Rules[k].id] = 1 /\ Rules[k].id \in onceDone'
  <2>1. Rules[k].id \in RuleId
    BY DEF RuleId
  <2>2. CASE k = i
    <3>1. id \notin onceDone /\ id \in onceDone'
      BY <1>4, <2>2 DEF MarkOnce
    <3>2. runs[id] = 0
      BY <1>4, <2>2, <3>1 DEF OnceInv, EnteredInv
    <3> QED
      BY <1>1, <1>2, <2>2, <3>1, <3>2
  <2>3. CASE k # i
    <3>1. Rules[k].id # id
      BY <2>3, IdsAreUnique
    <3>2. runs'[Rules[k].id] = runs[Rules[k].id]
      BY <1>2, <2>1, <3>1
    <3> QED
      BY <1>3, <1>4, <3>2 DEF OnceInv, EnteredInv
  <2> QED
    BY <2>2, <2>3
<1>5. EnteredInv'
  BY <1>4 DEF EnteredInv
<1> QED
  BY <1>2, <1>5 DEF OnceInv

-----------------------------------------------------------------------------
(* One step per action *)

LEMMA OnceStep == OnceInv /\ [HooksNext]_hooksVars => OnceInv'
<1> SUFFICES ASSUME OnceInv, [HooksNext]_hooksVars PROVE OnceInv'
  OBVIOUS
<1> USE DEF OnceInv
<1>1. ASSUME NEW a \in Agent, NEW event \in Events, Dispatch(a, event) PROVE OnceInv'
  <2>1. TurnsInv'
    <3>1. todo' = [todo EXCEPT ![a] = RulesFor(event)]
      BY <1>1 DEF Dispatch
    <3>2. RulesFor(event) \subseteq DOMAIN Rules
      BY DEF RulesFor
    <3> QED
      BY <3>1, <3>2 DEF TurnsInv
  <2>2. UNCHANGED <<runs, onceDone>>
    BY <1>1 DEF Dispatch
  <2> QED
    BY <2>1, <2>2, NothingStarted
<1>2. ASSUME NEW a \in Agent, NEW i \in todo[a], Skip(a, i) PROVE OnceInv'
  <2>1. todo' = [todo EXCEPT ![a] = todo[a] \ {i}]
    BY <1>2 DEF Skip
  <2>2. TurnsInv'
    BY <2>1 DEF TurnsInv
  <2>3. UNCHANGED <<runs, onceDone>>
    BY <1>2 DEF Skip
  <2> QED
    BY <2>2, <2>3, NothingStarted
<1>3. ASSUME NEW a \in Agent, NEW i \in todo[a], RunNow(a, i) PROVE OnceInv'
  <2>1. i \in DOMAIN Rules
    BY DEF TurnsInv
  <2>2. PICK outcome \in Outcomes :
          todo' = [todo EXCEPT ![a] =
            IF Status(Rules[i], outcome, a # "main") = "denied" THEN {} ELSE todo[a] \ {i}]
    BY <1>3 DEF RunNow
  <2>3. TurnsInv'
    <3> DEFINE rest == IF Status(Rules[i], outcome, a # "main") = "denied"
                       THEN {} ELSE todo[a] \ {i}
    <3>1. rest \subseteq todo[a]
      OBVIOUS
    <3>2. todo' = [todo EXCEPT ![a] = rest]
      BY <2>2
    <3> HIDE DEF rest
    <3> QED
      BY <3>1, <3>2 DEF TurnsInv
  <2>4. MarkOnce(Rules[i]) /\ Launched(Rules[i])
    BY <1>3 DEF RunNow
  <2> QED
    BY <2>1, <2>3, <2>4, OneStarted
<1>4. ASSUME NEW a \in Agent, NEW i \in todo[a], Schedule(a, i) PROVE OnceInv'
  <2>1. i \in DOMAIN Rules
    BY DEF TurnsInv
  <2>2. TurnsInv'
    <3>1. todo' = [todo EXCEPT ![a] = todo[a] \ {i}]
      BY <1>4 DEF Schedule
    <3> QED
      BY <3>1 DEF TurnsInv
  <2>3. MarkOnce(Rules[i])
    BY <1>4 DEF Schedule
  <2>4. CASE poolClosed
    <3>1. UNCHANGED runs
      BY <1>4, <2>4 DEF Schedule
    <3>2. onceDone \subseteq onceDone'
      BY <2>3 DEF MarkOnce
    <3> QED
      BY <2>2, <3>1, <3>2, NothingStarted
  <2>5. CASE ~ poolClosed
    <3>1. Launched(Rules[i])
      BY <1>4, <2>5 DEF Schedule
    <3> QED
      BY <2>1, <2>2, <2>3, <3>1, OneStarted
  <2> QED
    BY <2>4, <2>5
<1>5. ASSUME UNCHANGED <<todo, runs, onceDone>> PROVE OnceInv'
  BY <1>5, NothingStarted DEF TurnsInv
<1>6. ASSUME NEW a \in Agent, Enroll(a) \/ Attach(a) PROVE OnceInv'
  BY <1>5, <1>6 DEF Enroll, Attach
<1>7. ASSUME NEW j \in Job, Work(j) \/ Finish(j) PROVE OnceInv'
  BY <1>5, <1>7 DEF Work, Finish
<1>8. ASSUME NEW j \in Job, Callback(j) PROVE OnceInv'
  BY <1>5, <1>8 DEF Callback, Check, Record, Leave
<1>9. ASSUME Close PROVE OnceInv'
  BY <1>5, <1>9 DEF Close, CloseSnapshot, CloseWaited, Shutdown, Abandon
<1>10. ASSUME UNCHANGED hooksVars PROVE OnceInv'
  BY <1>5, <1>10 DEF hooksVars
<1> QED
  BY <1>1, <1>2, <1>3, <1>4, <1>6, <1>7, <1>8, <1>9, <1>10 DEF HooksNext, Turn

-----------------------------------------------------------------------------
\* A rule with once runs at most once in the process, whichever threads'
\* events meet it, whether it runs in the dispatch or in the pool, and while
\* the manager closes (hooks/manager.py:63-91, 157-196).
THEOREM OnceRulesRunOnce == HooksSpec => []OnceRunsOnce
<1>1. OnceInv => OnceRunsOnce
  BY DEF OnceInv, EnteredInv, OnceRunsOnce
<1> QED
  BY <1>1, OnceInit, OnceStep, PTL DEF HooksSpec

-----------------------------------------------------------------------------
(***************************************************************************)
(* The MCP client: as long as no call has failed no answer is lost, for any*)
(* number of servers, callers and calls, in whatever order they answer.    *)
(***************************************************************************)

(* Sequences *)

LEMMA HeadAndRest ==
  ASSUME NEW S, NEW s \in Seq(S), s # <<>>, NEW x \in ToSet(s), x # Head(s)
  PROVE  x \in ToSet(Tail(s))
<1>1. PICK i \in 1 .. Len(s) : x = s[i]
  BY DEF ToSet
<1>2. i - 1 \in 1 .. Len(Tail(s)) /\ Tail(s)[i - 1] = x /\ Tail(s) \in Seq(S)
  BY <1>1
<1>3. DOMAIN Tail(s) = 1 .. Len(Tail(s))
  BY <1>2
<1> QED
  BY <1>2, <1>3 DEF ToSet

LEMMA InEither ==
  ASSUME NEW S, NEW s \in Seq(S), NEW t \in Seq(S), NEW x, x \in ToSet(s) \/ x \in ToSet(t)
  PROVE  x \in ToSet(s \o t)
<1>1. CASE x \in ToSet(s)
  <2>1. PICK i \in 1 .. Len(s) : x = s[i]
    BY <1>1 DEF ToSet
  <2>2. i \in 1 .. Len(s \o t) /\ (s \o t)[i] = x
    BY <2>1
  <2> QED
    BY <2>2 DEF ToSet
<1>2. CASE x \in ToSet(t)
  <2>1. PICK i \in 1 .. Len(t) : x = t[i]
    BY <1>2 DEF ToSet
  <2>2. Len(s) + i \in 1 .. Len(s \o t) /\ (s \o t)[Len(s) + i] = x
    BY <2>1
  <2> QED
    BY <2>2 DEF ToSet
<1> QED
  BY <1>1, <1>2

LEMMA InLonger ==
  ASSUME NEW S, NEW s \in Seq(S), NEW x \in S
  PROVE  /\ x \in ToSet(Append(s, x)) /\ Append(s, x) \in Seq(S)
         /\ \A y \in ToSet(s) : y \in ToSet(Append(s, x))
<1>1. ToSet(Append(s, x)) = ToSet(s) \cup {x}
  <2>1. \A i \in 1 .. Len(s) : Append(s, x)[i] = s[i]
    OBVIOUS
  <2>2. Len(Append(s, x)) = Len(s) + 1 /\ Append(s, x)[Len(s) + 1] = x
    OBVIOUS
  <2> QED
    BY <2>1, <2>2 DEF ToSet
<1> QED
  BY <1>1

-----------------------------------------------------------------------------
(* The inductive invariant: the calls under way have identifiers of their    *)
(* own, all given out already, and AnswerIsReachable.                        *)

Call == [server : Servers \cup {"none"}, id : Line, kept : Seq(Line)]
McpShape ==
  /\ inbox \in [Servers -> Seq(Line)] /\ unanswered \in [Servers -> SUBSET (1 .. MaxCalls)]
  /\ call \in [Caller -> Call]
  /\ nextId \in 1 .. MaxCalls + 1 /\ failures \in BOOLEAN

IdsInv ==
  /\ \A c \in Caller : Calling(c) => call[c].server \in Servers /\ call[c].id \in 1 .. nextId - 1
  /\ \A c, d \in Caller : Calling(c) /\ Calling(d) /\ call[c].id = call[d].id => c = d

\* Where the answer to c is, or will come from.
KeptByOther(c) ==
  \E d \in Caller \ {c} : call[d].server = call[c].server /\ call[c].id \in ToSet(call[d].kept)
Reachable(c) ==
  \/ call[c].id \in unanswered[call[c].server]
  \/ call[c].id \in ToSet(inbox[call[c].server])
  \/ KeptByOther(c)
ReachInv == ~ failures => \A c \in Caller : Calling(c) => Reachable(c)

McpInv == McpShape /\ IdsInv /\ ReachInv

LEMMA ReachInvSays == ReachInv <=> AnswerIsReachable
BY DEF ReachInv, AnswerIsReachable, Reachable, KeptByOther

LEMMA NoCallIsCall == NoCall \in Call
BY McpAssumption DEF NoCall, Call, Line

\* A call that failed leaves nothing to show: the others keep their identifiers.
LEMMA FailedKeeps ==
  ASSUME McpInv, McpShape', NEW c \in Caller, Ended(c, TRUE),
         UNCHANGED nextId \/ nextId' = nextId + 1
  PROVE  McpInv'
<1>1. \A d \in Caller : call'[d] = IF d = c THEN NoCall ELSE call[d]
  BY DEF Ended, McpInv, McpShape
<1>2. IdsInv'
  BY <1>1 DEF McpInv, McpShape, IdsInv, Calling
<1>3. ReachInv'
  BY DEF Ended, ReachInv
<1> QED
  BY <1>2, <1>3 DEF McpInv

\* The calls stay, or end, or keep more; then it is enough to follow the answers.
LEMMA CallsStay ==
  ASSUME McpInv, McpShape', UNCHANGED <<call, nextId, failures>>,
         \A s \in Servers : /\ unanswered[s] \subseteq unanswered'[s] \cup ToSet(inbox'[s])
                            /\ ToSet(inbox[s]) \subseteq ToSet(inbox'[s])
  PROVE  McpInv'
<1>1. IdsInv'
  BY DEF McpInv, IdsInv, Calling
<1>2. ASSUME NEW c \in Caller, Calling(c), Reachable(c) PROVE Reachable(c)'
  <2>1. call[c].server \in Servers
    BY <1>2 DEF McpInv, IdsInv
  <2> QED
    BY <1>2, <2>1 DEF Reachable, KeptByOther
<1>3. ReachInv'
  BY <1>2 DEF McpInv, ReachInv, Calling
<1> QED
  BY <1>1, <1>3 DEF McpInv

-----------------------------------------------------------------------------
(* One lemma per action that touches calls or lines *)

LEMMA WriteKeeps ==
  ASSUME McpInv, NEW c \in Caller, NEW s \in Servers, Write(c, s)
  PROVE  McpInv'
<1>1. nextId \in 1 .. MaxCalls /\ nextId' = nextId + 1 /\ ~ Calling(c) /\ UNCHANGED inbox
  BY McpAssumption DEF Write, McpInv, McpShape
<1>2. CASE process[s] = "up"
  <2> DEFINE fresh == [server |-> s, id |-> nextId, kept |-> <<>>]
  <2>1. fresh \in Call /\ fresh # NoCall /\ fresh.id = nextId /\ fresh.server = s
    BY <1>1, McpAssumption DEF Call, Line, NoCall
  <2>2. /\ call' = [call EXCEPT ![c] = fresh] /\ UNCHANGED failures
        /\ unanswered' = [unanswered EXCEPT ![s] = unanswered[s] \cup {nextId}]
    BY <1>2 DEF Write
  <2> HIDE DEF fresh
  <2>3. McpShape'
    BY <1>1, <2>1, <2>2, McpAssumption DEF McpInv, McpShape
  <2>4. \A d \in Caller : call'[d] = IF d = c THEN fresh ELSE call[d]
    BY <2>2 DEF McpInv, McpShape
  <2>5. IdsInv'
    BY <1>1, <2>1, <2>4 DEF McpInv, IdsInv, Calling
  <2>6. Reachable(c)'
    BY <2>1, <2>2, <2>4 DEF McpInv, McpShape, Reachable
  <2>7. ASSUME NEW d \in Caller, d # c, Calling(d), Reachable(d) PROVE Reachable(d)'
    <3>1. call'[d] = call[d] /\ call[d].server \in Servers
      BY <2>4, <2>7 DEF McpInv, IdsInv
    <3>2. CASE call[d].id \in unanswered[call[d].server]
      BY <2>2, <3>1, <3>2 DEF McpInv, McpShape, Reachable
    <3>3. CASE call[d].id \in ToSet(inbox[call[d].server])
      BY <1>1, <3>1, <3>3 DEF Reachable
    <3>4. CASE KeptByOther(d)
      <4>1. PICK e \in Caller \ {d} : /\ call[e].server = call[d].server
                                     /\ call[d].id \in ToSet(call[e].kept)
        BY <3>4 DEF KeptByOther
      <4>2. e # c
        BY <1>1, <4>1 DEF Calling, NoCall, ToSet
      <4> QED
        BY <2>4, <3>1, <4>1, <4>2 DEF Reachable, KeptByOther
    <3> QED
      BY <2>7, <3>2, <3>3, <3>4 DEF Reachable
  <2>8. ReachInv'
    BY <2>2, <2>4, <2>6, <2>7 DEF McpInv, ReachInv, Calling
  <2> QED
    BY <2>3, <2>5, <2>8 DEF McpInv
<1>3. CASE process[s] # "up"
  <2>1. Ended(c, TRUE) /\ UNCHANGED unanswered
    BY <1>3 DEF Write
  <2>2. McpShape'
    BY <1>1, <2>1, NoCallIsCall, McpAssumption DEF McpInv, McpShape, Ended
  <2> QED
    BY <1>1, <2>1, <2>2, FailedKeeps
<1> QED
  BY <1>2, <1>3

LEMMA TimeoutKeeps ==
  ASSUME McpInv, NEW c \in Caller, Timeout(c)
  PROVE  McpInv'
<1>1. Ended(c, TRUE) /\ UNCHANGED <<inbox, unanswered, nextId>>
  BY DEF Timeout
<1>2. McpShape'
  BY <1>1, NoCallIsCall DEF McpInv, McpShape, Ended
<1> QED
  BY <1>1, <1>2, FailedKeeps

LEMMA SaysMore ==
  ASSUME McpShape, NEW s \in Servers, NEW line \in Line, Says(s, line)
  PROVE  /\ inbox' \in [Servers -> Seq(Line)] /\ line \in ToSet(inbox'[s])
         /\ \A r \in Servers : ToSet(inbox[r]) \subseteq ToSet(inbox'[r])
<1>1. inbox[s] \in Seq(Line)
  BY DEF McpShape
<1>2. inbox' = [inbox EXCEPT ![s] = Append(inbox[s], line)]
  BY DEF Says
<1>3. /\ line \in ToSet(Append(inbox[s], line)) /\ Append(inbox[s], line) \in Seq(Line)
      /\ ToSet(inbox[s]) \subseteq ToSet(Append(inbox[s], line))
  BY <1>1, InLonger
<1> QED
  BY <1>2, <1>3 DEF McpShape

LEMMA AnswerKeeps ==
  ASSUME McpInv, NEW s \in Servers, NEW id \in unanswered[s], Answer(s, id)
  PROVE  McpInv'
<1>1. /\ unanswered' = [unanswered EXCEPT ![s] = unanswered[s] \ {id}]
      /\ Says(s, id) /\ UNCHANGED <<call, nextId, failures>>
  BY DEF Answer
<1>2. id \in Line
  BY McpAssumption DEF McpInv, McpShape, Line
<1>3. /\ inbox' \in [Servers -> Seq(Line)] /\ id \in ToSet(inbox'[s])
      /\ \A r \in Servers : ToSet(inbox[r]) \subseteq ToSet(inbox'[r])
  BY <1>1, <1>2, SaysMore DEF McpInv
<1>4. McpShape'
  BY <1>1, <1>3 DEF McpInv, McpShape
<1>5. \A r \in Servers : unanswered[r] \subseteq unanswered'[r] \cup ToSet(inbox'[r])
  BY <1>1, <1>3 DEF McpInv, McpShape
<1> QED
  BY <1>1, <1>3, <1>4, <1>5, CallsStay

LEMMA ChatterKeeps ==
  ASSUME McpInv, NEW s \in Servers, NEW line \in {Notification, BadLine}, Chatter(s, line)
  PROVE  McpInv'
<1>1. Says(s, line) /\ UNCHANGED <<unanswered, call, nextId, failures>>
  BY DEF Chatter
<1>2. line \in Line
  BY McpAssumption DEF Notification, BadLine, Line
<1>3. /\ inbox' \in [Servers -> Seq(Line)]
      /\ \A r \in Servers : ToSet(inbox[r]) \subseteq ToSet(inbox'[r])
  BY <1>1, <1>2, SaysMore DEF McpInv
<1>4. McpShape'
  BY <1>1, <1>3 DEF McpInv, McpShape
<1> QED
  BY <1>1, <1>3, <1>4, CallsStay

LEMMA TakeKeeps ==
  ASSUME McpInv, NEW c \in Caller, Take(c)
  PROVE  McpInv'
<1> DEFINE s == call[c].server
           rest == Tail(inbox[s])
           kept == call[c].kept
<1> DEFINE line == Head(inbox[s])
<1>1. /\ Calling(c) /\ s \in Servers /\ inbox[s] \in Seq(Line) /\ inbox[s] # <<>>
      /\ UNCHANGED <<unanswered, nextId>>
  BY DEF Take, McpInv, McpShape, IdsInv
<1>2. line \in Line /\ rest \in Seq(Line) /\ kept \in Seq(Line) /\ call[c] \in Call
  BY <1>1 DEF McpInv, McpShape, Call
<1>3. CASE line = BadLine
  <2>1. BadLine # call[c].id
    BY <1>1, McpAssumption DEF McpInv, McpShape, IdsInv, BadLine
  <2>2. inbox' = [inbox EXCEPT ![s] = rest] /\ Ended(c, TRUE)
    BY <1>3, <2>1 DEF Take
  <2>3. McpShape'
    BY <1>1, <1>2, <2>2, NoCallIsCall DEF McpInv, McpShape, Ended
  <2> QED
    BY <1>1, <2>2, <2>3, FailedKeeps
<1>4. CASE line # BadLine /\ line = call[c].id
  <2> DEFINE back == rest \o kept
  <2>1. inbox' = [inbox EXCEPT ![s] = back] /\ Ended(c, FALSE)
    BY <1>4 DEF Take
  <2>2. back \in Seq(Line)
    BY <1>2
  <2>3. \A x \in ToSet(rest) \cup ToSet(kept) : x \in ToSet(back)
    BY <1>2, InEither
  <2> HIDE DEF back
  <2>4. \A d \in Caller : call'[d] = IF d = c THEN NoCall ELSE call[d]
    BY <2>1 DEF Ended, McpInv, McpShape
  <2>5. McpShape'
    BY <1>1, <2>1, <2>2, NoCallIsCall DEF McpInv, McpShape, Ended
  <2>6. IdsInv'
    BY <1>1, <2>4 DEF McpInv, IdsInv, Calling
  <2>7. ASSUME NEW d \in Caller, d # c, Calling(d), Reachable(d) PROVE Reachable(d)'
    <3>1. /\ call'[d] = call[d] /\ call[d].server \in Servers /\ call[d].id # line
          /\ inbox'[s] = back
      BY <1>1, <1>4, <2>1, <2>4, <2>7 DEF McpInv, McpShape, IdsInv
    <3>2. CASE call[d].id \in unanswered[call[d].server]
      BY <1>1, <3>1, <3>2 DEF Reachable
    <3>3. CASE call[d].id \in ToSet(inbox[call[d].server])
      <4>1. CASE call[d].server = s
        <5>1. call[d].id \in ToSet(rest)
          BY <1>1, <3>1, <3>3, <4>1, HeadAndRest
        <5> QED
          BY <2>3, <3>1, <4>1, <5>1 DEF Reachable
      <4>2. CASE call[d].server # s
        BY <2>1, <3>1, <3>3, <4>2 DEF Reachable, McpInv, McpShape
      <4> QED
        BY <4>1, <4>2
    <3>4. CASE KeptByOther(d)
      <4>1. PICK e \in Caller \ {d} : /\ call[e].server = call[d].server
                                     /\ call[d].id \in ToSet(call[e].kept)
        BY <3>4 DEF KeptByOther
      <4>2. CASE e = c
        BY <2>3, <3>1, <4>1, <4>2 DEF Reachable
      <4>3. CASE e # c
        BY <2>4, <3>1, <4>1, <4>3 DEF Reachable, KeptByOther
      <4> QED
        BY <4>2, <4>3
    <3> QED
      BY <2>7, <3>2, <3>3, <3>4 DEF Reachable
  <2>8. ReachInv'
    BY <2>1, <2>4, <2>7 DEF McpInv, McpShape, ReachInv, Calling, Ended
  <2> QED
    BY <2>5, <2>6, <2>8 DEF McpInv
<1>5. CASE line # BadLine /\ line # call[c].id
  <2> DEFINE now == [call[c] EXCEPT !.kept = Append(kept, line)]
  <2>1. inbox' = [inbox EXCEPT ![s] = rest] /\ Keep(c, line) /\ UNCHANGED failures
    BY <1>5 DEF Take
  <2>2. call' = [call EXCEPT ![c] = now]
    BY <2>1 DEF Keep, McpInv, McpShape
  <2>3. Append(kept, line) \in Seq(Line)
    BY <1>2
  <2>4. now \in Call /\ now.server = s /\ now.id = call[c].id /\ now.kept = Append(kept, line)
    BY <1>2, <2>3 DEF Call
  <2>5. line \in ToSet(now.kept) /\ ToSet(kept) \subseteq ToSet(now.kept)
    BY <1>2, <2>4, InLonger
  <2> HIDE DEF now
  <2>6. \A d \in Caller : call'[d] = IF d = c THEN now ELSE call[d]
    BY <2>2 DEF McpInv, McpShape
  <2>7. McpShape'
    BY <1>1, <1>2, <2>1, <2>2, <2>4 DEF McpInv, McpShape
  <2>8. now # NoCall /\ call[c].id \in 1 .. nextId - 1
    BY <1>1, <2>4 DEF McpInv, IdsInv, NoCall
  <2>9. \A d \in Caller : /\ Calling(d)' <=> Calling(d)
                          /\ call'[d].id = call[d].id /\ call'[d].server = call[d].server
    BY <1>1, <2>4, <2>6, <2>8 DEF Calling
  <2>10. IdsInv'
    BY <1>1, <2>9 DEF McpInv, IdsInv
  <2>11. ASSUME NEW d \in Caller, Calling(d), Reachable(d) PROVE Reachable(d)'
    <3>1. /\ call[d].server \in Servers /\ inbox'[s] = rest
          /\ call'[d].id = call[d].id /\ call'[d].server = call[d].server
      BY <1>1, <2>1, <2>9, <2>11 DEF McpInv, McpShape, IdsInv
    <3>2. CASE call[d].id \in unanswered[call[d].server]
      BY <1>1, <3>1, <3>2 DEF Reachable
    <3>3. CASE call[d].id \in ToSet(inbox[call[d].server])
      <4>1. CASE call[d].server = s /\ call[d].id = line
        <5>1. d # c
          BY <1>5, <4>1
        <5> QED
          BY <2>4, <2>5, <2>6, <3>1, <4>1, <5>1 DEF Reachable, KeptByOther
      <4>2. CASE call[d].server = s /\ call[d].id # line
        <5>1. call[d].id \in ToSet(rest)
          BY <1>1, <3>3, <4>2, HeadAndRest
        <5> QED
          BY <3>1, <4>2, <5>1 DEF Reachable
      <4>3. CASE call[d].server # s
        BY <2>1, <3>1, <3>3, <4>3 DEF Reachable, McpInv, McpShape
      <4> QED
        BY <4>1, <4>2, <4>3
    <3>4. CASE KeptByOther(d)
      <4>1. PICK e \in Caller \ {d} : /\ call[e].server = call[d].server
                                     /\ call[d].id \in ToSet(call[e].kept)
        BY <3>4 DEF KeptByOther
      <4>2. call[d].id \in ToSet(call'[e].kept) /\ call'[e].server = call[e].server
        BY <2>5, <2>6, <2>9, <4>1
      <4> QED
        BY <3>1, <4>1, <4>2 DEF Reachable, KeptByOther
    <3> QED
      BY <2>11, <3>2, <3>3, <3>4 DEF Reachable
  <2>12. ReachInv'
    BY <2>1, <2>9, <2>11 DEF McpInv, ReachInv
  <2> QED
    BY <2>7, <2>10, <2>12 DEF McpInv
<1> QED
  BY <1>3, <1>4, <1>5

-----------------------------------------------------------------------------
LEMMA McpInvInit == McpInit => McpInv
<1> SUFFICES ASSUME McpInit PROVE McpInv
  OBVIOUS
<1>1. McpShape
  <2>1. inbox \in [Servers -> Seq(Line)]
    BY DEF McpInit
  <2>2. unanswered \in [Servers -> SUBSET (1 .. MaxCalls)]
    BY DEF McpInit
  <2>3. call \in [Caller -> Call]
    BY NoCallIsCall DEF McpInit
  <2>4. nextId \in 1 .. MaxCalls + 1
    BY McpAssumption DEF McpInit
  <2>5. failures \in BOOLEAN
    BY DEF McpInit
  <2> QED
    BY <2>1, <2>2, <2>3, <2>4, <2>5 DEF McpShape
<1>2. IdsInv /\ ReachInv
  BY DEF McpInit, IdsInv, ReachInv, Calling
<1> QED
  BY <1>1, <1>2 DEF McpInv

\* Starting, a server's death and close touch neither lines nor calls.
LEMMA McpInvStep == McpInv /\ [McpNext]_mcpVars => McpInv'
<1> SUFFICES ASSUME McpInv, [McpNext]_mcpVars PROVE McpInv'
  OBVIOUS
<1>1. ASSUME UNCHANGED Calls PROVE McpInv'
  <2>1. McpShape'
    BY <1>1 DEF McpInv, McpShape, Calls
  <2>2. \A s \in Servers : /\ unanswered[s] \subseteq unanswered'[s] \cup ToSet(inbox'[s])
                           /\ ToSet(inbox[s]) \subseteq ToSet(inbox'[s])
    BY <1>1 DEF Calls
  <2> QED
    BY <1>1, <2>1, <2>2, CallsStay DEF Calls
<1>2. CASE Start
  BY <1>1, <1>2 DEF Start, ServerFails, Spawn, Initialize, RegisterTool, EndOfTools, Started
<1>3. CASE CloseAll
  BY <1>1, <1>3 DEF CloseAll
<1>4. ASSUME NEW s \in Servers, ServerDies(s) PROVE McpInv'
  BY <1>1, <1>4 DEF ServerDies, Calls
<1>5. CASE UNCHANGED mcpVars
  BY <1>1, <1>5 DEF mcpVars, Calls
<1> QED
  BY <1>2, <1>3, <1>4, <1>5, TakeKeeps, TimeoutKeeps, WriteKeeps, AnswerKeeps, ChatterKeeps
  DEF McpNext

-----------------------------------------------------------------------------
\* As long as no call has failed, the answer to every call under way has still
\* to come, or is in its server's queue, or is kept by another call that will
\* put it back (mcp/transport.py:55-82).
THEOREM AnswersAreReachable == McpSpec => []AnswerIsReachable
<1>1. McpInv => AnswerIsReachable
  BY ReachInvSays DEF McpInv
<1> QED
  BY <1>1, McpInvInit, McpInvStep, PTL DEF McpSpec

-----------------------------------------------------------------------------
(***************************************************************************)
(* The notes, their index and the count of pending updates                 *)
(***************************************************************************)

UpdaterStep == {"rest", "asking", "applying", "listing", "listed", "reporting", "counting"}
Updater == [at : UpdaterStep, left : Nat, listed : SUBSET (Scopes \X NoteId \X (NoteTexts \cup {NoNote})),
            counted : Nat, changed : BOOLEAN]

NotesShape ==
  /\ notes \in [Scopes -> [NoteId -> NoteTexts \cup {NoNote}]]
  /\ updater \in [Threads -> Updater]
  /\ updates \in Nat /\ pendingCount \in Nat /\ updateCount \in 0 .. MaxUpdates
  /\ broken \in [raised : Nat, index : BOOLEAN]

\* Updates that were scheduled and have not reported.
Outstanding == updates + (IF Doing("worker", "rest") THEN 0 ELSE 1) + broken.raised

\* The count may have lost an update to the race of its two writers; it never
\* has one too many.
PendingIsCovered ==
  /\ Outstanding <= updateCount
  /\ pendingCount <= Outstanding
  /\ Doing("worker", "counting") => updater["worker"].counted <= Outstanding

\* Who has changed a note is between the first operation and the index.
ChangedIsUnderWay ==
  \A t \in Threads : updater[t].changed => updater[t].at \in {"applying", "listed"}

ListedIsCurrent ==
  ~ broken.index => \A t \in Threads : Doing(t, "listed") => updater[t].listed = Notes

IndexIsCurrent ==
  ~ broken.index /\ (\A t \in Threads : ~ updater[t].changed) => index \in Render(Notes)

NotesInv ==
  /\ NotesShape /\ PendingIsCovered /\ ChangedIsUnderWay
  /\ ListedIsCurrent /\ IndexIsCurrent

LEMMA RestIsUpdater ==
  /\ AtRest \in Updater /\ AtRest.at = "rest" /\ ~ AtRest.changed
  /\ [AtRest EXCEPT !.at = "reporting"] \in Updater
  /\ [AtRest EXCEPT !.at = "reporting"].at = "reporting"
  /\ ~ [AtRest EXCEPT !.at = "reporting"].changed
BY DEF AtRest, Updater, UpdaterStep

LEMMA UpdaterMoves ==
  ASSUME NotesShape, NEW t \in Threads, NEW new \in Updater,
         updater' = [updater EXCEPT ![t] = new]
  PROVE  /\ updater' \in [Threads -> Updater]
         /\ \A u \in Threads : updater'[u] = IF u = t THEN new ELSE updater[u]
BY DEF NotesShape

\* One thread changes what it is doing and nothing else: the files, the counts
\* and what the history says of the index stay.
LEMMA ThreadTurns ==
  ASSUME NotesInv, NEW t \in Threads, NEW new \in Updater,
         updater' = [updater EXCEPT ![t] = new],
         Files, Counts, broken' = broken,
         ~ updater[t].changed \/ new.changed,
         new.changed => updater[t].changed /\ new.at \in {"applying", "listed"},
         new.at = "listed" => new.listed = Notes,
         new.at = "rest" <=> updater[t].at = "rest",
         new.at = "counting" => new.counted <= pendingCount
  PROVE  NotesInv'
<1>1. /\ updater' \in [Threads -> Updater]
      /\ \A u \in Threads : updater'[u] = IF u = t THEN new ELSE updater[u]
  BY UpdaterMoves DEF NotesInv
<1>2. /\ notes' = notes /\ index' = index /\ pendingCount' = pendingCount /\ updates' = updates
      /\ updateCount' = updateCount
  BY DEF Files, Counts
<1>3. NotesShape'
  BY <1>1, <1>2 DEF NotesInv, NotesShape
<1>4. Notes' = Notes
  BY <1>2 DEF Notes, Note
<1>5. Outstanding' = Outstanding
  <2>1. Doing("worker", "rest")' <=> Doing("worker", "rest")
    BY <1>1 DEF Doing, Threads
  <2> QED BY <1>2, <2>1 DEF Outstanding
<1>6. PendingIsCovered'
  <2>1. pendingCount <= Outstanding /\ Outstanding <= updateCount
        /\ (updater["worker"].at = "counting" => updater["worker"].counted <= Outstanding)
    BY DEF NotesInv, PendingIsCovered, Doing
  <2>2. updates \in Nat /\ broken.raised \in Nat /\ pendingCount \in Nat
    BY DEF NotesInv, NotesShape
  <2>3. Outstanding \in Nat
    BY <2>2 DEF Outstanding
  <2>4. new.counted \in Nat
    BY DEF Updater
  <2>5. updater'["worker"].at = "counting" => updater'["worker"].counted <= Outstanding
    BY <1>1, <2>1, <2>2, <2>3, <2>4 DEF Threads
  <2> QED BY <1>2, <1>5, <2>1, <2>5 DEF PendingIsCovered, Doing
<1>7. ChangedIsUnderWay'
  BY <1>1 DEF NotesInv, ChangedIsUnderWay
<1>8. ListedIsCurrent'
  BY <1>1, <1>4 DEF NotesInv, ListedIsCurrent, Doing
<1>9. IndexIsCurrent'
  <2>1. (\A u \in Threads : ~ updater'[u].changed) => \A u \in Threads : ~ updater[u].changed
    BY <1>1
  <2> QED BY <1>2, <1>4, <2>1 DEF NotesInv, IndexIsCurrent
<1> QED BY <1>3, <1>6, <1>7, <1>8, <1>9 DEF NotesInv

LEMMA ScheduleKeeps == NotesInv /\ ScheduleUpdate => NotesInv'
<1> SUFFICES ASSUME NotesInv, ScheduleUpdate PROVE NotesInv'
  OBVIOUS
<1>1. /\ notes' = notes /\ index' = index /\ updater' = updater /\ broken' = broken
      /\ pendingCount' = pendingCount + 1 /\ updates' = updates + 1
      /\ updateCount' = updateCount + 1 /\ updateCount < MaxUpdates
  BY DEF ScheduleUpdate, Files
<1>2. MaxUpdates \in Nat
  BY NotesAssumption
<1>3. NotesShape'
  BY <1>1, <1>2 DEF NotesInv, NotesShape
<1>4. Notes' = Notes
  BY <1>1 DEF Notes, Note
<1>5. Outstanding' = Outstanding + 1 /\ Outstanding \in Nat
  <2>1. updates \in Nat /\ broken.raised \in Nat
    BY DEF NotesInv, NotesShape
  <2> QED BY <1>1, <2>1 DEF Outstanding, Doing
<1>6. PendingIsCovered'
  <2>1. updater["worker"].counted \in Nat /\ updateCount \in Nat /\ pendingCount \in Nat
    BY DEF NotesInv, NotesShape, Updater, Threads
  <2> QED BY <1>1, <1>5, <2>1 DEF NotesInv, PendingIsCovered, Doing
<1> QED
  BY <1>1, <1>3, <1>4, <1>6
  DEF NotesInv, ChangedIsUnderWay, ListedIsCurrent, IndexIsCurrent, Doing

LEMMA RunKeeps == NotesInv /\ RunUpdate => NotesInv'
<1> SUFFICES ASSUME NotesInv, RunUpdate PROVE NotesInv'
  OBVIOUS
<1> DEFINE new == [updater["worker"] EXCEPT !.at = "asking"]
<1>0. "worker" \in Threads /\ updater["worker"] \in Updater
  BY DEF Threads, NotesInv, NotesShape
<1>1. /\ notes' = notes /\ index' = index /\ broken' = broken
      /\ pendingCount' = pendingCount /\ updates' = updates - 1 /\ updates > 0
      /\ updateCount' = updateCount /\ updater["worker"].at = "rest"
      /\ updater' = [updater EXCEPT !["worker"] = new]
  BY DEF RunUpdate, Files, Go, Doing
<1>2. ~ updater["worker"].changed
  BY <1>0, <1>1 DEF NotesInv, ChangedIsUnderWay
<1>3. new \in Updater /\ new.at = "asking" /\ new.changed = updater["worker"].changed
  BY <1>0 DEF Updater, UpdaterStep
<1> HIDE DEF new
<1>4. /\ updater' \in [Threads -> Updater]
      /\ \A u \in Threads : updater'[u] = IF u = "worker" THEN new ELSE updater[u]
  BY <1>0, <1>1, <1>3, UpdaterMoves DEF NotesInv
<1>5. NotesShape'
  BY <1>1, <1>4 DEF NotesInv, NotesShape
<1>6. Notes' = Notes
  BY <1>1 DEF Notes, Note
<1>7. Outstanding' = Outstanding
  <2>1. updates \in Nat /\ broken.raised \in Nat
    BY DEF NotesInv, NotesShape
  <2>2. Doing("worker", "rest") /\ ~ Doing("worker", "rest")'
    BY <1>0, <1>1, <1>3, <1>4 DEF Doing
  <2> QED BY <1>1, <2>1, <2>2 DEF Outstanding
<1>8. PendingIsCovered'
  BY <1>0, <1>1, <1>3, <1>4, <1>7 DEF NotesInv, PendingIsCovered, Doing
<1>9. ChangedIsUnderWay'
  BY <1>2, <1>3, <1>4 DEF NotesInv, ChangedIsUnderWay
<1>10. ListedIsCurrent'
  BY <1>1, <1>3, <1>4, <1>6 DEF NotesInv, ListedIsCurrent, Doing
<1>11. IndexIsCurrent'
  BY <1>1, <1>2, <1>3, <1>4, <1>6 DEF NotesInv, IndexIsCurrent
<1> QED BY <1>5, <1>8, <1>9, <1>10, <1>11 DEF NotesInv

LEMMA CommandKeeps == NotesInv /\ UserCommand => NotesInv'
<1> SUFFICES ASSUME NotesInv, UserCommand PROVE NotesInv'
  OBVIOUS
<1>1. PICK what \in {"asking", "listing"} : Go("main", what)
  BY DEF UserCommand
<1> DEFINE new == [updater["main"] EXCEPT !.at = what]
<1>2. "main" \in Threads /\ updater["main"] \in Updater /\ updater["main"].at = "rest"
  BY DEF Threads, NotesInv, NotesShape, UserCommand, MainIsFree, Doing
<1>3. /\ notes' = notes /\ index' = index /\ broken' = broken
      /\ pendingCount' = pendingCount /\ updates' = updates /\ updateCount' = updateCount
      /\ updater' = [updater EXCEPT !["main"] = new]
  BY <1>1 DEF UserCommand, Files, Go
<1>4. ~ updater["main"].changed
  BY <1>2 DEF NotesInv, ChangedIsUnderWay
<1>5. new \in Updater /\ new.at = what /\ new.changed = updater["main"].changed
  BY <1>2 DEF Updater, UpdaterStep
<1> HIDE DEF new
<1>6. /\ updater' \in [Threads -> Updater]
      /\ \A u \in Threads : updater'[u] = IF u = "main" THEN new ELSE updater[u]
  BY <1>2, <1>3, <1>5, UpdaterMoves DEF NotesInv
<1>7. "worker" \in Threads /\ updater'["worker"] = updater["worker"]
  BY <1>6 DEF Threads
<1>8. NotesShape'
  BY <1>3, <1>6 DEF NotesInv, NotesShape
<1>9. Notes' = Notes
  BY <1>3 DEF Notes, Note
<1>10. PendingIsCovered'
  BY <1>3, <1>7 DEF NotesInv, PendingIsCovered, Doing, Outstanding
<1>11. ChangedIsUnderWay'
  BY <1>4, <1>5, <1>6 DEF NotesInv, ChangedIsUnderWay
<1>12. ListedIsCurrent'
  BY <1>3, <1>5, <1>6, <1>9 DEF NotesInv, ListedIsCurrent, Doing
<1>13. IndexIsCurrent'
  BY <1>3, <1>4, <1>5, <1>6, <1>9 DEF NotesInv, IndexIsCurrent
<1> QED BY <1>8, <1>10, <1>11, <1>12, <1>13 DEF NotesInv

\* How update_from_turn ends.
Returned(t) == IF t = "main" THEN AtRest ELSE [AtRest EXCEPT !.at = "reporting"]

LEMMA ReturnedIsUpdater ==
  ASSUME NEW t \in Threads
  PROVE  /\ Returned(t) \in Updater /\ ~ Returned(t).changed
         /\ Returned(t).at \in {"rest", "reporting"}
         /\ t = "worker" => Returned(t).at = "reporting"
BY RestIsUpdater DEF Returned

\* A thread ends its update; the files stay or the index is written.
LEMMA UpdateEnds ==
  ASSUME NotesInv, NEW t \in Threads, NEW new \in Updater, ~ new.changed,
         new.at \in {"rest", "reporting"},
         updater' = [updater EXCEPT ![t] = new],
         notes' = notes, Counts, updater[t].at # "rest",
         broken' \in [raised : Nat, index : BOOLEAN],
         broken'.raised = broken.raised + (IF t = "worker" /\ new.at = "rest" THEN 1 ELSE 0),
         ~ broken'.index => \/ ~ broken.index
                            \/ \A u \in Threads \ {t} : updater[u].at # "listed",
         ~ broken'.index /\ (\A u \in Threads \ {t} : ~ updater[u].changed)
           => index' \in Render(Notes)
  PROVE  NotesInv'
<1>1. /\ updater' \in [Threads -> Updater]
      /\ \A u \in Threads : updater'[u] = IF u = t THEN new ELSE updater[u]
  BY UpdaterMoves DEF NotesInv
<1>2. pendingCount' = pendingCount /\ updates' = updates /\ updateCount' = updateCount
  BY DEF Counts
<1>3. NotesShape'
  BY <1>1, <1>2 DEF NotesInv, NotesShape
<1>4. Notes' = Notes
  BY DEF Notes, Note
<1>5. updates \in Nat /\ broken.raised \in Nat /\ "worker" \in Threads
  BY DEF NotesInv, NotesShape, Threads
<1>6. Outstanding' = Outstanding
  <2>1. CASE t = "worker"
    <3>1. updater["worker"].at # "rest" /\ updater'["worker"].at = new.at
      BY <1>1, <1>5, <2>1
    <3> QED BY <1>2, <1>5, <2>1, <3>1 DEF Outstanding, Doing
  <2>2. CASE t # "worker"
    <3>1. updater'["worker"] = updater["worker"]
      BY <1>1, <1>5, <2>2
    <3> QED BY <1>2, <1>5, <2>2, <3>1 DEF Outstanding, Doing
  <2> QED BY <2>1, <2>2
<1>7. PendingIsCovered'
  <2>1. updater'["worker"].at = "counting" => updater'["worker"] = updater["worker"]
    BY <1>1, <1>5
  <2> QED BY <1>2, <1>6, <2>1 DEF NotesInv, PendingIsCovered, Doing
<1>8. ChangedIsUnderWay'
  BY <1>1 DEF NotesInv, ChangedIsUnderWay
<1>9. ListedIsCurrent'
  <2> SUFFICES ASSUME ~ broken'.index, NEW u \in Threads, updater'[u].at = "listed"
               PROVE  updater'[u].listed = Notes
    BY <1>4 DEF ListedIsCurrent, Doing
  <2>1. u # t /\ updater'[u] = updater[u]
    BY <1>1
  <2>2. ~ broken.index
    BY <2>1
  <2> QED BY <2>1, <2>2 DEF NotesInv, ListedIsCurrent, Doing
<1>10. IndexIsCurrent'
  <2> SUFFICES ASSUME ~ broken'.index, \A u \in Threads : ~ updater'[u].changed
               PROVE  index' \in Render(Notes)
    BY <1>4 DEF IndexIsCurrent, Render
  <2>1. \A u \in Threads \ {t} : ~ updater[u].changed
    BY <1>1
  <2> QED BY <2>1
<1> QED BY <1>3, <1>7, <1>8, <1>9, <1>10 DEF NotesInv

LEMMA UpdaterOf ==
  ASSUME NotesInv, NEW t \in Threads
  PROVE  /\ updater[t] \in Updater /\ updater[t].at \in UpdaterStep
         /\ updater[t].left \in Nat /\ updater[t].changed \in BOOLEAN
         /\ broken \in [raised : Nat, index : BOOLEAN]
         /\ broken.raised \in Nat /\ broken.index \in BOOLEAN
BY DEF NotesInv, NotesShape, Updater

LEMMA NoOperationsKeeps ==
  ASSUME NotesInv, NEW t \in Threads, NoOperations(t)
  PROVE  NotesInv'
<1>1. /\ updater[t].at = "asking" /\ updater' = [updater EXCEPT ![t] = Returned(t)]
      /\ notes' = notes /\ index' = index /\ Counts /\ broken' = broken
  BY DEF NoOperations, Doing, Return, Files, Returned
<1>2. ~ updater[t].changed
  BY <1>1 DEF NotesInv, ChangedIsUnderWay
<1>3. /\ Returned(t) \in Updater /\ ~ Returned(t).changed
      /\ Returned(t).at \in {"rest", "reporting"}
      /\ t = "worker" => Returned(t).at = "reporting"
  BY ReturnedIsUpdater
<1>4. /\ broken' \in [raised : Nat, index : BOOLEAN]
      /\ broken'.raised = broken.raised + (IF t = "worker" /\ Returned(t).at = "rest" THEN 1 ELSE 0)
  BY <1>1, <1>3, UpdaterOf
<1>5. ~ broken'.index /\ (\A u \in Threads \ {t} : ~ updater[u].changed)
        => index' \in Render(Notes)
  BY <1>1, <1>2 DEF NotesInv, IndexIsCurrent
<1> QED BY <1>1, <1>3, <1>4, <1>5, UpdateEnds

LEMMA BadOperationKeeps ==
  ASSUME NotesInv, NEW t \in Threads, BadOperation(t)
  PROVE  NotesInv'
<1>1. /\ updater[t].at = "applying" /\ updater' = [updater EXCEPT ![t] = Returned(t)]
      /\ notes' = notes /\ index' = index /\ Counts
      /\ broken' = [broken EXCEPT !.index = broken.index \/ updater[t].changed]
  BY DEF BadOperation, Applying, Doing, Return, Files, Returned
<1>2. /\ Returned(t) \in Updater /\ ~ Returned(t).changed
      /\ Returned(t).at \in {"rest", "reporting"}
      /\ t = "worker" => Returned(t).at = "reporting"
  BY ReturnedIsUpdater
<1>3. /\ broken' \in [raised : Nat, index : BOOLEAN]
      /\ broken'.raised = broken.raised /\ broken'.index = (broken.index \/ updater[t].changed)
  BY <1>1, UpdaterOf
<1>4. broken'.raised = broken.raised + (IF t = "worker" /\ Returned(t).at = "rest" THEN 1 ELSE 0)
  BY <1>2, <1>3, UpdaterOf
<1>5. ~ broken'.index /\ (\A u \in Threads \ {t} : ~ updater[u].changed)
        => index' \in Render(Notes)
  BY <1>1, <1>3 DEF NotesInv, IndexIsCurrent
<1> QED BY <1>1, <1>2, <1>3, <1>4, <1>5, UpdateEnds

LEMMA BadNoteKeeps ==
  ASSUME NotesInv, NEW t \in Threads, BadNote(t)
  PROVE  NotesInv'
<1>1. /\ updater[t].at = "applying" /\ updater' = [updater EXCEPT ![t] = AtRest]
      /\ notes' = notes /\ index' = index /\ Counts
      /\ broken' = [raised |-> broken.raised + (IF t = "worker" THEN 1 ELSE 0),
                    index |-> broken.index \/ updater[t].changed]
  BY DEF BadNote, Applying, Doing, Files
<1>2. AtRest \in Updater /\ ~ AtRest.changed /\ AtRest.at = "rest"
  BY RestIsUpdater
<1>3. /\ broken' \in [raised : Nat, index : BOOLEAN]
      /\ broken'.index = (broken.index \/ updater[t].changed)
      /\ broken'.raised = broken.raised + (IF t = "worker" /\ AtRest.at = "rest" THEN 1 ELSE 0)
  BY <1>1, <1>2, UpdaterOf
<1>4. ~ broken'.index /\ (\A u \in Threads \ {t} : ~ updater[u].changed)
        => index' \in Render(Notes)
  BY <1>1, <1>3 DEF NotesInv, IndexIsCurrent
<1> QED BY <1>1, <1>2, <1>3, <1>4, UpdateEnds

LEMMA RebuildFailsKeeps ==
  ASSUME NotesInv, NEW t \in Threads, RebuildFails(t)
  PROVE  NotesInv'
<1>1. /\ updater[t].at \in {"applying", "listing", "listed"}
      /\ updater' = [updater EXCEPT ![t] = AtRest] /\ notes' = notes /\ Counts
      /\ broken' = [raised |-> broken.raised + (IF t = "worker" THEN 1 ELSE 0),
                    index |-> broken.index \/ updater[t].changed \/ index' # index]
  BY DEF RebuildFails
<1>2. AtRest \in Updater /\ ~ AtRest.changed /\ AtRest.at = "rest"
  BY RestIsUpdater
<1>3. /\ broken' \in [raised : Nat, index : BOOLEAN]
      /\ broken'.index = (broken.index \/ updater[t].changed \/ index' # index)
      /\ broken'.raised = broken.raised + (IF t = "worker" /\ AtRest.at = "rest" THEN 1 ELSE 0)
  BY <1>1, <1>2, UpdaterOf
<1>4. ~ broken'.index /\ (\A u \in Threads \ {t} : ~ updater[u].changed)
        => index' \in Render(Notes)
  BY <1>3 DEF NotesInv, IndexIsCurrent
<1> QED BY <1>1, <1>2, <1>3, <1>4, UpdateEnds

LEMMA NoteWriteKeeps ==
  ASSUME NotesInv, NEW t \in Threads, WriteIndex(t)
  PROVE  NotesInv'
<1>1. /\ updater[t].at = "listed" /\ updater' = [updater EXCEPT ![t] = Returned(t)]
      /\ notes' = notes /\ Counts /\ index' \in Render(updater[t].listed)
  BY DEF WriteIndex, Doing, Return, Returned
<1>2. /\ Returned(t) \in Updater /\ ~ Returned(t).changed
      /\ Returned(t).at \in {"rest", "reporting"}
      /\ t = "worker" => Returned(t).at = "reporting"
  BY ReturnedIsUpdater
<1>3. CASE \A u \in Threads \ {t} : ~ updater[u].changed /\ ~ Doing(u, "listed")
  <2>1. broken' = [broken EXCEPT !.index = updater[t].listed # Notes]
    BY <1>3 DEF WriteIndex
  <2>2. /\ broken' \in [raised : Nat, index : BOOLEAN] /\ broken'.raised = broken.raised
        /\ broken'.index = (updater[t].listed # Notes)
    BY <2>1, UpdaterOf
  <2>3. broken'.raised = broken.raised + (IF t = "worker" /\ Returned(t).at = "rest" THEN 1 ELSE 0)
    BY <1>2, <2>2, UpdaterOf
  <2>4. ~ broken'.index => index' \in Render(Notes)
    BY <1>1, <2>2
  <2>5. \A u \in Threads \ {t} : updater[u].at # "listed"
    BY <1>3 DEF Doing
  <2> QED BY <1>1, <1>2, <2>2, <2>3, <2>4, <2>5, UpdateEnds
<1>4. CASE ~ \A u \in Threads \ {t} : ~ updater[u].changed /\ ~ Doing(u, "listed")
  <2>1. broken' = broken
    BY <1>4 DEF WriteIndex
  <2>2. /\ broken' \in [raised : Nat, index : BOOLEAN]
        /\ broken'.raised = broken.raised + (IF t = "worker" /\ Returned(t).at = "rest" THEN 1 ELSE 0)
    BY <1>2, <2>1, UpdaterOf
  <2>3. ~ broken'.index => index' \in Render(Notes)
    <3>1. ~ broken.index => updater[t].listed = Notes
      BY <1>1 DEF NotesInv, ListedIsCurrent, Doing
    <3> QED BY <1>1, <2>1, <3>1
  <2> QED BY <1>1, <1>2, <2>1, <2>2, <2>3, UpdateEnds
<1> QED BY <1>3, <1>4

LEMMA AnswersKeeps ==
  ASSUME NotesInv, NEW t \in Threads, ModelAnswers(t)
  PROVE  NotesInv'
<1> DEFINE new == [updater[t] EXCEPT !.at = "applying", !.left = MaxOperations]
<1>1. /\ updater[t].at = "asking" /\ updater' = [updater EXCEPT ![t] = new]
      /\ Files /\ Counts /\ broken' = broken
  BY DEF ModelAnswers, Doing
<1>2. ~ updater[t].changed
  BY <1>1 DEF NotesInv, ChangedIsUnderWay
<1>3. updater[t] \in Updater /\ MaxOperations \in Nat
  BY UpdaterOf, NotesAssumption
<1>4. new \in Updater /\ new.at = "applying" /\ new.changed = updater[t].changed
  BY <1>3 DEF Updater, UpdaterStep
<1> HIDE DEF new
<1> QED BY <1>1, <1>2, <1>4, ThreadTurns

LEMMA ListKeeps ==
  ASSUME NotesInv, NEW t \in Threads, List(t)
  PROVE  NotesInv'
<1> DEFINE new == [updater[t] EXCEPT !.at = "listed", !.listed = Notes]
<1>1. /\ updater[t].at \in {"applying", "listing"} /\ updater' = [updater EXCEPT ![t] = new]
      /\ Files /\ Counts /\ broken' = broken
  BY DEF List, Doing
<1>2. updater[t] \in Updater
  BY UpdaterOf
<1>3. Notes \subseteq Scopes \X NoteId \X (NoteTexts \cup {NoNote})
  BY DEF Notes, Note, NotesInv, NotesShape
<1>4. new \in Updater /\ new.at = "listed" /\ new.changed = updater[t].changed /\ new.listed = Notes
  BY <1>2, <1>3 DEF Updater, UpdaterStep
<1> HIDE DEF new
<1>5. updater[t].changed \in BOOLEAN
  BY UpdaterOf
<1> QED BY <1>1, <1>4, <1>5, ThreadTurns

\* An operation changes a note of one thread's update.
LEMMA OperationKeeps ==
  ASSUME NotesInv, NEW t \in Threads, Applying(t), Applied(t),
         notes' \in [Scopes -> [NoteId -> NoteTexts \cup {NoNote}]]
  PROVE  NotesInv'
<1> DEFINE new == [updater[t] EXCEPT !.left = @ - 1, !.changed = TRUE]
<1>1. /\ updater[t].at = "applying" /\ updater[t].left > 0
      /\ updater' = [updater EXCEPT ![t] = new]
      /\ Counts /\ broken' = [broken EXCEPT
           !.index = broken.index \/ \E u \in Threads \ {t} : updater[u].at = "listed"]
  BY DEF Applying, Applied, Doing
<1>2. updater[t] \in Updater /\ updater[t].left \in Nat
  BY UpdaterOf
<1>3. updater[t].left - 1 \in Nat
  BY <1>1, <1>2
<1>4. new \in Updater /\ new.at = "applying" /\ new.changed
  BY <1>1, <1>2, <1>3 DEF Updater
<1> HIDE DEF new
<1>5. /\ updater' \in [Threads -> Updater]
      /\ \A u \in Threads : updater'[u] = IF u = t THEN new ELSE updater[u]
  BY <1>1, <1>4, UpdaterMoves DEF NotesInv
<1>6. /\ broken' \in [raised : Nat, index : BOOLEAN] /\ broken'.raised = broken.raised
      /\ ~ broken'.index => \A u \in Threads \ {t} : updater[u].at # "listed"
  BY <1>1, UpdaterOf
<1>7. NotesShape'
  BY <1>1, <1>5, <1>6 DEF NotesInv, NotesShape, Counts
<1>8. PendingIsCovered'
  <2>1. "worker" \in Threads
    BY DEF Threads
  <2>2. Doing("worker", "rest")' <=> Doing("worker", "rest")
    BY <1>1, <1>4, <1>5, <2>1 DEF Doing
  <2>3. Outstanding' = Outstanding
    BY <1>1, <1>6, <2>2 DEF Outstanding, Counts
  <2>4. updater'["worker"].at = "counting" => updater'["worker"] = updater["worker"]
    BY <1>4, <1>5, <2>1
  <2> QED BY <1>1, <2>3, <2>4 DEF NotesInv, PendingIsCovered, Doing, Counts
<1>9. ChangedIsUnderWay'
  BY <1>4, <1>5 DEF NotesInv, ChangedIsUnderWay
<1>10. ListedIsCurrent'
  BY <1>4, <1>5, <1>6 DEF ListedIsCurrent, Doing
<1>11. IndexIsCurrent'
  BY <1>4, <1>5 DEF IndexIsCurrent
<1> QED BY <1>7, <1>8, <1>9, <1>10, <1>11 DEF NotesInv

LEMMA NoteKeeps ==
  ASSUME NotesInv, NEW t \in Threads, NEW s \in Scopes, NEW n \in NoteId,
         \/ \E text \in NoteTexts : CreateNote(t, s, n, text) \/ UpdateNote(t, s, n, text)
         \/ DeleteNote(t, s, n)
  PROVE  NotesInv'
<1>1. PICK text \in NoteTexts \cup {NoNote} : notes' = [notes EXCEPT ![s][n] = text]
  BY DEF CreateNote, UpdateNote, DeleteNote
<1>2. Applying(t) /\ Applied(t)
  BY DEF CreateNote, UpdateNote, DeleteNote
<1>3. notes' \in [Scopes -> [NoteId -> NoteTexts \cup {NoNote}]]
  <2>1. notes \in [Scopes -> [NoteId -> NoteTexts \cup {NoNote}]]
    BY DEF NotesInv, NotesShape
  <2>2. [notes[s] EXCEPT ![n] = text] \in [NoteId -> NoteTexts \cup {NoNote}]
    BY <2>1
  <2> QED BY <1>1, <2>1, <2>2
<1> QED BY <1>2, <1>3, OperationKeeps

LEMMA CountReadKeeps == NotesInv /\ CountRead => NotesInv'
<1> SUFFICES ASSUME NotesInv, CountRead PROVE NotesInv'
  OBVIOUS
<1> DEFINE new == [updater["worker"] EXCEPT !.at = "counting", !.counted = pendingCount]
<1>1. /\ updater["worker"].at = "reporting" /\ updater' = [updater EXCEPT !["worker"] = new]
      /\ Files /\ Counts /\ broken' = broken /\ "worker" \in Threads
  BY DEF CountRead, Doing, Threads
<1>2. updater["worker"] \in Updater /\ pendingCount \in Nat
  BY <1>1, UpdaterOf DEF NotesInv, NotesShape
<1>3. ~ updater["worker"].changed
  BY <1>1 DEF NotesInv, ChangedIsUnderWay
<1>4. /\ new \in Updater /\ new.at = "counting" /\ new.changed = updater["worker"].changed
      /\ new.counted = pendingCount
  BY <1>2 DEF Updater, UpdaterStep
<1> HIDE DEF new
<1>5. new.counted <= pendingCount
  BY <1>2, <1>4
<1> QED BY <1>1, <1>3, <1>4, <1>5, ThreadTurns

LEMMA CountWrittenKeeps == NotesInv /\ CountWritten => NotesInv'
<1> SUFFICES ASSUME NotesInv, CountWritten PROVE NotesInv'
  OBVIOUS
<1> DEFINE counted == updater["worker"].counted
<1>1. /\ updater["worker"].at = "counting" /\ "worker" \in Threads
      /\ pendingCount' = (IF counted = 0 THEN 0 ELSE counted - 1)
      /\ updater' = [updater EXCEPT !["worker"] = AtRest]
      /\ notes' = notes /\ index' = index /\ updates' = updates /\ updateCount' = updateCount
      /\ broken' = broken
  BY DEF CountWritten, Doing, Threads, Files
<1>2. /\ updater["worker"] \in Updater /\ counted \in Nat /\ broken.raised \in Nat
      /\ updates \in Nat /\ updateCount \in Nat
  BY <1>1, UpdaterOf DEF Updater, NotesInv, NotesShape
<1>3. counted <= Outstanding /\ Outstanding <= updateCount
  BY <1>1 DEF NotesInv, PendingIsCovered, Doing
<1> HIDE DEF counted
<1>4. AtRest \in Updater /\ AtRest.at = "rest" /\ ~ AtRest.changed
  BY RestIsUpdater
<1>5. /\ updater' \in [Threads -> Updater]
      /\ \A u \in Threads : updater'[u] = IF u = "worker" THEN AtRest ELSE updater[u]
  BY <1>1, <1>4, UpdaterMoves DEF NotesInv
<1>6. Outstanding = updates + 1 + broken.raised /\ Outstanding' = updates + broken.raised
  <2>1. ~ Doing("worker", "rest") /\ Doing("worker", "rest")'
    BY <1>1, <1>4, <1>5 DEF Doing
  <2> QED BY <1>1, <1>2, <2>1 DEF Outstanding
<1>7. pendingCount' \in Nat /\ pendingCount' <= Outstanding' /\ Outstanding' <= updateCount'
  BY <1>1, <1>2, <1>3, <1>6
<1>8. NotesShape'
  BY <1>1, <1>5, <1>7 DEF NotesInv, NotesShape
<1>9. PendingIsCovered'
  BY <1>1, <1>4, <1>5, <1>7 DEF PendingIsCovered, Doing
<1>10. Notes' = Notes
  BY <1>1 DEF Notes, Note
<1>11. ~ updater["worker"].changed
  BY <1>1 DEF NotesInv, ChangedIsUnderWay
<1>12. ChangedIsUnderWay'
  BY <1>4, <1>5 DEF NotesInv, ChangedIsUnderWay
<1>13. ListedIsCurrent'
  BY <1>1, <1>4, <1>5, <1>10 DEF NotesInv, ListedIsCurrent, Doing
<1>14. IndexIsCurrent'
  BY <1>1, <1>4, <1>5, <1>10, <1>11 DEF NotesInv, IndexIsCurrent
<1> QED BY <1>8, <1>9, <1>12, <1>13, <1>14 DEF NotesInv

LEMMA DiesKeeps == NotesInv /\ MemoryDies => NotesInv'
<1> SUFFICES ASSUME NotesInv, MemoryDies PROVE NotesInv'
  OBVIOUS
<1>1. /\ updater' = [t \in Threads |-> AtRest] /\ updates' = 0 /\ pendingCount' = 0
      /\ notes' = notes /\ index' = index /\ updateCount' = updateCount
      /\ broken' = [raised |-> 0,
                    index |-> broken.index \/ \E t \in Threads : updater[t].changed]
  BY DEF MemoryDies, Files
<1>2. AtRest \in Updater /\ AtRest.at = "rest" /\ ~ AtRest.changed /\ "worker" \in Threads
  BY RestIsUpdater DEF Threads
<1>3. broken' \in [raised : Nat, index : BOOLEAN] /\ broken'.raised = 0
  BY <1>1, UpdaterOf DEF NotesInv, NotesShape
<1>4. NotesShape'
  BY <1>1, <1>2, <1>3 DEF NotesInv, NotesShape
<1>5. Outstanding' = 0
  BY <1>1, <1>2, <1>3 DEF Outstanding, Doing
<1>6. updateCount \in Nat
  BY DEF NotesInv, NotesShape
<1>7. PendingIsCovered'
  BY <1>1, <1>2, <1>5, <1>6 DEF PendingIsCovered, Doing
<1>8. Notes' = Notes
  BY <1>1 DEF Notes, Note
<1>9. ChangedIsUnderWay' /\ ListedIsCurrent'
  BY <1>1, <1>2 DEF ChangedIsUnderWay, ListedIsCurrent, Doing
<1>10. IndexIsCurrent'
  BY <1>1, <1>8 DEF NotesInv, IndexIsCurrent
<1> QED BY <1>4, <1>7, <1>9, <1>10 DEF NotesInv

LEMMA NotesInvInit == NotesInit => NotesInv
<1> SUFFICES ASSUME NotesInit PROVE NotesInv
  OBVIOUS
<1>1. /\ notes \in [Scopes -> [NoteId -> {NoNote}]] /\ index = {} /\ updates = 0
      /\ pendingCount = 0 /\ updater = [t \in Threads |-> AtRest] /\ updateCount = 0
      /\ broken = [raised |-> 0, index |-> FALSE]
  BY DEF NotesInit
<1>2. AtRest \in Updater /\ AtRest.at = "rest" /\ ~ AtRest.changed /\ "worker" \in Threads
      /\ MaxUpdates \in Nat /\ IndexLimit \in Nat
  BY RestIsUpdater, NotesAssumption DEF Threads
<1>3. notes \in [Scopes -> [NoteId -> NoteTexts \cup {NoNote}]]
  BY <1>1
<1>4. NotesShape
  BY <1>1, <1>2, <1>3 DEF NotesShape
<1>5. PendingIsCovered
  BY <1>1, <1>2 DEF PendingIsCovered, Outstanding, Doing
<1>6. Notes = {}
  <2>1. \A s \in Scopes, n \in NoteId : notes[s][n] = NoNote
    BY <1>1
  <2> QED BY <2>1 DEF Notes, Note
<1>7. index \in Render(Notes)
  BY <1>1, <1>2, <1>6, FS_EmptySet DEF Render
<1>8. ChangedIsUnderWay /\ ListedIsCurrent
  BY <1>1, <1>2 DEF ChangedIsUnderWay, ListedIsCurrent, Doing
<1> QED BY <1>4, <1>5, <1>7, <1>8 DEF NotesInv, IndexIsCurrent

LEMMA NotesInvStep == NotesInv /\ [NotesNext]_noteVars => NotesInv'
<1> SUFFICES ASSUME NotesInv, [NotesNext]_noteVars PROVE NotesInv'
  OBVIOUS
<1>1. ASSUME NEW t \in Threads, UpdateStep(t) PROVE NotesInv'
  BY <1>1, NoOperationsKeeps, AnswersKeeps, BadOperationKeeps, BadNoteKeeps, NoteKeeps,
     ListKeeps, NoteWriteKeeps, RebuildFailsKeeps DEF UpdateStep
<1>2. CASE CloseMemory \/ Closed \/ UNCHANGED noteVars
  <2>1. /\ notes' = notes /\ index' = index /\ updates' = updates /\ updater' = updater
        /\ pendingCount' = pendingCount /\ updateCount' = updateCount /\ broken' = broken
    BY <1>2 DEF CloseMemory, Closed, noteVars, Files
  <2>2. Notes' = Notes
    BY <2>1 DEF Notes, Note
  <2>3. NotesShape' /\ ChangedIsUnderWay'
    BY <2>1 DEF NotesInv, NotesShape, ChangedIsUnderWay
  <2>4. PendingIsCovered'
    BY <2>1 DEF NotesInv, PendingIsCovered, Outstanding, Doing
  <2>5. ListedIsCurrent' /\ IndexIsCurrent'
    BY <2>1, <2>2 DEF NotesInv, ListedIsCurrent, IndexIsCurrent, Doing
  <2> QED BY <2>3, <2>4, <2>5 DEF NotesInv
<1> QED
  BY <1>1, <1>2, ScheduleKeeps, RunKeeps, CommandKeeps, CountReadKeeps, CountWrittenKeeps,
     DiesKeeps DEF NotesNext

\* Whoever changed a note is still on the way to the index, a listing is as the
\* notes are unless the other thread changed one since, and no update is
\* counted twice (updater.py and manager.py:85-108).
THEOREM NotesInvariant == NotesSpec => []NotesInv
BY NotesInvInit, NotesInvStep, PTL DEF NotesSpec

\* Whatever the notes, the limit of the index and the numbers of updates,
\* commands and operations are: once nothing is under way the index lists the
\* notes and nothing but what raised is counted as pending.
THEOREM NotesSettleTheorem == NotesSpec => []NotesSettle
<1>1. NotesInv => NotesSettle
  <2> SUFFICES ASSUME NotesInv, NothingUnderWay PROVE
               /\ pendingCount <= broken.raised
               /\ ~ broken.index => index \in Render(Notes)
    BY DEF NotesSettle
  <2>1. updates = 0 /\ \A t \in Threads : updater[t].at = "rest"
    BY DEF NothingUnderWay, Doing
  <2>2. "worker" \in Threads /\ broken.raised \in Nat
    BY DEF Threads, NotesInv, NotesShape
  <2>3. Outstanding = broken.raised
    BY <2>1, <2>2 DEF Outstanding, Doing
  <2>4. \A t \in Threads : ~ updater[t].changed
    BY <2>1 DEF NotesInv, ChangedIsUnderWay
  <2> QED BY <2>3, <2>4 DEF NotesInv, PendingIsCovered, IndexIsCurrent
<1> QED BY <1>1, NotesInvariant, PTL

-----------------------------------------------------------------------------
(***************************************************************************)
(* Skills, for any layers, files, edits and depth: what is in force is     *)
(* what the files said when the input was routed, and during a turn        *)
(* nothing becomes allowed.                                                *)
(***************************************************************************)

File == [text : SkillTexts, stamp : Nat] \cup {NoFile}
SkillsShape ==
  /\ files \in [Places -> File] /\ seen \in [Places -> File] /\ edits \in Nat
  /\ snapshot = [definitions |-> snapshot.definitions, fingerprint |-> snapshot.fingerprint]
  /\ reload = [left |-> reload.left, merged |-> reload.merged,
               fingerprint |-> reload.fingerprint]
  /\ at \in {"input", "parse", "stamp", "install", "route", "turn", "alone"}
  /\ overtaken \in BOOLEAN

\* A state the files were in: what was written later has a later stamp.
Past(now) ==
  /\ now \in [Places -> File]
  /\ \A p \in Places : now[p] # NoFile =>
       /\ now[p].stamp <= edits
       /\ files[p] # NoFile /\ files[p].stamp = now[p].stamp => files[p] = now[p]

\* Every definition has the name it is found by, and so has every command.
NamesAreRight ==
  /\ \A name \in DOMAIN snapshot.definitions : snapshot.definitions[name].text.name = name
  /\ \A name \in DOMAIN reload.merged : /\ reload.merged[name].text.name = name
                                        /\ reload.merged[name].text \in SkillTexts
  /\ commands = DOMAIN snapshot.definitions

\* No run follows a definition that is not the catalog's.
Follows(run, definitions) ==
  /\ run = [active |-> run.active, model |-> run.model, depth |-> run.depth]
  /\ \A d \in run.active : /\ d.text.name \in DOMAIN definitions
                           /\ d = definitions[d.text.name]
RunsFollow ==
  /\ runStack \in Seq(ToSet(runStack)) /\ Len(runStack) > 0
  /\ \A r \in DOMAIN runStack : Follows(runStack[r], snapshot.definitions)
  /\ at \notin {"turn", "alone"} => Len(runStack) = 1
  /\ at = "alone" => Len(runStack) > 1

\* The catalog is that of one past state of the files, fingerprint and all.
CatalogIsPast ==
  ~ overtaken =>
    \E now \in [Places -> File] :
      /\ Past(now) /\ Valid(MergedFiles(now))
      /\ snapshot.definitions = Normalize(MergedFiles(now))
      /\ snapshot.fingerprint = WholeFingerprint(now)

FingerprintUpTo(now, n) == UNION {Fingerprint(now, Sources[k]) : k \in 1 .. n}

\* A reload has merged and stamped the first sources as they were at the start.
Reloaded(n, m) ==
  /\ n \in 0 .. Len(Sources) /\ m \in 0 .. Len(Sources)
  /\ reload.left = SubSeq(Sources, n + 1, Len(Sources))
  /\ reload.merged = MergedUpTo(seen, m)
  /\ reload.fingerprint = FingerprintUpTo(seen, n)
ReloadIsRight ==
  /\ Past(seen) /\ Past(files)
  /\ ~ overtaken /\ at \in {"parse", "stamp"} => files = seen
  /\ ~ overtaken /\ at = "parse" => \E n \in 0 .. Len(Sources) - 1 : Reloaded(n, n)
  /\ ~ overtaken /\ at = "stamp" => \E n \in 0 .. Len(Sources) - 1 : Reloaded(n, n + 1)
  /\ ~ overtaken /\ at = "install" => Reloaded(Len(Sources), Len(Sources))

CatalogIsCurrent ==
  ~ overtaken /\ at \in {"route", "turn", "alone"} /\ Valid(MergedFiles(seen)) =>
    snapshot.definitions = Normalize(MergedFiles(seen))

SkillsInv ==
  /\ SkillsShape /\ NamesAreRight /\ RunsFollow
  /\ CatalogIsPast /\ ReloadIsRight /\ CatalogIsCurrent

-----------------------------------------------------------------------------
(* Layers and their merge *)

LEMMA LeastNatural ==
  ASSUME NEW T \in SUBSET Nat, T # {}
  PROVE  \E x \in T : \A y \in T : x <= y
<1> DEFINE R == {p \in Nat \X Nat : p[1] < p[2]}
<1>1. IsWellFoundedOn(R, Nat)
  <2>1. OpToRel(<, Nat) = R
    BY DEF OpToRel
  <2> QED BY <2>1, NatLessThanWellFounded
<1>2. PICK x \in T : \A y \in T : <<y, x>> \notin R
  <2> HIDE DEF R
  <2> QED BY <1>1, WFMin
<1>3. \A y \in T : x <= y
  <2> SUFFICES ASSUME NEW y \in T PROVE x <= y
    OBVIOUS
  <2>1. x \in Nat /\ y \in Nat
    OBVIOUS
  <2>2. ~ (y < x)
    BY <1>2, <2>1
  <2> QED BY <2>1, <2>2
<1> QED BY <1>3

\* A set of numbers up to n has a greatest one.
LEMMA GreatestNatural ==
  ASSUME NEW T \in SUBSET Nat, T # {}, NEW n \in Nat, \A x \in T : x <= n
  PROVE  Max(T) \in T /\ \A y \in T : y <= Max(T)
<1> DEFINE U == {k \in 0 .. n : n - k \in T}
<1>1. U \in SUBSET Nat /\ U # {}
  <2>1. PICK x \in T : x \in Nat /\ x <= n
    OBVIOUS
  <2>2. n - x \in 0 .. n /\ n - (n - x) = x
    BY <2>1
  <2>3. n - x \in U
    BY <2>1, <2>2
  <2> QED BY <2>3
<1>2. PICK k \in U : \A j \in U : k <= j
  <2> HIDE DEF U
  <2> QED BY <1>1, LeastNatural
<1>3. \A y \in T : y <= n - k
  <2> SUFFICES ASSUME NEW y \in T PROVE y <= n - k
    OBVIOUS
  <2>1. n - y \in 0 .. n /\ n - (n - y) = y
    OBVIOUS
  <2>2. n - y \in U
    BY <2>1
  <2> QED BY <1>2, <2>1, <2>2
<1>4. \E x \in T : \A y \in T : x >= y
  <2>1. n - k \in T
    BY <1>2
  <2> QED BY <1>3, <2>1
<1> QED BY <1>4 DEF Max

LEMMA SourcesAreASequence ==
  /\ Len(Sources) \in Nat \ {0} /\ DOMAIN Sources = 1 .. Len(Sources)
  /\ Sources \in Seq(ToSet(Sources))
  /\ ToSet(Sources) = {Sources[k] : k \in 1 .. Len(Sources)}
BY SkillsAssumption DEF ToSet

LEMMA LayerNames ==
  ASSUME NEW now \in [Places -> File], NEW source, NEW name \in DOMAIN Discover(now, source)
  PROVE  /\ Discover(now, source)[name].text.name = name
         /\ Discover(now, source)[name].text \in SkillTexts
<1> DEFINE named == Named(now, source, name)
           p == CHOOSE q \in named : TRUE
<1>1. Cardinality(named) = 1
  BY DEF Discover
<1>2. named # {}
  BY <1>1, FS_EmptySet
<1>3. p \in named
  BY <1>2
<1>4. p \in Places /\ now[p] # NoFile /\ now[p].text.name = name
  BY <1>3 DEF Named, In
<1>5. now[p] \in File
  BY <1>4
<1>6. now[p].text \in SkillTexts
  BY <1>4, <1>5 DEF File
<1>7. Discover(now, source)[name] = [text |-> now[p].text, body |-> now[p].stamp]
  BY DEF Discover
<1> QED BY <1>4, <1>6, <1>7

\* Merging one more source replaces what it names and keeps the rest.
LEMMA MergeOneMore ==
  ASSUME NEW now, NEW n \in 0 .. Len(Sources) - 1
  PROVE  MergedUpTo(now, n + 1)
           = MergeOver(MergedUpTo(now, n), Discover(now, Sources[n + 1]))
<1> DEFINE D(k) == Discover(now, Sources[k])
           Givers(m, name) == {k \in 1 .. m : name \in DOMAIN D(k)}
           Names(m) == UNION {DOMAIN D(k) : k \in 1 .. m}
<1> HIDE DEF D
<1>0. n \in Nat /\ n + 1 \in 1 .. n + 1 /\ 1 .. n + 1 = 1 .. n \cup {n + 1}
  BY SourcesAreASequence
<1>1. \A m : MergedUpTo(now, m) = [name \in Names(m) |-> D(Max(Givers(m, name)))[name]]
  BY DEF MergedUpTo, D
<1>2. Names(n + 1) = DOMAIN D(n + 1) \cup Names(n)
  BY <1>0
<1>3. ASSUME NEW name \in DOMAIN D(n + 1) PROVE Max(Givers(n + 1, name)) = n + 1
  <2>1. n + 1 \in Givers(n + 1, name) /\ \A k \in Givers(n + 1, name) : k \in 1 .. n + 1
    BY <1>0, <1>3
  <2>2. \A k \in Givers(n + 1, name) : n + 1 >= k
    BY <1>0, <2>1
  <2>3. \A x \in Givers(n + 1, name) :
          (\A k \in Givers(n + 1, name) : x >= k) => x = n + 1
    BY <1>0, <2>1
  <2> HIDE DEF Givers
  <2> QED BY <2>1, <2>2, <2>3 DEF Max
<1>4. ASSUME NEW name, name \notin DOMAIN D(n + 1)
      PROVE  Givers(n + 1, name) = Givers(n, name)
  BY <1>0, <1>4
<1> DEFINE both == MergeOver(MergedUpTo(now, n), D(n + 1))
           next == MergedUpTo(now, n + 1)
<1>5. DOMAIN MergedUpTo(now, n) = Names(n) /\ DOMAIN next = Names(n + 1)
  BY <1>1
<1>6. both = [name \in DOMAIN D(n + 1) \cup Names(n) |->
                IF name \in DOMAIN D(n + 1) THEN D(n + 1)[name] ELSE MergedUpTo(now, n)[name]]
  BY <1>5 DEF MergeOver
<1>7. \A name \in Names(n + 1) : next[name] = both[name]
  <2> SUFFICES ASSUME NEW name \in Names(n + 1) PROVE next[name] = both[name]
    OBVIOUS
  <2>1. next[name] = D(Max(Givers(n + 1, name)))[name]
    BY <1>1
  <2> HIDE DEF Givers, Names, next
  <2>2. CASE name \in DOMAIN D(n + 1)
    BY <1>2, <1>3, <1>6, <2>1, <2>2
  <2>3. CASE name \notin DOMAIN D(n + 1)
    <3>1. name \in Names(n)
      BY <1>2, <2>3
    <3>2. MergedUpTo(now, n)[name] = D(Max(Givers(n, name)))[name]
      BY <1>1, <3>1
    <3>3. both[name] = MergedUpTo(now, n)[name]
      BY <1>6, <2>3, <3>1
    <3>4. Givers(n + 1, name) = Givers(n, name)
      BY <1>4, <2>3
    <3> QED BY <2>1, <3>2, <3>3, <3>4
  <2> QED BY <2>2, <2>3
<1> HIDE DEF Names, Givers
<1>8. next = [name \in Names(n + 1) |-> next[name]] /\ both = [name \in Names(n + 1) |-> both[name]]
  BY <1>1, <1>2, <1>6
<1>9. next = both
  BY <1>7, <1>8
<1> QED BY <1>9 DEF D

LEMMA MergedNames ==
  ASSUME NEW now \in [Places -> File], NEW n \in 0 .. Len(Sources),
         NEW name \in DOMAIN MergedUpTo(now, n)
  PROVE  /\ MergedUpTo(now, n)[name].text.name = name
         /\ MergedUpTo(now, n)[name].text \in SkillTexts
<1> DEFINE G == {k \in 1 .. n : name \in DOMAIN Discover(now, Sources[k])}
<1>1. n \in Nat
  BY SourcesAreASequence
<1>2. MergedUpTo(now, n)[name] = Discover(now, Sources[Max(G)])[name] /\ G # {}
  BY DEF MergedUpTo
<1>3. G \in SUBSET Nat /\ \A x \in G : x <= n
  BY <1>1
<1>4. Max(G) \in G
  <2> HIDE DEF G
  <2> QED BY <1>1, <1>2, <1>3, GreatestNatural
<1>5. name \in DOMAIN Discover(now, Sources[Max(G)])
  BY <1>4
<1> HIDE DEF G
<1> QED BY <1>2, <1>5, LayerNames

LEMMA FingerprintOneMore ==
  ASSUME NEW now, NEW n \in 0 .. Len(Sources) - 1
  PROVE  FingerprintUpTo(now, n + 1)
           = FingerprintUpTo(now, n) \cup Fingerprint(now, Sources[n + 1])
<1>1. 1 .. n + 1 = 1 .. n \cup {n + 1}
  BY SourcesAreASequence
<1> QED BY <1>1 DEF FingerprintUpTo

LEMMA NothingMerged ==
  ASSUME NEW now
  PROVE  MergedUpTo(now, 0) = NoSkills /\ FingerprintUpTo(now, 0) = {}
<1>1. 1 .. 0 = {}
  OBVIOUS
<1>2. UNION {DOMAIN Discover(now, Sources[k]) : k \in 1 .. 0} = {}
  BY <1>1
<1>3. FingerprintUpTo(now, 0) = {}
  BY <1>1 DEF FingerprintUpTo
<1>4. DOMAIN MergedUpTo(now, 0) = {} /\ DOMAIN NoSkills = {}
  BY <1>2 DEF MergedUpTo, NoSkills
<1>5. MergedUpTo(now, 0) = [name \in {} |-> MergedUpTo(now, 0)[name]]
  BY <1>2 DEF MergedUpTo
<1>6. MergedUpTo(now, 0) = NoSkills
  BY <1>5 DEF NoSkills
<1> QED BY <1>3, <1>6

LEMMA AllStamped ==
  ASSUME NEW now
  PROVE  FingerprintUpTo(now, Len(Sources)) = WholeFingerprint(now)
BY SourcesAreASequence DEF FingerprintUpTo, WholeFingerprint

\* The fingerprint of a past state tells whether a file has changed since.
LEMMA FingerprintTells ==
  ASSUME NEW now, Past(now), files \in [Places -> File],
         WholeFingerprint(files) = WholeFingerprint(now)
  PROVE  MergedFiles(files) = MergedFiles(now)
<1>1. ASSUME NEW k \in 1 .. Len(Sources), NEW p \in In(Sources[k])
      PROVE  files[p] = now[p]
  <2>1. p \in Places /\ p[1] = Sources[k] /\ Sources[k] \in ToSet(Sources)
    BY <1>1, SourcesAreASequence DEF In
  <2>2. ASSUME NEW f, NEW g, f[p] # NoFile, WholeFingerprint(f) = WholeFingerprint(g)
        PROVE  g[p] # NoFile /\ g[p].stamp = f[p].stamp
    <3>1. <<p, f[p].stamp>> \in WholeFingerprint(f)
      BY <2>1, <2>2 DEF WholeFingerprint, Fingerprint, In
    <3>2. PICK source \in ToSet(Sources) : <<p, f[p].stamp>> \in Fingerprint(g, source)
      BY <2>2, <3>1 DEF WholeFingerprint
    <3>3. PICK q \in In(source) : g[q] # NoFile /\ <<p, f[p].stamp>> = <<q, g[q].stamp>>
      BY <3>2 DEF Fingerprint
    <3> QED BY <3>3
  <2>3. CASE now[p] # NoFile
    <3>1. files[p] # NoFile /\ files[p].stamp = now[p].stamp
      BY <2>2, <2>3
    <3> QED BY <2>1, <2>3, <3>1 DEF Past
  <2>4. CASE now[p] = NoFile
    <3>1. files[p] = NoFile
      BY <2>2, <2>4
    <3> QED BY <2>4, <3>1
  <2> QED BY <2>3, <2>4
<1>2. \A k \in 1 .. Len(Sources) : Discover(files, Sources[k]) = Discover(now, Sources[k])
  <2> SUFFICES ASSUME NEW k \in 1 .. Len(Sources)
               PROVE  Discover(files, Sources[k]) = Discover(now, Sources[k])
    OBVIOUS
  <2>1. \A p \in In(Sources[k]) : files[p] = now[p]
    BY <1>1
  <2>2. SkillNames(files, Sources[k]) = SkillNames(now, Sources[k])
    BY <2>1 DEF SkillNames
  <2>3. \A name : Named(files, Sources[k], name) = Named(now, Sources[k], name)
    BY <2>1 DEF Named
  <2> DEFINE names == {n \in SkillNames(now, Sources[k]) :
                         Cardinality(Named(now, Sources[k], n)) = 1}
             p(name) == CHOOSE q \in Named(now, Sources[k], name) : TRUE
  <2>4. Discover(now, Sources[k]) =
          [name \in names |-> [text |-> now[p(name)].text, body |-> now[p(name)].stamp]]
    BY DEF Discover
  <2>5. Discover(files, Sources[k]) =
          [name \in names |-> [text |-> files[p(name)].text, body |-> files[p(name)].stamp]]
    <3>1. {n \in SkillNames(files, Sources[k]) :
             Cardinality(Named(files, Sources[k], n)) = 1} = names
      BY <2>2, <2>3
    <3>2. \A name : (CHOOSE q \in Named(files, Sources[k], name) : TRUE) = p(name)
      BY <2>3
    <3> HIDE DEF names, p
    <3> QED BY <3>1, <3>2 DEF Discover
  <2>6. \A name \in names : files[p(name)] = now[p(name)]
    <3> SUFFICES ASSUME NEW name \in names PROVE files[p(name)] = now[p(name)]
      OBVIOUS
    <3>1. Named(now, Sources[k], name) # {}
      BY FS_EmptySet
    <3>2. p(name) \in In(Sources[k])
      BY <3>1 DEF Named
    <3> HIDE DEF p
    <3> QED BY <2>1, <3>2
  <2> HIDE DEF names, p
  <2> QED BY <2>4, <2>5, <2>6
<1>3. Len(Sources) \in Nat
  BY SourcesAreASequence
<1> DEFINE n == Len(Sources)
           G(name) == {k \in 1 .. n : name \in DOMAIN Discover(now, Sources[k])}
           H(name) == {k \in 1 .. n : name \in DOMAIN Discover(files, Sources[k])}
           names == UNION {DOMAIN Discover(now, Sources[k]) : k \in 1 .. n}
<1>4. \A name : H(name) = G(name)
  BY <1>2
<1>5. names = UNION {DOMAIN Discover(files, Sources[k]) : k \in 1 .. n}
  BY <1>2
<1>6. MergedFiles(files) = [name \in names |-> Discover(files, Sources[Max(H(name))])[name]]
  BY <1>5 DEF MergedFiles, MergedUpTo
<1>7. MergedFiles(now) = [name \in names |-> Discover(now, Sources[Max(G(name))])[name]]
  BY DEF MergedFiles, MergedUpTo
<1>8. \A name \in names :
        Discover(files, Sources[Max(H(name))])[name] = Discover(now, Sources[Max(G(name))])[name]
  <2> SUFFICES ASSUME NEW name \in names
               PROVE  Discover(files, Sources[Max(H(name))]) = Discover(now, Sources[Max(G(name))])
    OBVIOUS
  <2>1. G(name) \in SUBSET Nat /\ G(name) # {} /\ \A x \in G(name) : x <= n
    BY <1>3
  <2>2. Max(G(name)) \in G(name)
    <3> HIDE DEF G
    <3> QED BY <1>3, <2>1, GreatestNatural
  <2>3. Max(G(name)) \in 1 .. n
    BY <2>2
  <2> HIDE DEF G, H
  <2> QED BY <1>2, <1>4, <2>3
<1> HIDE DEF G, H, names
<1> QED BY <1>6, <1>7, <1>8

LEMMA TextExcept ==
  ASSUME NEW text, text = [name |-> text.name, mode |-> text.mode, tools |-> text.tools,
                           model |-> text.model], NEW some
  PROVE  [text EXCEPT !.tools = some]
           = [name |-> text.name, mode |-> text.mode, tools |-> some, model |-> text.model]
<1>1. \A n, m, t, o : [[name |-> n, mode |-> m, tools |-> t, model |-> o] EXCEPT !.tools = some]
                        = [name |-> n, mode |-> m, tools |-> some, model |-> o]
  OBVIOUS
<1> QED BY <1>1

LEMMA NormalizedNames ==
  ASSUME NEW merged,
         \A name \in DOMAIN merged : /\ merged[name].text.name = name
                                     /\ merged[name].text \in SkillTexts
  PROVE  /\ DOMAIN Normalize(merged) = DOMAIN merged
         /\ \A name \in DOMAIN merged : Normalize(merged)[name].text.name = name
<1>1. DOMAIN Normalize(merged) = DOMAIN merged
  BY DEF Normalize
<1>2. ASSUME NEW name \in DOMAIN merged PROVE Normalize(merged)[name].text.name = name
  <2> DEFINE text == merged[name].text
             some == {ToolOf[tool] : tool \in text.tools}
             changed == [text EXCEPT !.tools = some]
  <2>1. text = [name |-> text.name, mode |-> text.mode, tools |-> text.tools, model |-> text.model]
    BY SkillsAssumption
  <2>2. Normalize(merged)[name] = [text |-> changed, body |-> merged[name].body]
    BY DEF Normalize
  <2>3. text.name = name
    OBVIOUS
  <2> HIDE DEF text, some
  <2>4. changed = [name |-> text.name, mode |-> text.mode, tools |-> some, model |-> text.model]
    BY <2>1, TextExcept
  <2> HIDE DEF changed
  <2> QED BY <2>2, <2>3, <2>4
<1> QED BY <1>1, <1>2

-----------------------------------------------------------------------------
(* The inductive invariant *)

LEMMA OwnSequence ==
  ASSUME NEW S, NEW s \in Seq(S)
  PROVE  s \in Seq(ToSet(s)) /\ Len(s) \in Nat /\ DOMAIN s = 1 .. Len(s)
BY DEF ToSet

\* A step of the input or of a turn: the catalog and the reload stay.
LEMMA QuietStep ==
  ASSUME SkillsInv, NotReloading, at \in {"route", "turn", "alone"},
         at' \in {"turn", "alone", "input"}, RunsFollow'
  PROVE  SkillsInv'
<1> USE DEF SkillsInv, NotReloading
<1>1. SkillsShape' /\ NamesAreRight'
  BY DEF SkillsShape, NamesAreRight
<1>2. \A now : Past(now)' <=> Past(now)
  BY DEF Past
<1>3. CatalogIsPast'
  BY <1>2 DEF CatalogIsPast
<1>4. Past(seen)' /\ Past(files)'
  BY DEF ReloadIsRight, Past
<1>5. ReloadIsRight'
  BY <1>4 DEF ReloadIsRight
<1>6. CatalogIsCurrent'
  BY DEF CatalogIsCurrent
<1> QED BY <1>1, <1>3, <1>5, <1>6

\* What the runs follow is what counts, however many there are.
LEMMA RunsStillFollow ==
  ASSUME NEW stack, NEW S, stack \in Seq(S), Len(stack) > 0, runStack' = stack,
         \A r \in 1 .. Len(stack) : Follows(stack[r], snapshot.definitions),
         snapshot' = snapshot,
         at' \notin {"turn", "alone"} => Len(stack) = 1,
         at' = "alone" => Len(stack) > 1
  PROVE  RunsFollow'
<1>1. stack \in Seq(ToSet(stack)) /\ DOMAIN stack = 1 .. Len(stack)
  BY OwnSequence
<1>2. ToSet(stack) = ToSet(runStack)'
  BY DEF ToSet
<1> QED BY <1>1, <1>2 DEF RunsFollow

LEMMA AFreshRunFollows ==
  ASSUME NEW definitions, NEW model, NEW depth
  PROVE  Follows(Run({}, model, depth), definitions)
BY DEF Follows, Run

LEMMA ActivatedFollows ==
  ASSUME NEW definitions, NEW run, Follows(run, definitions), NEW name \in DOMAIN definitions,
         definitions[name].text.name = name
  PROVE  Follows(Activated(run, definitions[name]), definitions)
<1> DEFINE new == Activated(run, definitions[name])
           active == {d \in run.active : d.text.name # definitions[name].text.name}
                       \cup {definitions[name]}
<1>1. new = [active |-> active, model |-> new.model, depth |-> new.depth]
  BY DEF Activated, Run
<1>2. \A d \in active : d.text.name \in DOMAIN definitions /\ d = definitions[d.text.name]
  BY DEF Follows
<1> HIDE DEF new, active
<1>3. new.active = active /\ new = [active |-> new.active, model |-> new.model, depth |-> new.depth]
  BY <1>1
<1>4. Follows(new, definitions)
  BY <1>2, <1>3 DEF Follows
<1> QED BY <1>4 DEF new

LEMMA ChildFollows ==
  ASSUME NEW definitions, NEW name \in DOMAIN definitions, definitions[name].text.name = name,
         NEW depth
  PROVE  Follows(Run({definitions[name]}, NoModel, depth), definitions)
BY DEF Follows, Run

LEMMA CheckFilesKeeps ==
  ASSUME SkillsInv, CheckFiles
  PROVE  SkillsInv'
<1> USE DEF SkillsInv, CheckFiles
<1>1. SkillsShape'
  BY DEF SkillsShape
<1>2. NamesAreRight'
  BY DEF NamesAreRight, NoSkills
<1>3. RunsFollow'
  BY DEF RunsFollow
<1>4. \A now : Past(now)' <=> Past(now)
  BY DEF Past
<1>5. CatalogIsPast'
  BY <1>4 DEF CatalogIsPast
<1>6. Past(seen)' /\ Past(files)'
  BY DEF ReloadIsRight, Past
<1>7. ReloadIsRight'
  <2>1. at' \in {"route", "parse"}
    OBVIOUS
  <2>2. CASE at' = "route"
    BY <1>6, <2>2 DEF ReloadIsRight
  <2>3. CASE at' = "parse"
    <3>1. reload'.left = Sources /\ reload'.merged = NoSkills /\ reload'.fingerprint = {}
      BY <2>3
    <3>2. SubSeq(Sources, 0 + 1, Len(Sources)) = Sources /\ 0 \in 0 .. Len(Sources) - 1
          /\ 0 \in 0 .. Len(Sources)
      BY SourcesAreASequence
    <3>3. Reloaded(0, 0)'
      BY <3>1, <3>2, NothingMerged DEF Reloaded
    <3>4. \E n \in 0 .. Len(Sources) - 1 : Reloaded(n, n)'
      BY <3>2, <3>3
    <3> QED BY <1>6, <2>3, <3>4 DEF ReloadIsRight
  <2> QED BY <2>1, <2>2, <2>3
<1>8. CatalogIsCurrent'
  <2> SUFFICES ASSUME ~ overtaken', at' \in {"route", "turn", "alone"}
               PROVE  snapshot'.definitions = Normalize(MergedFiles(seen'))
    BY DEF CatalogIsCurrent
  <2>1. WholeFingerprint(files) = snapshot.fingerprint
    OBVIOUS
  <2>2. PICK now \in [Places -> File] :
          /\ Past(now) /\ snapshot.definitions = Normalize(MergedFiles(now))
          /\ snapshot.fingerprint = WholeFingerprint(now)
    BY DEF CatalogIsPast
  <2>3. MergedFiles(files) = MergedFiles(now)
    BY <2>1, <2>2, FingerprintTells DEF SkillsShape
  <2> QED BY <2>2, <2>3
<1> QED BY <1>1, <1>2, <1>3, <1>5, <1>7, <1>8

\* While a reload runs nothing but the reload changes.
LEMMA ReloadStep ==
  ASSUME SkillsInv, UNCHANGED <<files, snapshot, commands, runStack, edits, seen, overtaken>>,
         at \in {"parse", "stamp"}, at' \in {"parse", "stamp", "install"},
         NEW left, NEW merged, NEW fingerprint,
         reload' = [left |-> left, merged |-> merged, fingerprint |-> fingerprint],
         \A name \in DOMAIN merged : /\ merged[name].text.name = name
                                     /\ merged[name].text \in SkillTexts,
         ~ overtaken /\ at' = "parse" => \E n \in 0 .. Len(Sources) - 1 : Reloaded(n, n)',
         ~ overtaken /\ at' = "stamp" => \E n \in 0 .. Len(Sources) - 1 : Reloaded(n, n + 1)',
         ~ overtaken /\ at' = "install" => Reloaded(Len(Sources), Len(Sources))'
  PROVE  SkillsInv'
<1> USE DEF SkillsInv
<1>1. SkillsShape'
  BY DEF SkillsShape
<1>2. NamesAreRight'
  BY DEF NamesAreRight
<1>3. RunsFollow'
  BY DEF RunsFollow
<1>4. \A now : Past(now)' <=> Past(now)
  BY DEF Past
<1>5. CatalogIsPast'
  BY <1>4 DEF CatalogIsPast
<1>6. Past(seen)' /\ Past(files)'
  BY DEF ReloadIsRight, Past
<1>7. ReloadIsRight'
  BY <1>6 DEF ReloadIsRight
<1>8. CatalogIsCurrent'
  BY DEF CatalogIsCurrent
<1> QED BY <1>1, <1>2, <1>3, <1>5, <1>7, <1>8

\* What is left of a list, and the head of it.
LEMMA WhatIsLeft ==
  ASSUME NEW n \in 0 .. Len(Sources) - 1
  PROVE  LET left == SubSeq(Sources, n + 1, Len(Sources)) IN
         /\ Head(left) = Sources[n + 1] /\ Len(left) = Len(Sources) - n
         /\ Tail(left) = SubSeq(Sources, n + 2, Len(Sources))
<1> DEFINE left == SubSeq(Sources, n + 1, Len(Sources))
           rest == SubSeq(Sources, n + 2, Len(Sources))
<1>0. Len(Sources) \in Nat /\ n \in Nat /\ Sources \in Seq(ToSet(Sources)) /\ n + 1 <= Len(Sources)
  BY SourcesAreASequence
<1>1. left \in Seq(ToSet(Sources)) /\ Len(left) = Len(Sources) - n
      /\ \A i \in 1 .. Len(Sources) - n : left[i] = Sources[n + i]
  BY <1>0
<1>2. rest \in Seq(ToSet(Sources)) /\ Len(rest) = Len(Sources) - n - 1
      /\ \A i \in 1 .. Len(Sources) - n - 1 : rest[i] = Sources[n + 1 + i]
  BY <1>0
<1> HIDE DEF left, rest
<1>3. Head(left) = Sources[n + 1] /\ left # <<>>
  BY <1>0, <1>1
<1>4. Tail(left) \in Seq(ToSet(Sources)) /\ Len(Tail(left)) = Len(Sources) - n - 1
      /\ \A i \in 1 .. Len(Sources) - n - 1 : Tail(left)[i] = left[i + 1]
  BY <1>0, <1>1, <1>3
<1>5. \A i \in 1 .. Len(Sources) - n - 1 : left[i + 1] = Sources[n + 1 + i]
  BY <1>0, <1>1
<1>6. Tail(left) = rest
  BY <1>2, <1>4, <1>5, SeqEqual
<1> QED BY <1>1, <1>3, <1>6 DEF left, rest

LEMMA ParseSourceKeeps ==
  ASSUME SkillsInv, ParseSource
  PROVE  SkillsInv'
<1> DEFINE source == Head(reload.left)
           layer == Discover(files, source)
           merged == MergeOver(reload.merged, layer)
<1> HIDE DEF source
<1>1. reload' = [left |-> reload.left, merged |-> merged, fingerprint |-> reload.fingerprint]
  BY DEF ParseSource, SkillsInv, SkillsShape, source
<1>2. \A name \in DOMAIN merged : merged[name].text.name = name /\ merged[name].text \in SkillTexts
  <2>1. \A name \in DOMAIN layer : layer[name].text.name = name /\ layer[name].text \in SkillTexts
    BY LayerNames DEF SkillsInv, SkillsShape
  <2>2. \A name \in DOMAIN reload.merged : /\ reload.merged[name].text.name = name
                                           /\ reload.merged[name].text \in SkillTexts
    BY DEF SkillsInv, NamesAreRight
  <2> HIDE DEF layer
  <2> QED BY <2>1, <2>2 DEF MergeOver
<1>3. ASSUME ~ overtaken PROVE \E n \in 0 .. Len(Sources) - 1 : Reloaded(n, n + 1)'
  <2>1. files = seen /\ seen' = seen /\ at = "parse"
    BY <1>3 DEF ParseSource, SkillsInv, ReloadIsRight
  <2>2. PICK n \in 0 .. Len(Sources) - 1 : Reloaded(n, n)
    BY <1>3, <2>1 DEF SkillsInv, ReloadIsRight
  <2>3. source = Sources[n + 1]
    BY <2>2, WhatIsLeft DEF Reloaded, source
  <2>4. merged = MergedUpTo(seen, n + 1)
    BY <2>1, <2>2, <2>3, MergeOneMore DEF Reloaded
  <2>5. n + 1 \in 0 .. Len(Sources) /\ n \in 0 .. Len(Sources)
    BY SourcesAreASequence
  <2> HIDE DEF merged
  <2>6. reload'.left = reload.left /\ reload'.merged = merged
        /\ reload'.fingerprint = reload.fingerprint
    BY <1>1
  <2>7. Reloaded(n, n + 1)'
    BY <2>1, <2>2, <2>4, <2>5, <2>6 DEF Reloaded
  <2> QED BY <2>7
<1> HIDE DEF merged
<1> QED BY <1>1, <1>2, <1>3, ReloadStep DEF ParseSource

LEMMA StampSourceKeeps ==
  ASSUME SkillsInv, StampSource
  PROVE  SkillsInv'
<1> DEFINE source == Head(reload.left)
           left == Tail(reload.left)
           fingerprint == reload.fingerprint \cup Fingerprint(files, source)
<1> HIDE DEF source, left
<1>1. reload' = [left |-> left, merged |-> reload.merged, fingerprint |-> fingerprint]
  BY DEF StampSource, SkillsInv, SkillsShape, source, left
<1>2. \A name \in DOMAIN reload.merged : /\ reload.merged[name].text.name = name
                                         /\ reload.merged[name].text \in SkillTexts
  BY DEF SkillsInv, NamesAreRight
<1>3. ASSUME ~ overtaken
      PROVE  /\ at' = "parse" => \E n \in 0 .. Len(Sources) - 1 : Reloaded(n, n)'
             /\ at' = "install" => Reloaded(Len(Sources), Len(Sources))'
  <2>1. files = seen /\ seen' = seen /\ at = "stamp"
    BY <1>3 DEF StampSource, SkillsInv, ReloadIsRight
  <2>2. PICK n \in 0 .. Len(Sources) - 1 : Reloaded(n, n + 1)
    BY <1>3, <2>1 DEF SkillsInv, ReloadIsRight
  <2>0. n \in Nat /\ Len(Sources) \in Nat \ {0} /\ n < Len(Sources)
    BY SourcesAreASequence
  <2>10. Len(reload.left) = Len(Sources) - n
    BY <2>2, WhatIsLeft DEF Reloaded
  <2>3. source = Sources[n + 1] /\ left = SubSeq(Sources, n + 2, Len(Sources))
    BY <2>2, WhatIsLeft DEF Reloaded, source, left
  <2>4. fingerprint = FingerprintUpTo(seen, n + 1)
    BY <2>1, <2>2, <2>3, FingerprintOneMore DEF Reloaded
  <2> HIDE DEF fingerprint
  <2>5. reload'.left = left /\ reload'.merged = reload.merged /\ reload'.fingerprint = fingerprint
    BY <1>1
  <2>6. n + 1 \in 0 .. Len(Sources) /\ (n + 1) + 1 = n + 2
    BY <2>0
  <2>7. Reloaded(n + 1, n + 1)'
    BY <2>1, <2>2, <2>3, <2>4, <2>5, <2>6 DEF Reloaded
  <2>8. CASE Len(reload.left) = 1
    <3>1. n + 1 = Len(Sources)
      <4>1. Len(Sources) - n = 1
        BY <2>10, <2>8
      <4>2. \A a, b \in Nat : a - b = 1 => b + 1 = a
        OBVIOUS
      <4> QED BY <2>0, <4>1, <4>2
    <3> QED BY <2>7, <2>8, <3>1 DEF StampSource
  <2>9. CASE Len(reload.left) # 1
    <3>1. n + 1 \in 0 .. Len(Sources) - 1
      BY <2>0, <2>10, <2>9
    <3> QED BY <2>7, <2>9, <3>1 DEF StampSource
  <2> QED BY <2>8, <2>9
<1>4. at = "stamp" /\ at' \in {"parse", "install"}
  BY DEF StampSource
<1> HIDE DEF fingerprint
<1> QED BY <1>1, <1>2, <1>3, <1>4, ReloadStep DEF StampSource
LEMMA InstallKeeps ==
  ASSUME SkillsInv, Install
  PROVE  SkillsInv'
<1> DEFINE definitions == Normalize(reload.merged)
           run == Refreshed(runStack[1], definitions)
<1>0. at = "install" /\ at' = "route"
      /\ UNCHANGED <<files, reload, edits, skillCalls, seen, overtaken>>
  BY DEF Install
<1>1. \A now : Past(now)' <=> Past(now)
  BY <1>0 DEF Past
<1>2. ReloadIsRight'
  <2>1. Past(seen)' /\ Past(files)'
    BY <1>0 DEF SkillsInv, ReloadIsRight, Past
  <2> QED BY <1>0, <2>1 DEF ReloadIsRight
<1>3. ~ overtaken => /\ reload.merged = MergedFiles(seen) /\ Past(seen)
                     /\ reload.fingerprint = WholeFingerprint(seen)
  BY <1>0, AllStamped DEF SkillsInv, ReloadIsRight, Reloaded, MergedFiles
<1>4. CASE Valid(reload.merged)
  <2>1. /\ snapshot' = [definitions |-> definitions, fingerprint |-> reload.fingerprint]
        /\ commands' = DOMAIN definitions /\ runStack' = <<run>>
    BY <1>4 DEF Install
  <2>2. \A name \in DOMAIN definitions : definitions[name].text.name = name
    BY NormalizedNames DEF SkillsInv, NamesAreRight
  <2>3. Follows(run, definitions)
    <3> DEFINE kept == {d \in runStack[1].active : StillShared(definitions, d.text.name)}
               active == {definitions[d.text.name] : d \in kept}
    <3>1. run = [active |-> active, model |-> run.model, depth |-> run.depth]
      BY DEF Refreshed, Run
    <3>2. \A d \in active : d.text.name \in DOMAIN definitions /\ d = definitions[d.text.name]
      BY <2>2 DEF StillShared
    <3> HIDE DEF active, run
    <3> QED BY <3>1, <3>2 DEF Follows
  <2>4. SkillsShape'
    BY <1>0, <2>1 DEF SkillsInv, SkillsShape
  <2>5. NamesAreRight'
    BY <1>0, <2>1, <2>2 DEF SkillsInv, NamesAreRight
  <2>6. RunsFollow'
    <3> HIDE DEF run, definitions
    <3>1. <<run>> \in Seq({run}) /\ Len(<<run>>) = 1 /\ <<run>>[1] = run
      OBVIOUS
    <3>2. ToSet(runStack)' = {run} /\ runStack'[1] = run /\ DOMAIN runStack' = {1}
      BY <2>1, <3>1 DEF ToSet
    <3> QED BY <1>0, <2>1, <2>3, <3>1, <3>2 DEF RunsFollow
  <2>7. CatalogIsPast'
    <3> SUFFICES ASSUME ~ overtaken' PROVE
          \E now \in [Places -> File] :
            /\ Past(now)' /\ Valid(MergedFiles(now))
            /\ snapshot'.definitions = Normalize(MergedFiles(now))
            /\ snapshot'.fingerprint = WholeFingerprint(now)
      BY DEF CatalogIsPast
    <3>1. seen \in [Places -> File] /\ Past(seen)'
      BY <1>0, <1>1, <1>3 DEF SkillsInv, SkillsShape
    <3> HIDE DEF definitions
    <3>2. snapshot'.definitions = definitions /\ snapshot'.fingerprint = reload.fingerprint
      BY <2>1
    <3> QED BY <1>0, <1>3, <1>4, <3>1, <3>2 DEF definitions
  <2>8. CatalogIsCurrent'
    BY <1>0, <1>3, <2>1 DEF CatalogIsCurrent
  <2> QED BY <1>2, <2>4, <2>5, <2>6, <2>7, <2>8 DEF SkillsInv
<1>5. CASE ~ Valid(reload.merged)
  <2>1. UNCHANGED <<snapshot, commands, runStack>>
    BY <1>5 DEF Install
  <2>2. SkillsShape' /\ NamesAreRight' /\ RunsFollow'
    BY <1>0, <2>1 DEF SkillsInv, SkillsShape, NamesAreRight, RunsFollow
  <2>3. CatalogIsPast'
    BY <1>0, <1>1, <2>1 DEF SkillsInv, CatalogIsPast
  <2>4. CatalogIsCurrent'
    BY <1>0, <1>3, <1>5 DEF CatalogIsCurrent
  <2> QED BY <1>2, <2>2, <2>3, <2>4 DEF SkillsInv
<1> QED BY <1>4, <1>5

\* The runs there are, as a sequence, and the one on top.
LEMMA StackFacts ==
  ASSUME SkillsInv
  PROVE  /\ runStack \in Seq(ToSet(runStack)) /\ Len(runStack) \in Nat \ {0}
         /\ DOMAIN runStack = 1 .. Len(runStack) /\ Top = runStack[Len(runStack)]
         /\ \A r \in 1 .. Len(runStack) : Follows(runStack[r], snapshot.definitions)
BY OwnSequence DEF SkillsInv, RunsFollow, Top, Last

\* A run goes on in place of another, or one is put on top.
LEMMA Replaced ==
  ASSUME SkillsInv, NEW new
  PROVE  LET stack == [runStack EXCEPT ![Len(runStack)] = new] IN
         /\ stack \in Seq(ToSet(runStack) \cup {new}) /\ Len(stack) = Len(runStack)
         /\ \A r \in 1 .. Len(runStack) :
              stack[r] = IF r = Len(runStack) THEN new ELSE runStack[r]
BY StackFacts

LEMMA Pushed ==
  ASSUME SkillsInv, NEW new
  PROVE  /\ Append(runStack, new) \in Seq(ToSet(runStack) \cup {new})
         /\ Len(Append(runStack, new)) = Len(runStack) + 1
         /\ \A r \in 1 .. Len(runStack) + 1 :
              Append(runStack, new)[r] = IF r = Len(runStack) + 1 THEN new ELSE runStack[r]
<1>1. runStack \in Seq(ToSet(runStack) \cup {new})
  BY StackFacts
<1> QED BY <1>1, StackFacts

LEMMA RouteMessageKeeps ==
  ASSUME SkillsInv, RouteMessage
  PROVE  SkillsInv'
<1>1. RunsFollow'
  BY DEF SkillsInv, RunsFollow, RouteMessage, NotReloading
<1> QED BY <1>1, QuietStep DEF RouteMessage

\* A single run.
LEMMA AloneFollows ==
  ASSUME NEW run, runStack' = <<run>>, Follows(run, snapshot.definitions),
         snapshot' = snapshot, at' # "alone"
  PROVE  RunsFollow'
<1> DEFINE stack == <<run>>
<1>1. stack \in Seq({run}) /\ Len(stack) = 1 /\ stack[1] = run /\ runStack' = stack
  OBVIOUS
<1> HIDE DEF stack
<1>2. \A r \in 1 .. Len(stack) : Follows(stack[r], snapshot.definitions)
  BY <1>1
<1>3. Len(stack) > 0 /\ (at' = "alone" => Len(stack) > 1)
  BY <1>1
<1> QED BY <1>1, <1>2, <1>3, RunsStillFollow

LEMMA RouteClearKeeps ==
  ASSUME SkillsInv, RouteClear
  PROVE  SkillsInv'
<1>1. RunsFollow'
  BY AloneFollows, AFreshRunFollows DEF RouteClear, NotReloading
<1> QED BY <1>1, QuietStep DEF RouteClear

LEMMA PushedFollows ==
  ASSUME SkillsInv, NEW name \in DOMAIN snapshot.definitions,
         runStack' = Append(runStack, ChildRun(snapshot.definitions[name])),
         snapshot' = snapshot, at' \in {"turn", "alone"}
  PROVE  RunsFollow'
<1> DEFINE new == ChildRun(snapshot.definitions[name])
           stack == Append(runStack, new)
<1>1. Follows(new, snapshot.definitions)
  BY ChildFollows DEF SkillsInv, NamesAreRight, ChildRun
<1> HIDE DEF new
<1>2. /\ stack \in Seq(ToSet(runStack) \cup {new}) /\ Len(stack) = Len(runStack) + 1
      /\ \A r \in 1 .. Len(runStack) + 1 :
           stack[r] = IF r = Len(runStack) + 1 THEN new ELSE runStack[r]
  BY Pushed
<1>3. \A r \in 1 .. Len(stack) : Follows(stack[r], snapshot.definitions)
  BY <1>1, <1>2, StackFacts
<1>4. runStack' = stack
  BY DEF new
<1> HIDE DEF stack
<1>5. Len(stack) > 1
  BY <1>2, StackFacts
<1> QED BY <1>2, <1>3, <1>4, <1>5, RunsStillFollow

LEMMA ReplacedFollows ==
  ASSUME SkillsInv, NEW new, Follows(new, snapshot.definitions),
         runStack' = [runStack EXCEPT ![Len(runStack)] = new],
         snapshot' = snapshot, at' \in {"turn", "alone", "input"},
         at' = "alone" => at = "alone", at' = "input" => Len(runStack) = 1
  PROVE  RunsFollow'
<1> DEFINE stack == [runStack EXCEPT ![Len(runStack)] = new]
<1>1. /\ stack \in Seq(ToSet(runStack) \cup {new}) /\ Len(stack) = Len(runStack)
      /\ \A r \in 1 .. Len(runStack) :
           stack[r] = IF r = Len(runStack) THEN new ELSE runStack[r]
  BY Replaced
<1>2. runStack' = stack
  OBVIOUS
<1> HIDE DEF stack
<1>3. \A r \in 1 .. Len(stack) : Follows(stack[r], snapshot.definitions)
  BY <1>1, StackFacts
<1>4. Len(stack) > 0 /\ (at' = "alone" => Len(stack) > 1)
  BY <1>1, StackFacts DEF SkillsInv, RunsFollow
<1> QED BY <1>1, <1>2, <1>3, <1>4, RunsStillFollow

LEMMA RouteSkillKeeps ==
  ASSUME SkillsInv, NEW name \in commands, RouteSkill(name)
  PROVE  SkillsInv'
<1> DEFINE definition == snapshot.definitions[name]
<1>1. name \in DOMAIN snapshot.definitions /\ definition.text.name = name
  BY DEF SkillsInv, NamesAreRight
<1>2. at = "route" /\ NotReloading /\ snapshot' = snapshot
  BY DEF RouteSkill, NotReloading
<1>3. CASE Shared(definition)
  <2>1. at' = "turn" /\ runStack' = <<Activated(Top, definition)>>
    BY <1>3 DEF RouteSkill
  <2>2. Follows(Activated(Top, definition), snapshot.definitions)
    BY <1>1, StackFacts, ActivatedFollows
  <2>3. RunsFollow'
    BY <1>2, <2>1, <2>2, AloneFollows
  <2> QED BY <1>2, <2>1, <2>3, QuietStep
<1>4. CASE ~ Shared(definition)
  <2>1. at' = "alone" /\ runStack' = Append(runStack, ChildRun(definition))
    BY <1>4 DEF RouteSkill
  <2>2. RunsFollow'
    BY <1>1, <1>2, <2>1, PushedFollows
  <2> QED BY <1>2, <2>1, <2>2, QuietStep
<1> QED BY <1>3, <1>4

LEMMA CallSkillKeeps ==
  ASSUME SkillsInv, NEW name \in DOMAIN snapshot.definitions, CallSkill(name)
  PROVE  SkillsInv'
<1> DEFINE definition == snapshot.definitions[name]
<1>1. definition.text.name = name
  BY DEF SkillsInv, NamesAreRight
<1>2. at \in {"turn", "alone"} /\ at' = at /\ NotReloading /\ snapshot' = snapshot
  BY DEF CallSkill, NotReloading, InARun
<1>3. CASE runStack' = Append(runStack, ChildRun(definition))
  <2>1. RunsFollow'
    BY <1>2, <1>3, PushedFollows
  <2> QED BY <1>2, <2>1, QuietStep
<1>4. CASE runStack' = [runStack EXCEPT ![Len(runStack)] = Activated(@, definition)]
  <2> DEFINE new == Activated(runStack[Len(runStack)], definition)
  <2>1. Follows(new, snapshot.definitions)
    BY <1>1, StackFacts, ActivatedFollows
  <2>2. runStack' = [runStack EXCEPT ![Len(runStack)] = new]
    BY <1>4
  <2> HIDE DEF new
  <2>3. RunsFollow'
    BY <1>2, <2>1, <2>2, ReplacedFollows
  <2> QED BY <1>2, <2>3, QuietStep
<1> QED BY <1>3, <1>4 DEF CallSkill

\* What stays of the stack when its top is taken off.
LEMMA Popped ==
  ASSUME SkillsInv, Len(runStack) > 1
  PROVE  /\ Front(runStack) \in Seq(ToSet(runStack)) /\ Len(Front(runStack)) = Len(runStack) - 1
         /\ \A r \in 1 .. Len(runStack) - 1 : Front(runStack)[r] = runStack[r]
BY StackFacts DEF Front

LEMMA RunEndsKeeps ==
  ASSUME SkillsInv, RunEnds
  PROVE  SkillsInv'
<1>1. at \in {"turn", "alone"} /\ Len(runStack) > 1 /\ NotReloading /\ snapshot' = snapshot
      /\ at' = IF at = "alone" /\ Len(runStack) = 2 THEN "input" ELSE at
  BY DEF RunEnds, NotReloading, InARun
<1> DEFINE stack == Front(runStack)
<1>2. runStack' = stack
  BY DEF RunEnds
<1>3. /\ stack \in Seq(ToSet(runStack)) /\ Len(stack) = Len(runStack) - 1
      /\ \A r \in 1 .. Len(runStack) - 1 : stack[r] = runStack[r]
  BY <1>1, Popped
<1> HIDE DEF stack
<1>4. \A r \in 1 .. Len(stack) : Follows(stack[r], snapshot.definitions)
  BY <1>3, StackFacts
<1>5. /\ Len(stack) > 0 /\ (at' = "alone" => Len(stack) > 1)
      /\ at' \notin {"turn", "alone"} => Len(stack) = 1
  BY <1>1, <1>3, StackFacts
<1>6. RunsFollow'
  BY <1>1, <1>2, <1>3, <1>4, <1>5, RunsStillFollow
<1> QED BY <1>1, <1>6, QuietStep

LEMMA SkillTurnEndsKeeps ==
  ASSUME SkillsInv, SkillTurnEnds
  PROVE  SkillsInv'
<1> DEFINE new == [runStack[1] EXCEPT !.model = NoModel]
<1>1. at = "turn" /\ at' = "input" /\ Len(runStack) = 1 /\ NotReloading /\ snapshot' = snapshot
  BY DEF SkillTurnEnds, NotReloading
<1>2. Follows(runStack[1], snapshot.definitions)
  BY <1>1, StackFacts
<1>3. new = [active |-> runStack[1].active, model |-> NoModel, depth |-> runStack[1].depth]
  BY <1>2 DEF Follows
<1>4. runStack' = [runStack EXCEPT ![Len(runStack)] = new]
  BY <1>1 DEF SkillTurnEnds
<1> HIDE DEF new
<1>5. Follows(new, snapshot.definitions)
  BY <1>2, <1>3 DEF Follows
<1>6. RunsFollow'
  BY <1>1, <1>4, <1>5, ReplacedFollows
<1> QED BY <1>1, <1>6, QuietStep

LEMMA EditFileKeeps ==
  ASSUME SkillsInv, NEW p \in Places, NEW text \in SkillTexts \cup {NoSkillText}, EditFile(p, text)
  PROVE  SkillsInv'
<1> DEFINE new == IF text = NoSkillText THEN NoFile ELSE [text |-> text, stamp |-> edits + 1]
<1>0. /\ edits \in Nat /\ files \in [Places -> File] /\ edits' = edits + 1
      /\ files' = [files EXCEPT ![p] = new]
      /\ overtaken' = (overtaken \/ at \in {"parse", "stamp"})
      /\ UNCHANGED <<snapshot, commands, at, reload, runStack, skillCalls, seen>>
  BY DEF EditFile, SkillsInv, SkillsShape
<1>1. new \in File /\ (new = NoFile \/ new.stamp = edits + 1)
  BY <1>0 DEF File
<1> HIDE DEF new
<1>2. files' \in [Places -> File] /\ files'[p] = new /\ \A q \in Places : q # p => files'[q] = files[q]
  BY <1>0, <1>1
<1>3. ASSUME NEW now, Past(now) PROVE Past(now)'
  <2>1. now \in [Places -> File]
    BY <1>3 DEF Past
  <2>2. ASSUME NEW q \in Places, now[q] # NoFile
        PROVE  /\ now[q].stamp <= edits + 1
               /\ files'[q] # NoFile /\ files'[q].stamp = now[q].stamp => files'[q] = now[q]
    <3>1. now[q].stamp <= edits /\ now[q].stamp \in Nat
      BY <1>3, <2>1, <2>2 DEF Past, File
    <3>2. CASE q = p
      BY <1>0, <1>1, <1>2, <3>1, <3>2
    <3>3. CASE q # p
      BY <1>0, <1>2, <1>3, <2>2, <3>1, <3>3 DEF Past
    <3> QED BY <3>2, <3>3
  <2> QED BY <1>0, <2>1, <2>2 DEF Past
<1>4. Past(files)'
  <2>1. ASSUME NEW q \in Places, files'[q] # NoFile PROVE files'[q].stamp <= edits + 1
    <3>1. CASE q = p
      BY <1>0, <1>1, <1>2, <2>1, <3>1
    <3>2. CASE q # p
      <4>1. files[q].stamp <= edits /\ files[q].stamp \in Nat
        BY <1>0, <1>2, <2>1, <3>2 DEF SkillsInv, ReloadIsRight, Past, File
      <4> QED BY <1>0, <1>2, <3>2, <4>1
    <3> QED BY <3>1, <3>2
  <2> QED BY <1>0, <1>2, <2>1 DEF Past
<1>5. SkillsShape'
  BY <1>0, <1>2 DEF SkillsInv, SkillsShape
<1>6. NamesAreRight' /\ RunsFollow'
  BY <1>0 DEF SkillsInv, NamesAreRight, RunsFollow
<1>7. CatalogIsPast'
  <2> SUFFICES ASSUME ~ overtaken PROVE
        \E now \in [Places -> File] :
          /\ Past(now)' /\ Valid(MergedFiles(now))
          /\ snapshot.definitions = Normalize(MergedFiles(now))
          /\ snapshot.fingerprint = WholeFingerprint(now)
    BY <1>0 DEF CatalogIsPast
  <2> QED BY <1>3 DEF SkillsInv, CatalogIsPast
<1>8. ReloadIsRight'
  <2>1. Past(seen)'
    <3>1. Past(seen) /\ seen' = seen
      BY <1>0 DEF SkillsInv, ReloadIsRight
    <3>2. \A now : now = seen => Past(now)'
      BY <1>3, <3>1
    <3> QED BY <3>1, <3>2 DEF Past
  <2>2. ~ overtaken' /\ at = "install" => Reloaded(Len(Sources), Len(Sources))'
    BY <1>0 DEF SkillsInv, ReloadIsRight, Reloaded
  <2> QED BY <1>0, <1>4, <2>1, <2>2 DEF ReloadIsRight
<1>9. CatalogIsCurrent'
  BY <1>0 DEF SkillsInv, CatalogIsCurrent
<1> QED BY <1>5, <1>6, <1>7, <1>8, <1>9 DEF SkillsInv
LEMMA SkillsInitiallyRight ==
  ASSUME SkillsInit
  PROVE  SkillsInv
<1> USE DEF SkillsInit
<1>1. files \in [Places -> File] /\ seen = files /\ edits = 0
  BY SkillsAssumption DEF File
<1>2. Past(files) /\ Past(seen)
  <2>1. \A p \in Places : files[p] # NoFile => files[p].stamp <= edits
    BY <1>1, SkillsAssumption
  <2> QED BY <1>1, <2>1 DEF Past
<1>3. SkillsShape
  <2>1. snapshot = [definitions |-> snapshot.definitions, fingerprint |-> snapshot.fingerprint]
    OBVIOUS
  <2>2. reload = [left |-> reload.left, merged |-> reload.merged,
                  fingerprint |-> reload.fingerprint]
    OBVIOUS
  <2>3. at = "input"
    OBVIOUS
  <2>4. overtaken \in BOOLEAN
    OBVIOUS
  <2>5. files \in [Places -> File] /\ seen \in [Places -> File] /\ edits \in Nat
    BY <1>1
  <2> HIDE DEF SkillsInit
  <2> QED BY <2>1, <2>2, <2>3, <2>4, <2>5 DEF SkillsShape
<1>4. NamesAreRight
  <2>1. Len(Sources) \in 0 .. Len(Sources)
    BY SourcesAreASequence
  <2>2. \A name \in DOMAIN MergedFiles(files) :
          /\ MergedFiles(files)[name].text.name = name
          /\ MergedFiles(files)[name].text \in SkillTexts
    BY <1>1, <2>1, MergedNames DEF MergedFiles
  <2>3. \A name \in DOMAIN snapshot.definitions : snapshot.definitions[name].text.name = name
    BY <2>2, NormalizedNames
  <2>4. DOMAIN reload.merged = {}
    BY DEF NoSkills
  <2> QED BY <2>3, <2>4 DEF NamesAreRight
<1>5. RunsFollow
  <2> DEFINE run == Run({}, NoModel, 0)
  <2>1. Follows(run, snapshot.definitions)
    BY AFreshRunFollows
  <2>2. runStack = <<run>>
    OBVIOUS
  <2> HIDE DEF run
  <2>3. <<run>> \in Seq({run}) /\ Len(<<run>>) = 1 /\ <<run>>[1] = run
    OBVIOUS
  <2>4. ToSet(runStack) = {run} /\ runStack[1] = run /\ DOMAIN runStack = {1}
    BY <2>2, <2>3 DEF ToSet
  <2> QED BY <2>1, <2>2, <2>3, <2>4 DEF RunsFollow
<1>6. CatalogIsPast
  BY <1>1, <1>2 DEF CatalogIsPast
<1>7. ReloadIsRight
  BY <1>2 DEF ReloadIsRight
<1>8. CatalogIsCurrent
  BY DEF CatalogIsCurrent
<1> QED BY <1>3, <1>4, <1>5, <1>6, <1>7, <1>8 DEF SkillsInv

LEMMA SkillsInductive == SkillsInv /\ [SkillsNext]_skillVars => SkillsInv'
<1> SUFFICES ASSUME SkillsInv, [SkillsNext]_skillVars PROVE SkillsInv'
  OBVIOUS
<1>1. CASE CheckFiles
  BY <1>1, CheckFilesKeeps
<1>2. CASE ParseSource
  BY <1>2, ParseSourceKeeps
<1>3. CASE StampSource
  BY <1>3, StampSourceKeeps
<1>4. CASE Install
  BY <1>4, InstallKeeps
<1>5. CASE RouteMessage
  BY <1>5, RouteMessageKeeps
<1>6. CASE RouteClear
  BY <1>6, RouteClearKeeps
<1>7. CASE \E name \in commands : RouteSkill(name)
  BY <1>7, RouteSkillKeeps
<1>8. CASE \E name \in DOMAIN snapshot.definitions : CallSkill(name)
  BY <1>8, CallSkillKeeps
<1>9. CASE RunEnds
  BY <1>9, RunEndsKeeps
<1>10. CASE SkillTurnEnds
  BY <1>10, SkillTurnEndsKeeps
<1>11. CASE \E p \in Places, text \in SkillTexts \cup {NoSkillText} : EditFile(p, text)
  BY <1>11, EditFileKeeps
<1>12. CASE UNCHANGED skillVars
  <2> USE <1>12 DEF SkillsInv, skillVars
  <2>1. SkillsShape' /\ NamesAreRight' /\ RunsFollow' /\ CatalogIsCurrent'
    BY DEF SkillsShape, NamesAreRight, RunsFollow, CatalogIsCurrent
  <2>2. \A now : Past(now)' <=> Past(now)
    BY DEF Past
  <2>3. CatalogIsPast'
    BY <2>2 DEF CatalogIsPast
  <2>4. Past(seen)' /\ Past(files)'
    BY DEF ReloadIsRight, Past
  <2>5. ReloadIsRight'
    BY <2>4 DEF ReloadIsRight, Reloaded
  <2> QED BY <2>1, <2>3, <2>5
<1> QED BY <1>1, <1>2, <1>3, <1>4, <1>5, <1>6, <1>7, <1>8, <1>9, <1>10, <1>11, <1>12
        DEF SkillsNext

(* Every state of the skills satisfies the inductive invariant: the catalog  *)
(* is that of one past state of all files, a reload has read the files of    *)
(* its start, and no run follows a definition that is not the catalog's      *)
(* (skills/manager.py:83-127, catalog.py:28-76).                             *)
THEOREM SkillsInvariant == SkillsSpec => []SkillsInv
<1>1. SkillsInit => SkillsInv
  BY SkillsInitiallyRight
<1> QED BY <1>1, SkillsInductive, PTL DEF SkillsSpec

(* When an input is routed, and during its turn, the catalog, the commands  *)
(* and what the runs follow are those of the files as they were when the    *)
(* check began, if no file changed while a reload was reading               *)
(* (skills/manager.py:83-127, cli.py:520-535).                              *)
THEOREM SkillsAreCurrentTheorem == SkillsSpec => []SkillsAreCurrent
<1>1. SkillsInv => SkillsAreCurrent
  <2> SUFFICES ASSUME SkillsInv, ~ overtaken, at \in {"route", "turn", "alone"},
                      Valid(MergedFiles(seen))
               PROVE  /\ snapshot.definitions = Normalize(MergedFiles(seen))
                      /\ commands = DOMAIN snapshot.definitions
                      /\ \A r \in DOMAIN runStack : \A definition \in runStack[r].active :
                           /\ definition.text.name \in DOMAIN snapshot.definitions
                           /\ definition = snapshot.definitions[definition.text.name]
    BY DEF SkillsAreCurrent
  <2>1. snapshot.definitions = Normalize(MergedFiles(seen))
    BY DEF SkillsInv, CatalogIsCurrent
  <2>2. commands = DOMAIN snapshot.definitions
    BY DEF SkillsInv, NamesAreRight
  <2>3. \A r \in DOMAIN runStack : Follows(runStack[r], snapshot.definitions)
    BY DEF SkillsInv, RunsFollow
  <2> QED BY <2>1, <2>2, <2>3 DEF Follows
<1> QED BY <1>1, SkillsInvariant, PTL

\* A skill activated anew allows what it allowed: nothing becomes allowed.
LEMMA ActivatedNarrows ==
  ASSUME NEW definitions, NEW run, Follows(run, definitions), NEW name \in DOMAIN definitions,
         definitions[name].text.name = name
  PROVE  Shown(Activated(run, definitions[name])) \subseteq Shown(run)
<1> DEFINE new == Activated(run, definitions[name])
<1>1. new.active = {d \in run.active : d.text.name # definitions[name].text.name}
                     \cup {definitions[name]}
  BY DEF Activated, Run
<1> HIDE DEF new
<1>2. \A d \in run.active : d \in new.active
  BY <1>1 DEF Follows
<1>3. Shown(new) \subseteq Shown(run)
  BY <1>2 DEF Shown
<1> QED BY <1>3 DEF new

\* A run that begins for an isolated skill is shown what the skill lists.
LEMMA ChildIsShown ==
  ASSUME NEW definition
  PROVE  Shown(ChildRun(definition)) \subseteq definition.text.tools
BY DEF Shown, ChildRun, Run

(* During a turn no skill gives a run a tool the same run did not have, and *)
(* an isolated run begins with no tool its skill does not list, whatever    *)
(* skills call each other and whatever files change meanwhile               *)
(* (skills/manager.py:74-81, runner.py:69-108, agent.py:501-516).           *)
THEOREM SkillsOnlyNarrowTheorem == SkillsSpec => SkillsOnlyNarrow
<1>1. ASSUME SkillsInv, SkillsNext, InARun, InARun' PROVE Shrinks
  <2> USE DEF Shrinks
  <2>0. at \in {"turn", "alone"} /\ at' \in {"turn", "alone"}
    BY <1>1 DEF InARun
  <2>1. CASE runStack' = runStack
    BY <2>1
  <2>2. CASE \E name \in DOMAIN snapshot.definitions : CallSkill(name)
    <3>1. PICK name \in DOMAIN snapshot.definitions : CallSkill(name)
      BY <2>2
    <3> DEFINE definition == snapshot.definitions[name]
               activated == Activated(runStack[Len(runStack)], definition)
               child == ChildRun(definition)
    <3>2. CASE runStack' = Append(runStack, child)
      <4> HIDE DEF child
      <4>1. \A r \in 1 .. Len(runStack) : runStack'[r] = runStack[r]
        BY <1>1, <3>2, Pushed, StackFacts
      <4> QED BY <1>1, <4>1, StackFacts
    <3>3. CASE runStack' = [runStack EXCEPT ![Len(runStack)] = activated]
      <4>1. Shown(activated) \subseteq Shown(runStack[Len(runStack)])
        BY <1>1, StackFacts, ActivatedNarrows DEF SkillsInv, NamesAreRight
      <4> HIDE DEF activated
      <4>2. \A r \in 1 .. Len(runStack) :
              runStack'[r] = IF r = Len(runStack) THEN activated ELSE runStack[r]
        BY <1>1, <3>3, Replaced, StackFacts
      <4> QED BY <1>1, <4>1, <4>2, StackFacts
    <3> QED BY <3>1, <3>2, <3>3 DEF CallSkill
  <2>3. CASE RunEnds
    <3>1. \A r \in 1 .. Len(runStack) - 1 : runStack'[r] = runStack[r]
      BY <1>1, <2>3, Popped DEF RunEnds
    <3>2. DOMAIN runStack' = 1 .. Len(runStack) - 1
      BY <1>1, <2>3, Popped, StackFacts, OwnSequence DEF RunEnds
    <3> QED BY <3>1, <3>2
  <2>4. CASE RouteClear \/ RouteMessage \/ \E name \in commands : RouteSkill(name)
    BY <2>0, <2>4 DEF RouteClear, RouteMessage, RouteSkill
  <2>5. CASE CheckFiles \/ ParseSource \/ StampSource \/ Install
    BY <2>0, <2>5 DEF CheckFiles, ParseSource, StampSource, Install
  <2>6. CASE SkillTurnEnds
    BY <2>0, <2>6 DEF SkillTurnEnds
  <2>7. CASE \E p \in Places, text \in SkillTexts \cup {NoSkillText} : EditFile(p, text)
    BY <2>1, <2>7 DEF EditFile
  <2> QED BY <1>1, <2>2, <2>3, <2>4, <2>5, <2>6, <2>7 DEF SkillsNext
<1>4. ASSUME SkillsInv, SkillsNext, InARun' PROVE ShowsWhatIsListed
  <2> USE DEF ShowsWhatIsListed
  <2>1. CASE DOMAIN runStack' \subseteq DOMAIN runStack
    BY <2>1
  <2>2. ASSUME NEW name \in DOMAIN snapshot.definitions, ~ Shared(snapshot.definitions[name]),
               runStack' = Append(runStack, ChildRun(snapshot.definitions[name]))
        PROVE  ShowsWhatIsListed
    <3> DEFINE definition == snapshot.definitions[name]
               child == ChildRun(definition)
    <3>1. Shown(child) \subseteq definition.text.tools
      BY ChildIsShown
    <3> HIDE DEF child
    <3>2. runStack' = Append(runStack, child)
      BY <2>2 DEF child
    <3>3. \A r \in DOMAIN runStack' \ DOMAIN runStack : runStack'[r] = child
      BY <1>4, <3>2, Pushed, StackFacts
    <3> QED BY <2>2, <3>1, <3>3
  <2>3. CASE \E name \in DOMAIN snapshot.definitions : CallSkill(name)
    <3>1. PICK name \in DOMAIN snapshot.definitions : CallSkill(name)
      BY <2>3
    <3> DEFINE activated == Activated(runStack[Len(runStack)], snapshot.definitions[name])
    <3>2. CASE runStack' = [runStack EXCEPT ![Len(runStack)] = activated]
      <4> HIDE DEF activated
      <4> QED BY <2>1, <3>2
    <3> QED BY <2>2, <3>1, <3>2 DEF CallSkill
  <2>4. CASE \E name \in commands : RouteSkill(name)
    <3>1. PICK name \in commands : RouteSkill(name)
      BY <2>4
    <3>2. name \in DOMAIN snapshot.definitions
      BY <1>4, <3>1 DEF SkillsInv, NamesAreRight
    <3>3. CASE Shared(snapshot.definitions[name])
      <4> DEFINE new == Activated(Top, snapshot.definitions[name])
      <4>0. runStack' = <<new>>
        BY <3>1, <3>3 DEF RouteSkill
      <4> HIDE DEF new
      <4>1. DOMAIN runStack' = {1} /\ 1 \in DOMAIN runStack
        BY <1>4, <4>0, StackFacts
      <4> QED BY <2>1, <4>1
    <3> QED BY <2>2, <3>1, <3>2, <3>3 DEF RouteSkill
  <2>5. CASE RunEnds
    BY <1>4, <2>1, <2>5, Popped, StackFacts, OwnSequence DEF RunEnds
  <2>6. CASE CheckFiles \/ ParseSource \/ StampSource \/ Install \/ RouteClear \/ SkillTurnEnds
    BY <1>4, <2>6 DEF InARun, CheckFiles, ParseSource, StampSource, Install, RouteClear,
                      SkillTurnEnds
  <2>7. CASE RouteMessage \/ \E p \in Places, text \in SkillTexts \cup {NoSkillText} : EditFile(p, text)
    BY <2>1, <2>7 DEF RouteMessage, EditFile
  <2> QED BY <1>4, <2>3, <2>4, <2>5, <2>6, <2>7 DEF SkillsNext
<1>2. SkillsInv /\ [SkillsNext]_skillVars =>
        [InARun' => (InARun => Shrinks) /\ ShowsWhatIsListed]_skillVars
  BY <1>1, <1>4
<1>3. SkillsSpec => [][InARun' => (InARun => Shrinks) /\ ShowsWhatIsListed]_skillVars
  BY <1>2, SkillsInvariant, PTL DEF SkillsSpec
<1> QED BY <1>3 DEF SkillsOnlyNarrow

-----------------------------------------------------------------------------
(***************************************************************************)
(* The history of a request, however often it was compressed               *)
(***************************************************************************)

ContextShape ==
  /\ history \in Seq(Messages) /\ said \in Seq(Messages)
  /\ stage \in Stages

\* In a turn the newest message is one that was said, not a summary.
LastIsSaid == stage # "idle" => history # <<>> /\ history[Len(history)].id # 0

Least == IF stage = "idle" THEN MinRecent - 1 ELSE MinRecent
ContextInv == ContextShape /\ ResultsFollow(history) /\ RecentIsKept /\ LastIsSaid

LEMMA MessageFacts ==
  ASSUME NEW m \in Messages
  PROVE  /\ m.role \in {"user", "assistant", "tool"} /\ m.id \in Nat /\ m.calls \in Nat
         /\ m.size \in Nat /\ m.spilled \in BOOLEAN
BY DEF Messages

LEMMA MessageIsMessage ==
  ASSUME NEW role \in {"user", "assistant", "tool"}, NEW id \in Nat, NEW calls \in Nat,
         NEW size \in Nat
  PROVE  /\ Message(role, id, calls, size) \in Messages
         /\ Message(role, id, calls, size).role = role
         /\ Message(role, id, calls, size).id = id
         /\ Message(role, id, calls, size).calls = calls
BY DEF Message, Messages

\* What is on disk is still the same message.
LEMMA SpillKeeps ==
  ASSUME NEW m \in Messages
  PROVE  /\ Spill(m) \in Messages /\ Spill(m).role = m.role
         /\ Spill(m).id = m.id /\ Spill(m).calls = m.calls
<1>1. PreviewSize \in Nat
  BY ContextAssumption
<1> QED BY <1>1 DEF Spill, Messages

Alike(messages, others) ==
  /\ Len(messages) = Len(others)
  /\ \A i \in 1 .. Len(others) : /\ messages[i].role = others[i].role
                                 /\ messages[i].id = others[i].id
                                 /\ messages[i].calls = others[i].calls

LEMMA AlikeAnswered ==
  ASSUME NEW messages \in Seq(Messages), NEW others \in Seq(Messages),
         Alike(messages, others), ResultsFollow(others)
  PROVE  ResultsFollow(messages)
<1>1. DOMAIN messages = 1 .. Len(others) /\ DOMAIN others = 1 .. Len(others)
      /\ Len(others) \in Nat /\ Len(messages) = Len(others)
  BY DEF Alike
<1>2. \A i \in 1 .. Len(others) : HasCalls(messages[i]) <=> HasCalls(others[i])
  BY DEF Alike, HasCalls
<1> SUFFICES ASSUME NEW i \in 1 .. Len(others)
             PROVE  /\ HasCalls(messages[i]) =>
                         /\ i + messages[i].calls <= Len(messages)
                         /\ \A j \in i + 1 .. i + messages[i].calls :
                              messages[j].role = "tool" /\ messages[j].id = messages[i].id
                         /\ i + messages[i].calls < Len(messages) =>
                              messages[i + messages[i].calls + 1].role # "tool"
                    /\ messages[i].role = "tool" =>
                         \E a \in 1 .. i - 1 : /\ HasCalls(messages[a])
                                               /\ i <= a + messages[a].calls
  BY <1>1 DEF ResultsFollow
<1>3. messages[i].role = others[i].role /\ messages[i].calls = others[i].calls
      /\ messages[i].id = others[i].id /\ others[i].calls \in Nat
  BY <1>1, MessageFacts DEF Alike
<1>4. ASSUME HasCalls(messages[i])
      PROVE  /\ i + messages[i].calls <= Len(messages)
             /\ \A j \in i + 1 .. i + messages[i].calls :
                  messages[j].role = "tool" /\ messages[j].id = messages[i].id
             /\ i + messages[i].calls < Len(messages) =>
                  messages[i + messages[i].calls + 1].role # "tool"
  <2>1. /\ i + others[i].calls <= Len(others)
        /\ \A j \in i + 1 .. i + others[i].calls :
             others[j].role = "tool" /\ others[j].id = others[i].id
        /\ i + others[i].calls < Len(others) => others[i + others[i].calls + 1].role # "tool"
    BY <1>1, <1>2, <1>4 DEF ResultsFollow
  <2> QED BY <1>1, <1>3, <2>1 DEF Alike
<1>5. ASSUME messages[i].role = "tool"
      PROVE  \E a \in 1 .. i - 1 : HasCalls(messages[a]) /\ i <= a + messages[a].calls
  <2>1. PICK a \in 1 .. i - 1 : HasCalls(others[a]) /\ i <= a + others[a].calls
    BY <1>1, <1>3, <1>5 DEF ResultsFollow
  <2>2. a \in 1 .. Len(others)
    BY <1>1
  <2> QED BY <1>2, <2>1, <2>2 DEF Alike
<1> QED BY <1>4, <1>5

\* A number of summaries and of dropped messages to look at.
LEMMA NewestAre ==
  ASSUME NEW messages, NEW all, NEW n \in 0 .. Len(messages), NEW dropped \in 0 .. Len(all),
         Len(messages) - n = Len(all) - dropped,
         \A i \in 1 .. n : messages[i].id = 0,
         \A i \in 1 .. Len(messages) - n : /\ messages[n + i].role = all[dropped + i].role
                                           /\ messages[n + i].id = all[dropped + i].id,
         NEW least, dropped = 0 \/ Len(messages) - n >= least
  PROVE  KeepsNewest(messages, all, least)
BY DEF KeepsNewest

LEMMA FewerAre ==
  ASSUME NEW messages \in Seq(Messages), NEW all \in Seq(Messages),
         NEW least \in Int, NEW fewer \in Int, fewer <= least,
         KeepsNewest(messages, all, least)
  PROVE  KeepsNewest(messages, all, fewer)
<1>1. PICK n \in 0 .. Len(messages), dropped \in 0 .. Len(all) :
        /\ Len(messages) - n = Len(all) - dropped
        /\ \A i \in 1 .. n : messages[i].id = 0
        /\ \A i \in 1 .. Len(messages) - n :
             /\ messages[n + i].role = all[dropped + i].role
             /\ messages[n + i].id = all[dropped + i].id
        /\ dropped = 0 \/ Len(messages) - n >= least
  BY DEF KeepsNewest
<1>2. Len(messages) \in Nat
  OBVIOUS
<1>3. dropped = 0 \/ Len(messages) - n >= fewer
  BY <1>1, <1>2
<1> QED BY <1>1, <1>3, NewestAre

LEMMA AlikeKeeps ==
  ASSUME NEW messages, NEW others, NEW all, NEW least, Len(others) \in Nat,
         Alike(messages, others), KeepsNewest(others, all, least)
  PROVE  KeepsNewest(messages, all, least)
<1>1. PICK n \in 0 .. Len(others), dropped \in 0 .. Len(all) :
        /\ Len(others) - n = Len(all) - dropped
        /\ \A i \in 1 .. n : others[i].id = 0
        /\ \A i \in 1 .. Len(others) - n :
             /\ others[n + i].role = all[dropped + i].role
             /\ others[n + i].id = all[dropped + i].id
        /\ dropped = 0 \/ Len(others) - n >= least
  BY DEF KeepsNewest
<1>2. /\ \A i \in 1 .. n : messages[i].id = 0
      /\ \A i \in 1 .. Len(others) - n :
           /\ messages[n + i].role = all[dropped + i].role
           /\ messages[n + i].id = all[dropped + i].id
  <2>1. \A i \in 1 .. n : i \in 1 .. Len(others)
    OBVIOUS
  <2>2. \A i \in 1 .. Len(others) - n : n + i \in 1 .. Len(others)
    OBVIOUS
  <2> QED BY <1>1, <2>1, <2>2 DEF Alike
<1>3. Len(messages) = Len(others)
  BY DEF Alike
<1> QED BY <1>1, <1>2, <1>3 DEF KeepsNewest

LEMMA CompactedIsAlike ==
  ASSUME history \in Seq(Messages)
  PROVE  CompactGroups \in Seq(Messages) /\ Alike(CompactGroups, history)
<1> DEFINE spill == UNION {ToSpill(a) : a \in {b \in DOMAIN history : HasCalls(history[b])}}
           compact == [i \in 1 .. Len(history) |->
                         IF i \in spill THEN Spill(history[i]) ELSE history[i]]
<1>1. CompactGroups = compact
  BY DEF CompactGroups
<1> HIDE DEF spill
<1>2. \A i \in 1 .. Len(history) : history[i] \in Messages
  OBVIOUS
<1>3. \A i \in 1 .. Len(history) : /\ compact[i] \in Messages
                                   /\ compact[i].role = history[i].role
                                   /\ compact[i].id = history[i].id
                                   /\ compact[i].calls = history[i].calls
  BY <1>2, SpillKeeps
<1>4. compact \in Seq(Messages) /\ Len(compact) = Len(history)
  BY <1>3
<1> HIDE DEF compact
<1> QED BY <1>1, <1>3, <1>4 DEF Alike

\* The cut is where a segment starts, and enough messages come after it.
LEMMA CutFacts ==
  ASSUME NEW messages \in Seq(Messages), FirstRecent(messages) # 1
  PROVE  /\ FirstRecent(messages) \in 1 .. Len(messages)
         /\ StartsSegment(messages, FirstRecent(messages))
         /\ Len(messages) - FirstRecent(messages) + 1 >= MinRecent
<1> DEFINE cuts == {i \in DOMAIN messages : StartsSegment(messages, i) /\ Enough(messages, i)}
<1>1. cuts # {} /\ FirstRecent(messages) = Max(cuts)
  BY DEF FirstRecent
<1>2. cuts \in SUBSET Nat /\ Len(messages) \in Nat /\ \A x \in cuts : x <= Len(messages)
  OBVIOUS
<1>3. Max(cuts) \in cuts
  <2> HIDE DEF cuts
  <2> QED BY <1>1, <1>2, GreatestNatural
<1>4. Enough(messages, FirstRecent(messages)) /\ FirstRecent(messages) \in DOMAIN messages
      /\ StartsSegment(messages, FirstRecent(messages))
  BY <1>1, <1>3
<1> QED BY <1>4 DEF Enough

LEMMA Joined ==
  ASSUME NEW s \in Seq(Messages), NEW t \in Seq(Messages)
  PROVE  /\ s \o t \in Seq(Messages) /\ Len(s \o t) = Len(s) + Len(t)
         /\ \A i \in 1 .. Len(s) : (s \o t)[i] = s[i]
         /\ \A i \in 1 .. Len(t) : (s \o t)[Len(s) + i] = t[i]
OBVIOUS

LEMMA SummarizedIs ==
  ASSUME NEW messages \in Seq(Messages), NEW c \in 1 .. Len(messages),
         FirstRecent(messages) = c
  PROVE  LET new == Summarized(messages) IN
         /\ new \in Seq(Messages) /\ Len(new) = Len(messages) - c + 3
         /\ \A i \in 1 .. 2 : new[i].role = "user" /\ new[i].id = 0 /\ new[i].calls = 0
         /\ \A i \in 3 .. Len(messages) - c + 3 : new[i] = messages[i + c - 3]
<1> DEFINE first == Message("user", 0, 0, SummarySize)
           second == Message("user", 0, 0, 0)
           two == <<first, second>>
           recent == SubSeq(messages, c, Len(messages))
<1>1. /\ first \in Messages /\ first.role = "user" /\ first.id = 0 /\ first.calls = 0
      /\ second \in Messages /\ second.role = "user" /\ second.id = 0 /\ second.calls = 0
  <2>1. SummarySize \in Nat /\ 0 \in Nat /\ "user" \in {"user", "assistant", "tool"}
    BY ContextAssumption
  <2> QED BY <2>1, MessageIsMessage
<1> HIDE DEF first, second
<1>2. two \in Seq(Messages) /\ Len(two) = 2 /\ two[1] = first /\ two[2] = second
  BY <1>1
<1>3. recent \in Seq(Messages) /\ Len(recent) = Len(messages) - c + 1
      /\ \A i \in 1 .. Len(messages) - c + 1 : recent[i] = messages[c + i - 1]
  OBVIOUS
<1>4. Summarized(messages) = two \o recent
  BY DEF Summarized, first, second
<1> HIDE DEF two, recent
<1> DEFINE both == two \o recent
<1>5. both \in Seq(Messages) /\ Len(both) = 2 + Len(recent)
      /\ (\A i \in 1 .. 2 : both[i] = two[i])
      /\ (\A i \in 1 .. Len(recent) : both[2 + i] = recent[i])
  <2>1. both \in Seq(Messages) /\ Len(both) = Len(two) + Len(recent)
        /\ (\A i \in 1 .. Len(two) : both[i] = two[i])
        /\ (\A i \in 1 .. Len(recent) : both[Len(two) + i] = recent[i])
    BY <1>2, <1>3, Joined
  <2>2. Len(two) = 2
    BY <1>2
  <2> HIDE DEF both
  <2> QED BY <2>1, <2>2
<1>6. \A i \in 1 .. 2 : both[i].role = "user" /\ both[i].id = 0 /\ both[i].calls = 0
  <2>1. both[1] = first /\ both[2] = second
    BY <1>2, <1>5
  <2>2. \A i \in 1 .. 2 : i = 1 \/ i = 2
    OBVIOUS
  <2> HIDE DEF both
  <2> QED BY <1>1, <2>1, <2>2
<1> HIDE DEF both
<1>7. ASSUME NEW i \in 3 .. Len(messages) - c + 3 PROVE both[i] = messages[i + c - 3]
  <2>1. i - 2 \in 1 .. Len(messages) - c + 1 /\ 2 + (i - 2) = i
    OBVIOUS
  <2>2. both[i] = recent[i - 2]
    BY <1>3, <1>5, <2>1
  <2>3. recent[i - 2] = messages[c + (i - 2) - 1]
    BY <1>3, <2>1
  <2>4. c + (i - 2) - 1 = i + c - 3
    OBVIOUS
  <2> QED BY <2>2, <2>3, <2>4
<1>8. Len(both) = Len(messages) - c + 3
  BY <1>3, <1>5
<1> QED BY <1>4, <1>5, <1>6, <1>7, <1>8 DEF both

\* A cut at the start of a segment parts no calls from their results.
LEMMA SummarizedAnswered ==
  ASSUME NEW messages \in Seq(Messages), ResultsFollow(messages), FirstRecent(messages) # 1
  PROVE  Summarized(messages) \in Seq(Messages) /\ ResultsFollow(Summarized(messages))
<1> DEFINE c == FirstRecent(messages)
           new == Summarized(messages)
<1>1. c \in 1 .. Len(messages) /\ StartsSegment(messages, c) /\ Len(messages) \in Nat
  BY CutFacts
<1> HIDE DEF c
<1>2. /\ new \in Seq(Messages) /\ Len(new) = Len(messages) - c + 3
      /\ \A i \in 1 .. 2 : new[i].role = "user" /\ new[i].id = 0 /\ new[i].calls = 0
      /\ \A i \in 3 .. Len(messages) - c + 3 : new[i] = messages[i + c - 3]
  BY <1>1, SummarizedIs DEF c
<1> HIDE DEF new
<1>7. Len(new) = Len(messages) - c + 3
  BY <1>2
<1>8. c \in Nat /\ c >= 1 /\ c <= Len(messages) /\ Len(messages) \in Nat
  BY <1>1
<1>3. DOMAIN new = 1 .. Len(messages) - c + 3
  BY <1>1, <1>2
<1>4. ASSUME NEW i \in 1 .. 2 PROVE ~ HasCalls(new[i]) /\ new[i].role # "tool"
  BY <1>2 DEF HasCalls
<1>5. ASSUME NEW i \in 3 .. Len(messages) - c + 3
      PROVE  LET m == new[i] IN
             /\ HasCalls(m) =>
                  /\ i + m.calls <= Len(new)
                  /\ \A j \in i + 1 .. i + m.calls : new[j].role = "tool" /\ new[j].id = m.id
                  /\ i + m.calls < Len(new) => new[i + m.calls + 1].role # "tool"
             /\ m.role = "tool" =>
                  \E a \in 1 .. i - 1 : HasCalls(new[a]) /\ i <= a + new[a].calls
  <2> DEFINE k == i + c - 3
             n == messages[k].calls
  <2>0. k \in 1 .. Len(messages) /\ k >= c /\ k \in DOMAIN messages /\ i = k - c + 3
    BY <1>1
  <2>4. new[i] = messages[k]
    BY <1>2
  <2>5. n \in Nat
    BY <2>0, MessageFacts
  <2>1. k \in 1 .. Len(messages) /\ k >= c /\ k \in DOMAIN messages /\ new[i] = messages[k]
        /\ n \in Nat /\ i = k - c + 3
    BY <2>0, <2>4, <2>5
  <2>6. k \in Nat /\ k >= c /\ k <= Len(messages) /\ n \in Nat /\ i = k - c + 3
    BY <2>1
  <2> HIDE DEF n, k
  <2>2. ASSUME HasCalls(messages[k])
        PROVE  /\ i + n <= Len(new)
               /\ \A j \in i + 1 .. i + n :
                    new[j].role = "tool" /\ new[j].id = messages[k].id
               /\ i + n < Len(new) => new[i + n + 1].role # "tool"
    <3>1. /\ k + n <= Len(messages)
          /\ \A j \in k + 1 .. k + n : messages[j].role = "tool" /\ messages[j].id = messages[k].id
          /\ k + n < Len(messages) => messages[k + n + 1].role # "tool"
      BY <2>1, <2>2 DEF ResultsFollow, n
    <3>2. i + n <= Len(new)
      <4>1. k + n <= Len(messages)
        BY <3>1
      <4> QED BY <1>7, <1>8, <2>6, <4>1
    <3>3. ASSUME NEW j \in i + 1 .. i + n
          PROVE  new[j].role = "tool" /\ new[j].id = messages[k].id
      <4>1. j + c - 3 \in k + 1 .. k + n /\ j \in 3 .. Len(messages) - c + 3
        BY <1>7, <1>8, <2>6, <3>2
      <4> QED BY <1>2, <3>1, <4>1
    <3>4. ASSUME i + n < Len(new) PROVE new[i + n + 1].role # "tool"
      <4>1. k + n < Len(messages) /\ i + n + 1 \in 3 .. Len(messages) - c + 3
            /\ (i + n + 1) + c - 3 = k + n + 1
        BY <1>7, <1>8, <2>6, <3>4
      <4>2. new[i + n + 1] = messages[k + n + 1]
        BY <1>2, <4>1
      <4> QED BY <3>1, <4>1, <4>2
    <3> QED BY <3>2, <3>3, <3>4
  <2>3. ASSUME messages[k].role = "tool"
        PROVE  \E a \in 1 .. i - 1 : HasCalls(new[a]) /\ i <= a + new[a].calls
    <3>1. PICK b \in 1 .. k - 1 : HasCalls(messages[b]) /\ k <= b + messages[b].calls
      BY <2>1, <2>3 DEF ResultsFollow
    <3>2. b \in DOMAIN messages /\ messages[b].calls \in Nat
      BY <2>1, <3>1, MessageFacts
    <3>3. \A j \in b + 1 .. b + messages[b].calls : messages[j].role = "tool"
      BY <3>1, <3>2 DEF ResultsFollow
    <3>4. b >= c
      <4>0. b \in Nat /\ c \in Nat
        BY <1>1, <2>6, <3>1
      <4> SUFFICES ASSUME b < c PROVE FALSE
        BY <4>0
      <4>1. b \in 1 .. c - 1 /\ \A j \in b + 1 .. c : messages[j].role = "tool"
        <5> DEFINE calls == messages[b].calls
        <5>1. calls \in Nat /\ k <= b + calls /\ b >= 1
              /\ \A j \in b + 1 .. b + calls : messages[j].role = "tool"
          BY <3>1, <3>2, <3>3
        <5> HIDE DEF calls
        <5>2. b \in 1 .. c - 1 /\ c <= b + calls
          BY <1>8, <2>6, <4>0, <5>1
        <5>3. \A j \in b + 1 .. c : j \in b + 1 .. b + calls
          BY <1>8, <4>0, <5>1, <5>2
        <5> QED BY <5>1, <5>2, <5>3
      <4> QED BY <1>1, <3>1, <4>1 DEF StartsSegment
    <3>5. b - c + 3 \in 1 .. i - 1 /\ b - c + 3 \in 3 .. Len(messages) - c + 3
          /\ (b - c + 3) + c - 3 = b
      BY <1>8, <2>6, <3>4
    <3>6. new[b - c + 3] = messages[b]
      BY <1>2, <3>5
    <3>7. i <= (b - c + 3) + messages[b].calls
      <4> DEFINE calls == messages[b].calls
      <4>1. calls \in Nat /\ k <= b + calls
        BY <3>1, <3>2
      <4> HIDE DEF calls
      <4>2. i <= (b - c + 3) + calls
        BY <1>1, <2>1, <3>1, <4>1
      <4> QED BY <4>2 DEF calls
    <3> QED BY <3>1, <3>5, <3>6, <3>7
  <2> QED BY <2>1, <2>2, <2>3 DEF n
<1>6. ResultsFollow(new)
  <2> SUFFICES ASSUME NEW i \in 1 .. Len(messages) - c + 3
               PROVE  LET m == new[i] IN
                      /\ HasCalls(m) =>
                           /\ i + m.calls <= Len(new)
                           /\ \A j \in i + 1 .. i + m.calls :
                                new[j].role = "tool" /\ new[j].id = m.id
                           /\ i + m.calls < Len(new) => new[i + m.calls + 1].role # "tool"
                      /\ m.role = "tool" =>
                           \E a \in 1 .. i - 1 : HasCalls(new[a]) /\ i <= a + new[a].calls
    BY <1>3 DEF ResultsFollow
  <2>1. i \in 1 .. 2 \/ i \in 3 .. Len(messages) - c + 3
    BY <1>1
  <2>2. CASE i \in 1 .. 2
    BY <1>4, <2>2
  <2>3. CASE i \in 3 .. Len(messages) - c + 3
    BY <1>5, <2>3
  <2> QED BY <2>1, <2>2, <2>3
<1> QED BY <1>2, <1>6 DEF new

LEMMA SummarizedKeeps ==
  ASSUME NEW messages \in Seq(Messages), NEW all \in Seq(Messages),
         NEW least \in Int, least <= MinRecent,
         KeepsNewest(messages, all, least), FirstRecent(messages) # 1
  PROVE  KeepsNewest(Summarized(messages), all, least)
<1> DEFINE c == FirstRecent(messages)
           new == Summarized(messages)
<1>1. c \in 1 .. Len(messages) /\ Len(messages) - c + 1 >= MinRecent
      /\ Len(messages) \in Nat /\ Len(all) \in Nat
  BY CutFacts
<1> HIDE DEF c
<1>2. /\ new \in Seq(Messages) /\ Len(new) = Len(messages) - c + 3
      /\ \A i \in 1 .. 2 : new[i].role = "user" /\ new[i].id = 0 /\ new[i].calls = 0
      /\ \A i \in 3 .. Len(messages) - c + 3 : new[i] = messages[i + c - 3]
  BY <1>1, SummarizedIs DEF c
<1> HIDE DEF new
<1> SUFFICES KeepsNewest(new, all, least)
  BY DEF new
<1>3. PICK n \in 0 .. Len(messages), dropped \in 0 .. Len(all) :
        /\ Len(messages) - n = Len(all) - dropped
        /\ \A i \in 1 .. n : messages[i].id = 0
        /\ \A i \in 1 .. Len(messages) - n :
             /\ messages[n + i].role = all[dropped + i].role
             /\ messages[n + i].id = all[dropped + i].id
        /\ dropped = 0 \/ Len(messages) - n >= least
  BY DEF KeepsNewest
<1>6. Len(new) = Len(messages) - c + 3 /\ Len(messages) - n = Len(all) - dropped
      /\ c \in Nat /\ c >= 1 /\ c <= Len(messages) /\ n \in Nat /\ n <= Len(messages)
  BY <1>1, <1>2, <1>3
<1>7. Len(messages) \in Nat /\ Len(all) \in Nat
  BY <1>1
<1>4. CASE c > n
  <2> DEFINE less == dropped + (c - 1 - n)
  <2>1. 2 \in 0 .. Len(new) /\ less \in 0 .. Len(all) /\ Len(new) - 2 = Len(all) - less
        /\ Len(new) - 2 >= least
    <3>1. MinRecent \in Nat
      BY ContextAssumption
    <3>2. Len(new) = Len(messages) - c + 3 /\ Len(messages) - n = Len(all) - dropped
      BY <1>2, <1>3
    <3>3. Len(new) - 2 >= least
      BY <1>1, <1>6, <1>7, <3>1
    <3> QED BY <1>1, <1>4, <3>2, <3>3
  <2>2. \A i \in 1 .. 2 : new[i].id = 0
    BY <1>2
  <2>3. ASSUME NEW i \in 1 .. Len(new) - 2
        PROVE  /\ new[2 + i].role = all[less + i].role
               /\ new[2 + i].id = all[less + i].id
    <3>1. /\ 2 + i \in 3 .. Len(messages) - c + 3 /\ (2 + i) + c - 3 = n + (c - 1 - n + i)
          /\ c - 1 - n + i \in 1 .. Len(messages) - n /\ less + i = dropped + (c - 1 - n + i)
      BY <1>1, <1>2, <1>3, <1>4
    <3>2. new[2 + i] = messages[n + (c - 1 - n + i)]
      BY <1>2, <3>1
    <3> QED BY <1>3, <3>1, <3>2
  <2>4. less \in 0 .. Len(all)
    BY <2>1
  <2> HIDE DEF less
  <2> QED BY <2>1, <2>2, <2>3, <2>4, NewestAre
<1>5. CASE c <= n
  <2> DEFINE k == n - c + 3
  <2>1. k \in 0 .. Len(new) /\ Len(new) - k = Len(all) - dropped
        /\ Len(new) - k = Len(messages) - n
    BY <1>5, <1>6, <1>7
  <2>2. ASSUME NEW i \in 1 .. k PROVE new[i].id = 0
    <3>1. CASE i \in 1 .. 2
      BY <1>2, <3>1
    <3>2. CASE i \notin 1 .. 2
      <4>1. i \in 3 .. Len(messages) - c + 3 /\ i + c - 3 \in 1 .. n
        BY <1>5, <1>6, <1>7, <3>2
      <4>2. new[i] = messages[i + c - 3]
        BY <1>2, <4>1
      <4>3. messages[i + c - 3].id = 0
        BY <1>3, <4>1
      <4> QED BY <4>2, <4>3
    <3> QED BY <3>1, <3>2
  <2>3. ASSUME NEW i \in 1 .. Len(new) - k
        PROVE  /\ new[k + i].role = all[dropped + i].role
               /\ new[k + i].id = all[dropped + i].id
    <3>1. k + i \in 3 .. Len(messages) - c + 3 /\ (k + i) + c - 3 = n + i
          /\ i \in 1 .. Len(messages) - n
      BY <1>1, <1>2, <1>3, <1>5, <2>1
    <3>2. new[k + i] = messages[n + i]
      BY <1>2, <3>1
    <3> QED BY <1>3, <3>1, <3>2
  <2>4. Len(new) - k = Len(messages) - n
    BY <2>1 DEF k
  <2>5. dropped = 0 \/ Len(new) - k >= least
    BY <1>3, <2>4
  <2> HIDE DEF k
  <2> QED BY <2>1, <2>2, <2>3, <2>5, NewestAre
<1>8. c > n \/ c <= n
  BY <1>6
<1> QED BY <1>4, <1>5, <1>8

\* What is added is complete in itself.
LEMMA AddedAnswered ==
  ASSUME NEW messages \in Seq(Messages), NEW new \in Seq(Messages), ResultsFollow(messages),
         ResultsFollow(new), new # <<>>, new[1].role # "tool"
  PROVE  messages \o new \in Seq(Messages) /\ ResultsFollow(messages \o new)
<1> DEFINE both == messages \o new
           l == Len(messages)
           k == Len(new)
<1>0. l \in Nat /\ k \in Nat /\ k > 0 /\ DOMAIN messages = 1 .. l /\ DOMAIN new = 1 .. k
  OBVIOUS
<1>1. both \in Seq(Messages) /\ Len(both) = l + k /\ DOMAIN both = 1 .. l + k
      /\ (\A i \in 1 .. l : both[i] = messages[i]) /\ (\A i \in 1 .. k : both[l + i] = new[i])
  OBVIOUS
<1> HIDE DEF both, l, k
<1>2. ASSUME NEW i \in 1 .. l
      PROVE  LET m == both[i] IN
             /\ HasCalls(m) =>
                  /\ i + m.calls <= Len(both)
                  /\ \A j \in i + 1 .. i + m.calls : both[j].role = "tool" /\ both[j].id = m.id
                  /\ i + m.calls < Len(both) => both[i + m.calls + 1].role # "tool"
             /\ m.role = "tool" =>
                  \E a \in 1 .. i - 1 : HasCalls(both[a]) /\ i <= a + both[a].calls
  <2> DEFINE n == messages[i].calls
  <2>1. both[i] = messages[i] /\ n \in Nat
    BY <1>0, <1>1, MessageFacts
  <2> HIDE DEF n
  <2>2. ASSUME HasCalls(messages[i])
        PROVE  /\ i + n <= Len(both)
               /\ \A j \in i + 1 .. i + n : both[j].role = "tool" /\ both[j].id = messages[i].id
               /\ i + n < Len(both) => both[i + n + 1].role # "tool"
    <3>1. /\ i + n <= l
          /\ \A j \in i + 1 .. i + n : messages[j].role = "tool" /\ messages[j].id = messages[i].id
          /\ i + n < l => messages[i + n + 1].role # "tool"
      BY <1>0, <2>2 DEF ResultsFollow, n, l
    <3>2. \A j \in i + 1 .. i + n : both[j].role = "tool" /\ both[j].id = messages[i].id
      BY <1>0, <1>1, <2>1, <3>1
    <3>3. CASE i + n < l
      <4>1. i + n + 1 \in 1 .. l
        BY <1>0, <2>1, <3>3
      <4>2. both[i + n + 1] = messages[i + n + 1]
        BY <1>1, <4>1
      <4>3. both[i + n + 1].role # "tool"
        BY <3>1, <3>3, <4>2
      <4>4. i + n <= Len(both)
        BY <1>0, <1>1, <2>1, <3>3
      <4> QED BY <3>2, <4>3, <4>4
    <3>4. CASE i + n = l
      <4>1. both[l + 1] = new[1]
        <5>1. 1 \in 1 .. k
          BY <1>0
        <5>2. \A j \in 1 .. k : both[l + j] = new[j]
          BY <1>1
        <5> QED BY ONLY <5>1, <5>2
      <4>2. both[i + n + 1].role # "tool"
        BY <3>4, <4>1
      <4>3. i + n <= Len(both)
        BY <1>0, <1>1, <2>1, <3>4
      <4> QED BY <3>2, <4>2, <4>3
    <3> QED BY <1>0, <2>1, <3>1, <3>3, <3>4
  <2>3. ASSUME messages[i].role = "tool"
        PROVE  \E a \in 1 .. i - 1 : HasCalls(both[a]) /\ i <= a + both[a].calls
    <3>1. PICK a \in 1 .. i - 1 : HasCalls(messages[a]) /\ i <= a + messages[a].calls
      BY <1>0, <2>3 DEF ResultsFollow
    <3>2. a \in 1 .. l
      BY <1>0
    <3> QED BY <1>1, <3>1, <3>2
  <2> QED BY <2>1, <2>2, <2>3 DEF n
<1>3. ASSUME NEW h \in 1 .. k
      PROVE  /\ HasCalls(both[l + h]) =>
                  /\ l + h + both[l + h].calls <= Len(both)
                  /\ \A j \in l + h + 1 .. l + h + both[l + h].calls :
                       both[j].role = "tool" /\ both[j].id = both[l + h].id
                  /\ l + h + both[l + h].calls < Len(both) =>
                       both[l + h + both[l + h].calls + 1].role # "tool"
             /\ both[l + h].role = "tool" =>
                  \E a \in 1 .. l + h - 1 : HasCalls(both[a]) /\ l + h <= a + both[a].calls
  <2> DEFINE n == new[h].calls
  <2>1. both[l + h] = new[h] /\ n \in Nat
    BY <1>0, <1>1, MessageFacts
  <2> HIDE DEF n
  <2>2. ASSUME HasCalls(new[h])
        PROVE  /\ l + h + n <= Len(both)
               /\ \A j \in l + h + 1 .. l + h + n : both[j].role = "tool" /\ both[j].id = new[h].id
               /\ l + h + n < Len(both) => both[l + h + n + 1].role # "tool"
    <3>1. /\ h + n <= k
          /\ \A j \in h + 1 .. h + n : new[j].role = "tool" /\ new[j].id = new[h].id
          /\ h + n < k => new[h + n + 1].role # "tool"
      BY <1>0, <2>2 DEF ResultsFollow, n, k
    <3>2. ASSUME NEW j \in l + h + 1 .. l + h + n
          PROVE  both[j].role = "tool" /\ both[j].id = new[h].id
      <4>1. j - l \in h + 1 .. h + n /\ j - l \in 1 .. k /\ l + (j - l) = j
        BY <1>0, <2>1, <3>1
      <4>2. both[j] = new[j - l]
        BY <1>1, <4>1
      <4> QED BY <3>1, <4>1, <4>2
    <3>3. ASSUME l + h + n < Len(both) PROVE both[l + h + n + 1].role # "tool"
      <4>1. h + n < k /\ h + n + 1 \in 1 .. k /\ l + (h + n + 1) = l + h + n + 1
        BY <1>0, <1>1, <2>1, <3>3
      <4>2. both[l + h + n + 1] = new[h + n + 1]
        BY <1>1, <4>1
      <4> QED BY <3>1, <4>1, <4>2
    <3>4. l + h + n <= Len(both)
      BY <1>0, <1>1, <2>1, <3>1
    <3> QED BY <3>2, <3>3, <3>4
  <2>3. ASSUME new[h].role = "tool"
        PROVE  \E a \in 1 .. l + h - 1 : HasCalls(both[a]) /\ l + h <= a + both[a].calls
    <3>1. PICK a \in 1 .. h - 1 : HasCalls(new[a]) /\ h <= a + new[a].calls
      BY <1>0, <2>3 DEF ResultsFollow
    <3>2. a \in 1 .. k /\ l + a \in 1 .. l + h - 1 /\ new[a].calls \in Nat
      BY <1>0, MessageFacts
    <3>3. both[l + a] = new[a] /\ l + h <= (l + a) + new[a].calls
      BY <1>0, <1>1, <3>1, <3>2
    <3>4. HasCalls(both[l + a]) /\ l + h <= (l + a) + both[l + a].calls
      BY <3>1, <3>3
    <3> QED BY <3>2, <3>4
  <2>4. both[l + h].role = new[h].role /\ both[l + h].calls = n /\ both[l + h].id = new[h].id
        /\ (HasCalls(both[l + h]) <=> HasCalls(new[h]))
    BY <2>1 DEF n
  <2>5. HasCalls(both[l + h]) =>
          /\ l + h + n <= Len(both)
          /\ \A j \in l + h + 1 .. l + h + n : both[j].role = "tool" /\ both[j].id = both[l + h].id
          /\ l + h + n < Len(both) => both[l + h + n + 1].role # "tool"
    BY <2>2, <2>4
  <2>6. both[l + h].role = "tool" =>
          \E a \in 1 .. l + h - 1 : HasCalls(both[a]) /\ l + h <= a + both[a].calls
    BY <2>3, <2>4
  <2>7. both[l + h].calls = n
    BY <2>4
  <2>8. HasCalls(both[l + h]) =>
          /\ l + h + both[l + h].calls <= Len(both)
          /\ \A j \in l + h + 1 .. l + h + both[l + h].calls :
               both[j].role = "tool" /\ both[j].id = both[l + h].id
          /\ l + h + both[l + h].calls < Len(both) =>
               both[l + h + both[l + h].calls + 1].role # "tool"
    BY ONLY <2>5, <2>7
  <2> QED BY <2>6, <2>8
<1>4. ResultsFollow(both)
  <2> SUFFICES ASSUME NEW i \in 1 .. l + k
               PROVE  LET m == both[i] IN
                      /\ HasCalls(m) =>
                           /\ i + m.calls <= Len(both)
                           /\ \A j \in i + 1 .. i + m.calls :
                                both[j].role = "tool" /\ both[j].id = m.id
                           /\ i + m.calls < Len(both) => both[i + m.calls + 1].role # "tool"
                      /\ m.role = "tool" =>
                           \E a \in 1 .. i - 1 : HasCalls(both[a]) /\ i <= a + both[a].calls
    BY <1>1 DEF ResultsFollow
  <2>1. CASE i \in 1 .. l
    BY <1>2, <2>1
  <2>2. CASE i \notin 1 .. l
    <3>1. PICK h \in 1 .. k : i = l + h
      <4>1. i - l \in 1 .. k /\ i = l + (i - l)
        BY <1>0, <2>2
      <4> QED BY <4>1
    <3>2. HasCalls(both[i]) =>
            /\ i + both[i].calls <= Len(both)
            /\ \A j \in i + 1 .. i + both[i].calls :
                 both[j].role = "tool" /\ both[j].id = both[i].id
            /\ i + both[i].calls < Len(both) => both[i + both[i].calls + 1].role # "tool"
      BY <1>3, <3>1
    <3>3. ASSUME both[i].role = "tool"
          PROVE  \E a \in 1 .. i - 1 : HasCalls(both[a]) /\ i <= a + both[a].calls
      <4>1. PICK a \in 1 .. l + h - 1 : HasCalls(both[a]) /\ l + h <= a + both[a].calls
        BY <1>3, <3>1, <3>3
      <4>2. a \in 1 .. i - 1
        BY <1>0, <3>1, <4>1
      <4>3. i <= a + both[a].calls
        BY ONLY <3>1, <4>1
      <4> QED BY <4>1, <4>2, <4>3
    <3> QED BY <3>2, <3>3
  <2> QED BY <2>1, <2>2
<1> QED BY <1>1, <1>4 DEF both

LEMMA AddedKeeps ==
  ASSUME NEW messages \in Seq(Messages), NEW all \in Seq(Messages), NEW new \in Seq(Messages),
         new # <<>>, NEW least \in Int, least + 1 >= MinRecent, KeepsNewest(messages, all, least)
  PROVE  KeepsNewest(messages \o new, all \o new, MinRecent)
<1> DEFINE both == messages \o new
           whole == all \o new
           l == Len(messages)
           a == Len(all)
           k == Len(new)
<1>0. l \in Nat /\ a \in Nat /\ k \in Nat /\ k >= 1
  OBVIOUS
<1>1. Len(both) = l + k /\ (\A i \in 1 .. l : both[i] = messages[i])
      /\ (\A i \in 1 .. k : both[l + i] = new[i])
  OBVIOUS
<1>2. Len(whole) = a + k /\ (\A i \in 1 .. a : whole[i] = all[i])
      /\ (\A i \in 1 .. k : whole[a + i] = new[i])
  OBVIOUS
<1>3. PICK n \in 0 .. l, dropped \in 0 .. a :
        /\ l - n = a - dropped
        /\ \A i \in 1 .. n : messages[i].id = 0
        /\ \A i \in 1 .. l - n :
             /\ messages[n + i].role = all[dropped + i].role
             /\ messages[n + i].id = all[dropped + i].id
        /\ dropped = 0 \/ l - n >= least
  BY DEF KeepsNewest
<1> HIDE DEF both, whole, l, a, k
<1>8. /\ l - n = a - dropped /\ n \in Nat /\ n <= l /\ dropped \in Nat /\ dropped <= a
      /\ Len(both) = l + k /\ Len(whole) = a + k
  BY <1>0, <1>1, <1>2, <1>3
<1>4. n \in 0 .. Len(both) /\ dropped \in 0 .. Len(whole)
      /\ Len(both) - n = Len(whole) - dropped /\ Len(both) - n >= l - n + 1
  BY <1>0, <1>8
<1>9. dropped = 0 \/ Len(both) - n >= MinRecent
  <2>1. MinRecent \in Nat
    BY ContextAssumption
  <2>2. dropped = 0 \/ l - n >= least
    BY <1>3
  <2> QED BY <1>0, <1>4, <1>8, <2>1, <2>2
<1>5. ASSUME NEW i \in 1 .. n PROVE both[i].id = 0
  <2>1. i \in 1 .. l
    BY <1>0, <1>8
  <2> QED BY <1>1, <1>3, <2>1
<1>6. ASSUME NEW i \in 1 .. Len(both) - n
      PROVE  /\ both[n + i].role = whole[dropped + i].role
             /\ both[n + i].id = whole[dropped + i].id
  <2>1. CASE i <= l - n
    <3>1. i \in 1 .. l - n /\ n + i \in 1 .. l /\ dropped + i \in 1 .. a
      BY <1>0, <1>8, <2>1
    <3>2. both[n + i] = messages[n + i] /\ whole[dropped + i] = all[dropped + i]
      BY <1>1, <1>2, <3>1
    <3> QED BY <1>3, <3>1, <3>2
  <2>2. CASE i > l - n
    <3>1. n + i - l \in 1 .. k /\ l + (n + i - l) = n + i /\ a + (n + i - l) = dropped + i
      BY <1>0, <1>8, <2>2
    <3>2. both[n + i] = new[n + i - l] /\ whole[dropped + i] = new[n + i - l]
      BY <1>1, <1>2, <3>1
    <3> QED BY <3>2
  <2>3. i <= l - n \/ i > l - n
    BY <1>0, <1>8
  <2> QED BY <2>1, <2>2, <2>3
<1>7. KeepsNewest(both, whole, MinRecent)
  BY <1>4, <1>5, <1>6, <1>9, NewestAre
<1> QED BY <1>7 DEF both, whole

\* A question, an answer, or calls with their results.
LEMMA OneIsAnswered ==
  ASSUME NEW m \in Messages, m.role # "tool", ~ HasCalls(m)
  PROVE  /\ <<m>> \in Seq(Messages) /\ <<m>> # <<>> /\ <<m>>[1].role # "tool"
         /\ ResultsFollow(<<m>>)
<1>1. DOMAIN <<m>> = {1} /\ <<m>>[1] = m /\ <<m>> \in Seq(Messages)
  OBVIOUS
<1> DEFINE one == <<m>>
<1>2. ResultsFollow(one)
  <2> HIDE DEF one
  <2>1. DOMAIN one = {1} /\ one[1] = m
    BY <1>1 DEF one
  <2> QED BY <2>1 DEF ResultsFollow
<1> QED BY <1>1, <1>2

LEMMA CallsAreAnswered ==
  ASSUME NEW asked \in Messages, NEW results \in Seq(Messages), asked.role = "assistant",
         asked.calls = Len(results),
         \A i \in 1 .. Len(results) : results[i].role = "tool" /\ results[i].id = asked.id
  PROVE  LET block == <<asked>> \o results IN
         block \in Seq(Messages) /\ block # <<>> /\ block[1].role # "tool" /\ ResultsFollow(block)
<1> DEFINE block == <<asked>> \o results
           k == Len(results)
<1>0. k \in Nat
  OBVIOUS
<1>1. /\ block \in Seq(Messages) /\ Len(block) = k + 1 /\ block[1] = asked
      /\ \A i \in 2 .. k + 1 : block[i] = results[i - 1]
  OBVIOUS
<1>2. asked.calls = k /\ \A i \in 1 .. k : results[i].role = "tool" /\ results[i].id = asked.id
  OBVIOUS
<1>3. DOMAIN block = 1 .. k + 1 /\ block # <<>>
  BY <1>0, <1>1
<1> HIDE DEF block, k
<1>4. ASSUME NEW i \in 2 .. k + 1
      PROVE  block[i].role = "tool" /\ block[i].id = asked.id /\ ~ HasCalls(block[i])
  <2>1. i - 1 \in 1 .. k
    BY <1>0
  <2>2. block[i].role = "tool" /\ block[i].id = asked.id
    BY <1>1, <1>2, <2>1
  <2> QED BY <2>2 DEF HasCalls
<1>5. ResultsFollow(block)
  <2> SUFFICES ASSUME NEW i \in 1 .. k + 1
               PROVE  /\ HasCalls(block[i]) =>
                           /\ i + block[i].calls <= Len(block)
                           /\ \A j \in i + 1 .. i + block[i].calls :
                                block[j].role = "tool" /\ block[j].id = block[i].id
                           /\ i + block[i].calls < Len(block) =>
                                block[i + block[i].calls + 1].role # "tool"
                      /\ block[i].role = "tool" =>
                           \E a \in 1 .. i - 1 : HasCalls(block[a]) /\ i <= a + block[a].calls
    BY <1>3 DEF ResultsFollow
  <2>1. CASE i = 1
    <3>1. /\ block[1].calls = k /\ block[1].role = "assistant" /\ block[1].id = asked.id
      BY <1>1, <1>2
    <3>2. /\ 1 + k <= Len(block) /\ ~ (1 + k < Len(block))
          /\ \A j \in 1 + 1 .. 1 + k : j \in 2 .. k + 1
      BY <1>0, <1>1
    <3> QED BY <1>4, <2>1, <3>1, <3>2
  <2>2. CASE i # 1
    <3>1. i \in 2 .. k + 1
      BY <1>0, <2>2
    <3>2. k > 0 /\ 1 \in 1 .. i - 1 /\ i <= 1 + k
      BY <1>0, <3>1
    <3>3. HasCalls(block[1]) /\ block[1].calls = k
      BY <1>1, <1>2, <3>2 DEF HasCalls
    <3>4. i <= 1 + block[1].calls
      BY <3>2, <3>3
    <3> QED BY <1>4, <3>1, <3>2, <3>3, <3>4
  <2> QED BY <2>1, <2>2
<1>6. block[1].role # "tool"
  BY <1>1
<1> QED BY <1>1, <1>3, <1>5, <1>6 DEF block

LEMMA LeastIs ==
  ASSUME ContextInv
  PROVE  /\ MinRecent \in Nat /\ Least \in Int
         /\ Least <= MinRecent /\ Least + 1 >= MinRecent
         /\ KeepsNewest(history, said, Least)
<1>1. MinRecent \in Nat
  BY ContextAssumption
<1> QED BY <1>1 DEF Least, ContextInv, RecentIsKept

LEMMA AddKeeps ==
  ASSUME ContextInv, NEW new \in Seq(Messages), new # <<>>, new[1].role # "tool",
         new[Len(new)].id # 0, ResultsFollow(new), Add(new), stage' \in Stages
  PROVE  ContextInv'
<1>1. history' = history \o new /\ said' = said \o new
  BY DEF Add
<1>2. said \o new \in Seq(Messages)
  BY Joined DEF ContextInv, ContextShape
<1>3. history \o new \in Seq(Messages) /\ ResultsFollow(history \o new)
  BY AddedAnswered DEF ContextInv, ContextShape
<1>4. KeepsNewest(history \o new, said \o new, MinRecent)
  <2>1. history \in Seq(Messages) /\ said \in Seq(Messages)
    BY DEF ContextInv, ContextShape
  <2> QED BY <2>1, LeastIs, AddedKeeps
<1>5. ResultsFollow(history')
  BY <1>1, <1>3
<1>6. KeepsNewest(history', said', MinRecent) /\ KeepsNewest(history', said', MinRecent - 1)
  <2>1. MinRecent \in Int /\ MinRecent - 1 \in Int /\ MinRecent - 1 <= MinRecent
    BY ContextAssumption
  <2> QED BY <1>1, <1>2, <1>3, <1>4, <2>1, FewerAre
<1>7. history' # <<>> /\ history'[Len(history')].id # 0
  <2>1. history \in Seq(Messages)
    BY DEF ContextInv, ContextShape
  <2>2. Len(history \o new) = Len(history) + Len(new) /\ Len(new) \in Nat \ {0}
        /\ (history \o new)[Len(history) + Len(new)] = new[Len(new)]
    BY <2>1
  <2> QED BY <1>1, <2>1, <2>2
<1> QED BY <1>1, <1>2, <1>3, <1>5, <1>6, <1>7
        DEF ContextInv, ContextShape, RecentIsKept, LastIsSaid

\* The history after Prepare or ManualCompact: alike, or summarized.
LEMMA ReplacedKeeps ==
  ASSUME ContextInv, NEW messages \in Seq(Messages), Alike(messages, history),
         \/ history' = messages
         \/ history' = Summarized(messages) /\ FirstRecent(messages) # 1,
         said' = said, stage' \in Stages, stage' = "idle" <=> stage = "idle"
  PROVE  ContextInv'
<1>1. ResultsFollow(messages)
  BY AlikeAnswered DEF ContextInv, ContextShape
<1>2. KeepsNewest(messages, said, Least)
  <2>1. Len(history) \in Nat
    BY DEF ContextInv, ContextShape
  <2> QED BY <2>1, LeastIs, AlikeKeeps
<1>3. stage # "idle" => messages # <<>> /\ messages[Len(messages)].id # 0
  <2>1. Len(messages) = Len(history) /\ history \in Seq(Messages)
    BY DEF Alike, ContextInv, ContextShape
  <2> QED BY <2>1 DEF Alike, ContextInv, LastIsSaid
<1>4. Least' = Least
  BY DEF Least
<1>5. CASE history' = messages
  <2>1. KeepsNewest(history', said', Least')
    BY <1>2, <1>4, <1>5
  <2> QED BY <1>1, <1>3, <1>5, <2>1
          DEF ContextInv, ContextShape, RecentIsKept, Least, LastIsSaid
<1>6. CASE history' = Summarized(messages) /\ FirstRecent(messages) # 1
  <2>1. Summarized(messages) \in Seq(Messages) /\ ResultsFollow(Summarized(messages))
    BY <1>1, <1>6, SummarizedAnswered
  <2>2. KeepsNewest(Summarized(messages), said, Least)
    BY <1>2, <1>6, SummarizedKeeps, LeastIs DEF ContextInv, ContextShape
  <2>3. KeepsNewest(history', said', Least')
    BY <1>4, <1>6, <2>2
  <2> DEFINE new == Summarized(messages)
             c == FirstRecent(messages)
  <2>4. new # <<>> /\ new[Len(new)] = messages[Len(messages)]
    <3>1. c \in 1 .. Len(messages) /\ Len(messages) \in Nat
      BY <1>6, CutFacts
    <3> HIDE DEF c
    <3>2. /\ new \in Seq(Messages) /\ Len(new) = Len(messages) - c + 3
          /\ \A i \in 3 .. Len(messages) - c + 3 : new[i] = messages[i + c - 3]
      BY <3>1, SummarizedIs DEF c
    <3> HIDE DEF new
    <3>3. /\ Len(messages) - c + 3 \in 3 .. Len(messages) - c + 3
          /\ (Len(messages) - c + 3) + c - 3 = Len(messages)
      BY <3>1
    <3> QED BY <3>2, <3>3
  <2> QED BY <1>3, <1>6, <2>1, <2>3, <2>4
          DEF ContextInv, ContextShape, RecentIsKept, Least, LastIsSaid
<1> QED BY <1>5, <1>6

LEMMA SummarizeIs ==
  ASSUME NEW messages \in Seq(Messages), NEW manual \in BOOLEAN, NEW next,
         Summarize(messages, manual, next)
  PROVE  /\ \/ history' = messages
            \/ history' = Summarized(messages) /\ FirstRecent(messages) # 1
         /\ stage' \in {next, IF manual THEN "idle" ELSE "failed"}
BY DEF Summarize, NothingToSummarize

LEMMA AlikeItself ==
  ASSUME NEW messages PROVE Alike(messages, messages)
BY DEF Alike

\* Each action keeps the invariant.
LEMMA PrepareKeeps ==
  ASSUME ContextInv, Prepare PROVE ContextInv'
<1> DEFINE messages == CompactGroups
<1>1. messages \in Seq(Messages) /\ Alike(messages, history)
  BY CompactedIsAlike DEF ContextInv, ContextShape
<1>2. \/ history' = messages /\ stage' = "request"
      \/ Summarize(messages, FALSE, "request")
  BY DEF Prepare
<1>3. said' = said /\ stage # "idle"
  BY DEF Prepare
<1> HIDE DEF messages
<1>4. CASE history' = messages /\ stage' = "request"
  <2>1. stage' \in Stages
    BY <1>4 DEF Stages
  <2> QED BY <1>1, <1>3, <1>4, <2>1, ReplacedKeeps
<1>5. CASE Summarize(messages, FALSE, "request")
  <2>1. /\ \/ history' = messages
           \/ history' = Summarized(messages) /\ FirstRecent(messages) # 1
        /\ stage' \in {"request", "failed"}
    BY <1>1, <1>5, SummarizeIs
  <2>2. stage' \in Stages /\ stage' # "idle"
    BY <2>1 DEF Stages
  <2> QED BY <1>1, <1>3, <2>1, <2>2, ReplacedKeeps
<1> QED BY <1>2, <1>4, <1>5

LEMMA ManualCompactKeeps ==
  ASSUME ContextInv, ManualCompact PROVE ContextInv'
<1>1. CompactGroups \in Seq(Messages) /\ Alike(CompactGroups, history)
  BY CompactedIsAlike DEF ContextInv, ContextShape
<1>2. history \in Seq(Messages) /\ Alike(history, history)
  BY AlikeItself DEF ContextInv, ContextShape
<1>3. said' = said /\ stage = "idle"
  BY DEF ManualCompact
<1>4. CASE CompactGroups # history
  <2>1. history' = CompactGroups /\ stage' = "idle" /\ stage' \in Stages
    BY <1>3, <1>4 DEF ManualCompact, Stages
  <2> QED BY <1>1, <1>3, <2>1, ReplacedKeeps
<1>5. CASE CompactGroups = history
  <2>1. Summarize(history, TRUE, "idle")
    BY <1>5 DEF ManualCompact
  <2>2. /\ \/ history' = history
           \/ history' = Summarized(history) /\ FirstRecent(history) # 1
        /\ stage' \in {"idle"}
    BY <1>2, <2>1, SummarizeIs
  <2>3. stage' \in Stages /\ stage' = "idle"
    BY <2>2 DEF Stages
  <2> QED BY <1>2, <1>3, <2>2, <2>3, ReplacedKeeps
<1> QED BY <1>4, <1>5

LEMMA UserSaysKeeps ==
  ASSUME ContextInv, NEW size \in Size, UserSays(size) PROVE ContextInv'
<1> DEFINE m == Message("user", Len(said) + 1, 0, size)
<1>1. m \in Messages /\ m.role = "user" /\ m.calls = 0 /\ m.id = Len(said) + 1
  <2>1. Len(said) + 1 \in Nat /\ size \in Nat
    BY ContextAssumption DEF ContextInv, ContextShape
  <2>2. "user" \in {"user", "assistant", "tool"} /\ 0 \in Nat
    OBVIOUS
  <2> HIDE DEF m
  <2> QED BY <2>1, <2>2, MessageIsMessage DEF m
<1>2. Add(<<m>>) /\ stage' \in Stages
  BY DEF UserSays, GoesTo, Stages
<1> HIDE DEF m
<1>3. m.role # "tool" /\ ~ HasCalls(m)
  BY <1>1 DEF HasCalls
<1>4. <<m>> \in Seq(Messages) /\ <<m>> # <<>> /\ <<m>>[1].role # "tool" /\ ResultsFollow(<<m>>)
  BY <1>1, <1>3, OneIsAnswered
<1>5. Len(<<m>>) = 1 /\ <<m>>[1].id # 0
  BY <1>1 DEF ContextInv, ContextShape
<1> QED BY <1>2, <1>4, <1>5, AddKeeps

LEMMA EmptyResponseKeeps ==
  ASSUME ContextInv, EmptyResponse PROVE ContextInv'
<1> DEFINE m == Message("user", Len(said) + 1, 0, 1)
<1>1. m \in Messages /\ m.role = "user" /\ m.calls = 0 /\ m.id = Len(said) + 1
  <2>1. Len(said) + 1 \in Nat
    BY DEF ContextInv, ContextShape
  <2>2. "user" \in {"user", "assistant", "tool"} /\ 0 \in Nat /\ 1 \in Nat
    OBVIOUS
  <2> HIDE DEF m
  <2> QED BY <2>1, <2>2, MessageIsMessage DEF m
<1>2. Add(<<m>>) /\ stage' \in Stages
  BY DEF EmptyResponse, GoesTo, Stages
<1> HIDE DEF m
<1>3. m.role # "tool" /\ ~ HasCalls(m)
  BY <1>1 DEF HasCalls
<1>4. <<m>> \in Seq(Messages) /\ <<m>> # <<>> /\ <<m>>[1].role # "tool" /\ ResultsFollow(<<m>>)
  BY <1>1, <1>3, OneIsAnswered
<1>5. Len(<<m>>) = 1 /\ <<m>>[1].id # 0
  BY <1>1 DEF ContextInv, ContextShape
<1> QED BY <1>2, <1>4, <1>5, AddKeeps

LEMMA ResultIs ==
  ASSUME NEW id \in Nat, NEW size \in Nat
  PROVE  LET m == CompactResult(Message("tool", id, 0, size)) IN
         m \in Messages /\ m.role = "tool" /\ m.id = id
<1> DEFINE m == Message("tool", id, 0, size)
<1>1. "tool" \in {"user", "assistant", "tool"} /\ 0 \in Nat
  OBVIOUS
<1>2. m \in Messages /\ m.role = "tool" /\ m.id = id
  BY <1>1, MessageIsMessage
<1> HIDE DEF m
<1>3. CompactResult(m) \in Messages /\ CompactResult(m).role = "tool"
      /\ CompactResult(m).id = id
  BY <1>2, SpillKeeps DEF CompactResult
<1> QED BY <1>3 DEF m

LEMMA RespondKeeps ==
  ASSUME ContextInv, NEW results \in SeqOf(Size, MaxResults), Respond(results)
  PROVE  ContextInv'
<1>1. results \in Seq(Nat)
  <2>1. PICK m \in 0 .. MaxResults : results \in [1 .. m -> Size]
    BY DEF SeqOf
  <2>2. m \in Nat /\ Size \subseteq Nat
    BY <2>1, ContextAssumption
  <2>3. results = [i \in 1 .. m |-> results[i]] /\ \A i \in 1 .. m : results[i] \in Nat
    BY <2>1, <2>2
  <2>4. [i \in 1 .. m |-> results[i]] \in Seq(Nat)
    BY <2>2, <2>3
  <2> QED BY <2>3, <2>4
<1> DEFINE id == Len(said) + 1
           asked == Message("assistant", id, Len(results), 1)
           Result(i) == Message("tool", id, 0, results[i])
           compacted == [i \in 1 .. Len(results) |-> CompactResult(Result(i))]
<1>2. Add(<<asked>> \o compacted) /\ stage' \in Stages
  <2>1. DOMAIN results = 1 .. Len(results)
    BY <1>1
  <2> QED BY <2>1 DEF Respond, GoesTo, Stages
<1>3. id \in Nat /\ Len(results) \in Nat /\ id # 0
  BY <1>1 DEF ContextInv, ContextShape
<1> HIDE DEF id
<1>4. asked \in Messages /\ asked.role = "assistant" /\ asked.calls = Len(results)
      /\ asked.id = id
  <2>1. "assistant" \in {"user", "assistant", "tool"} /\ 1 \in Nat
    OBVIOUS
  <2> HIDE DEF asked
  <2> QED BY <1>3, <2>1, MessageIsMessage DEF asked
<1> HIDE DEF asked
<1>5. ASSUME NEW i \in 1 .. Len(results)
      PROVE  /\ CompactResult(Result(i)) \in Messages
             /\ CompactResult(Result(i)).role = "tool"
             /\ CompactResult(Result(i)).id = id
  <2>1. results[i] \in Nat
    BY <1>1
  <2> QED BY <1>3, <2>1, ResultIs
<1> HIDE DEF Result
<1>6. compacted \in Seq(Messages) /\ Len(compacted) = Len(results)
      /\ \A i \in 1 .. Len(results) : compacted[i].role = "tool" /\ compacted[i].id = id
  BY <1>3, <1>5
<1> HIDE DEF compacted
<1> DEFINE block == <<asked>> \o compacted
<1>7. block \in Seq(Messages) /\ block # <<>> /\ block[1].role # "tool" /\ ResultsFollow(block)
  BY <1>4, <1>6, CallsAreAnswered
<1>8. Add(block)
  BY <1>2
<1>9. block[Len(block)].id # 0
  <2>1. Len(block) = 1 + Len(results) /\ block[1] = asked
        /\ \A i \in 1 .. Len(results) : block[1 + i] = compacted[i]
    BY <1>3, <1>4, <1>6
  <2>2. CASE Len(results) = 0
    BY <1>3, <1>4, <2>1, <2>2
  <2>3. CASE Len(results) # 0
    <3>1. Len(results) \in 1 .. Len(results)
      BY <1>3, <2>3
    <3> QED BY <1>3, <1>6, <2>1, <3>1
  <2> QED BY <2>2, <2>3
<1> HIDE DEF block
<1> QED BY <1>2, <1>7, <1>8, <1>9, AddKeeps

LEMMA FrontIs ==
  ASSUME NEW messages \in Seq(Messages), Len(messages) >= 1
  PROVE  /\ Front(messages) \in Seq(Messages) /\ Len(Front(messages)) = Len(messages) - 1
         /\ \A i \in 1 .. Len(messages) - 1 : Front(messages)[i] = messages[i]
<1> DEFINE l == Len(messages)
<1>1. l \in Nat /\ l >= 1 /\ l - 1 \in Int /\ 1 \in Int
      /\ \A i \in 1 .. l - 1 : messages[i] \in Messages
  OBVIOUS
<1> DEFINE front == SubSeq(messages, 1, l - 1)
<1>2. /\ front \in Seq(Messages)
      /\ Len(front) = IF 1 <= l - 1 THEN (l - 1) - 1 + 1 ELSE 0
      /\ \A i \in 1 .. (l - 1) - 1 + 1 : front[i] = messages[1 + i - 1]
  BY <1>1, SubSeqProperties
<1>3. Front(messages) = front
  BY DEF Front
<1> HIDE DEF front, l
<1>4. Len(front) = l - 1 /\ (l - 1) - 1 + 1 = l - 1
  <2>1. CASE l = 1
    BY <1>2, <2>1
  <2>2. CASE l >= 2
    BY <1>1, <1>2, <2>2
  <2> QED BY <1>1, <2>1, <2>2
<1>5. ASSUME NEW i \in 1 .. l - 1 PROVE front[i] = messages[i]
  <2>1. 1 + i - 1 = i /\ i \in 1 .. (l - 1) - 1 + 1
    BY <1>1, <1>4
  <2> QED BY <1>2, <2>1
<1> QED BY <1>2, <1>3, <1>4, <1>5 DEF l

\* Without its newest message, a user's, the history is still answered, and the
\* newest of what is left of what was said.
LEMMA FrontKeeps ==
  ASSUME NEW messages \in Seq(Messages), NEW all \in Seq(Messages), messages # <<>>,
         messages[Len(messages)].role = "user", messages[Len(messages)].id # 0,
         ResultsFollow(messages), KeepsNewest(messages, all, MinRecent)
  PROVE  /\ Front(messages) \in Seq(Messages) /\ Front(all) \in Seq(Messages)
         /\ ResultsFollow(Front(messages))
         /\ KeepsNewest(Front(messages), Front(all), MinRecent - 1)
<1> DEFINE less == Front(messages)
           few == Front(all)
           l == Len(messages)
<1>1. l \in Nat /\ l >= 1 /\ Len(all) \in Nat
  OBVIOUS
<1>2. PICK n \in 0 .. l, dropped \in 0 .. Len(all) :
        /\ l - n = Len(all) - dropped
        /\ \A i \in 1 .. n : messages[i].id = 0
        /\ \A i \in 1 .. l - n : /\ messages[n + i].role = all[dropped + i].role
                                  /\ messages[n + i].id = all[dropped + i].id
        /\ dropped = 0 \/ l - n >= MinRecent
  BY DEF KeepsNewest
<1>3. n < l /\ dropped < Len(all) /\ Len(all) >= 1
  BY <1>1, <1>2
<1>4. /\ less \in Seq(Messages) /\ Len(less) = l - 1
      /\ \A i \in 1 .. l - 1 : less[i] = messages[i]
  BY <1>1, FrontIs
<1>5. /\ few \in Seq(Messages) /\ Len(few) = Len(all) - 1
      /\ \A i \in 1 .. Len(all) - 1 : few[i] = all[i]
  BY <1>1, <1>3, FrontIs
<1> HIDE DEF less, few
<1>8. /\ l - n = Len(all) - dropped /\ n \in Nat /\ dropped \in Nat
      /\ Len(less) = l - 1 /\ Len(few) = Len(all) - 1
  BY <1>1, <1>2, <1>4, <1>5
<1>6. KeepsNewest(less, few, MinRecent - 1)
  <2> HIDE DEF l
  <2>1. n \in 0 .. Len(less) /\ dropped \in 0 .. Len(few)
        /\ Len(less) - n = Len(few) - dropped /\ Len(less) - n = l - n - 1
    BY <1>1, <1>3, <1>8
  <2>2. \A i \in 1 .. n : less[i].id = 0
    BY <1>1, <1>2, <1>3, <1>4
  <2>3. ASSUME NEW i \in 1 .. Len(less) - n
        PROVE  less[n + i].role = few[dropped + i].role /\ less[n + i].id = few[dropped + i].id
    <3>1. i \in 1 .. l - n /\ n + i \in 1 .. l - 1 /\ dropped + i \in 1 .. Len(all) - 1
      BY <1>1, <1>3, <1>8
    <3>2. less[n + i] = messages[n + i] /\ few[dropped + i] = all[dropped + i]
      BY <1>4, <1>5, <3>1
    <3> QED BY <1>2, <3>1, <3>2
  <2>4. dropped = 0 \/ Len(less) - n >= MinRecent - 1
    <3>1. MinRecent \in Nat
      BY ContextAssumption
    <3> QED BY <1>1, <1>2, <2>1, <3>1
  <2> QED BY <2>1, <2>2, <2>3, <2>4, NewestAre
<1>7. ResultsFollow(less)
  <2> SUFFICES ASSUME NEW i \in 1 .. l - 1
               PROVE  LET m == less[i] IN
                      /\ HasCalls(m) =>
                           /\ i + m.calls <= l - 1
                           /\ \A j \in i + 1 .. i + m.calls :
                                less[j].role = "tool" /\ less[j].id = m.id
                           /\ i + m.calls < l - 1 => less[i + m.calls + 1].role # "tool"
                      /\ m.role = "tool" =>
                           \E a \in 1 .. i - 1 : HasCalls(less[a]) /\ i <= a + less[a].calls
    <3>1. DOMAIN less = 1 .. l - 1
      BY <1>4
    <3> QED BY <1>4, <3>1 DEF ResultsFollow
  <2> DEFINE m == less[i]
  <2>1. m = messages[i] /\ i \in 1 .. l /\ m.calls \in Nat
    <3>1. i \in 1 .. l /\ l = Len(messages)
      BY <1>1
    <3>2. m = messages[i]
      BY <1>4
    <3>3. messages[i] \in Messages
      BY <3>1, ElementOfSeq
    <3> HIDE DEF m
    <3> QED BY <3>1, <3>2, <3>3, MessageFacts
  <2>2. ASSUME HasCalls(m)
        PROVE  /\ i + m.calls <= l - 1
               /\ \A j \in i + 1 .. i + m.calls : less[j].role = "tool" /\ less[j].id = m.id
               /\ i + m.calls < l - 1 => less[i + m.calls + 1].role # "tool"
    <3>1. /\ i + m.calls <= l
          /\ \A j \in i + 1 .. i + m.calls : messages[j].role = "tool" /\ messages[j].id = m.id
          /\ i + m.calls < l => messages[i + m.calls + 1].role # "tool"
      BY <2>1, <2>2 DEF ResultsFollow
    <3>2. i + m.calls # l
      <4>1. ASSUME i + m.calls = l PROVE FALSE
        <5>1. l \in i + 1 .. i + m.calls
          BY <1>1, <2>1, <4>1
        <5> QED BY <3>1, <5>1
      <4> QED BY <4>1
    <3> HIDE DEF m
    <3>3. i + m.calls <= l - 1
      BY <1>1, <2>1, <3>1, <3>2
    <3>4. ASSUME NEW j \in i + 1 .. i + m.calls
          PROVE  less[j].role = "tool" /\ less[j].id = m.id
      <4>1. j \in 1 .. l - 1
        BY <1>1, <2>1, <3>3
      <4> QED BY <1>4, <3>1, <4>1
    <3>5. ASSUME i + m.calls < l - 1 PROVE less[i + m.calls + 1].role # "tool"
      <4>1. i + m.calls + 1 \in 1 .. l - 1 /\ i + m.calls < l
        BY <1>1, <2>1, <3>5
      <4> QED BY <1>4, <3>1, <4>1
    <3> QED BY <3>3, <3>4, <3>5
  <2>3. ASSUME m.role = "tool"
        PROVE  \E a \in 1 .. i - 1 : HasCalls(less[a]) /\ i <= a + less[a].calls
    <3>1. PICK a \in 1 .. i - 1 : HasCalls(messages[a]) /\ i <= a + messages[a].calls
      BY <2>1, <2>3 DEF ResultsFollow
    <3>2. less[a] = messages[a]
      BY <1>1, <1>4
    <3> QED BY <3>1, <3>2
  <2> QED BY <2>2, <2>3
<1> QED BY <1>4, <1>5, <1>6, <1>7 DEF less, few

LEMMA TakeBackKeeps ==
  ASSUME ContextInv, TakeBack PROVE ContextInv'
<1>1. stage = "failed" /\ stage' = "idle" /\ stage' \in Stages
  BY DEF TakeBack, GoesTo, Stages
<1>2. history # <<>> /\ history[Len(history)].id # 0
      /\ history \in Seq(Messages) /\ said \in Seq(Messages) /\ ResultsFollow(history)
      /\ KeepsNewest(history, said, MinRecent)
  BY <1>1 DEF ContextInv, ContextShape, LastIsSaid, RecentIsKept
<1>3. CASE history' = history /\ said' = said
  <2>1. MinRecent \in Int /\ MinRecent - 1 \in Int /\ MinRecent - 1 <= MinRecent
    BY ContextAssumption
  <2>2. KeepsNewest(history, said, MinRecent - 1)
    BY <1>2, <2>1, FewerAre
  <2> QED BY <1>1, <1>2, <1>3, <2>2
          DEF ContextInv, ContextShape, RecentIsKept, LastIsSaid
<1>4. CASE /\ history[Len(history)].role = "user"
           /\ history' = Front(history) /\ said' = Front(said)
  <2>1. /\ Front(history) \in Seq(Messages) /\ Front(said) \in Seq(Messages)
        /\ ResultsFollow(Front(history))
        /\ KeepsNewest(Front(history), Front(said), MinRecent - 1)
    BY <1>2, <1>4, FrontKeeps
  <2> QED BY <1>1, <1>4, <2>1 DEF ContextInv, ContextShape, RecentIsKept, LastIsSaid
<1> QED BY <1>3, <1>4 DEF TakeBack, Last

LEMMA ContextOthersKeep ==
  ASSUME ContextInv, Reset \/ RequestFails \/ PrepareFails \/ UNCHANGED contextVars
  PROVE  ContextInv'
<1>1. CASE Reset
  <2>1. history' = <<>> /\ said' = <<>> /\ stage' = stage /\ stage = "idle"
    BY <1>1 DEF Reset
  <2>2. ResultsFollow(<<>>) /\ <<>> \in Seq(Messages)
    BY DEF ResultsFollow
  <2>3. KeepsNewest(<<>>, <<>>, MinRecent - 1)
    <3>1. Len(<<>>) = 0
      OBVIOUS
    <3> QED BY <3>1 DEF KeepsNewest
  <2> QED BY <2>1, <2>2, <2>3 DEF ContextInv, ContextShape, RecentIsKept, LastIsSaid
<1>2. CASE RequestFails \/ PrepareFails \/ UNCHANGED contextVars
  <2>1. history' = history /\ said' = said /\ stage' \in Stages
        /\ (stage' = "idle" <=> stage = "idle")
    BY <1>2 DEF RequestFails, PrepareFails, contextVars, Stages, ContextInv, ContextShape
  <2> QED BY <2>1 DEF ContextInv, ContextShape, RecentIsKept, LastIsSaid
<1> QED BY <1>1, <1>2

\* What is resumed is all that was said.
LEMMA ContextStarts ==
  ContextInit => ContextInv
<1> SUFFICES ASSUME ContextInit PROVE ContextInv
  OBVIOUS
<1>1. history \in Seq(Messages) /\ ResultsFollow(history) /\ said = history /\ stage = "idle"
  BY ContextAssumption DEF ContextInit
<1>2. KeepsNewest(history, history, MinRecent - 1)
  <2>1. Len(history) \in Nat
    BY <1>1
  <2>2. 0 \in 0 .. Len(history) /\ \A i \in 1 .. 0 : history[i].id = 0
    BY <2>1
  <2> QED BY <2>1, <2>2, NewestAre
<1> QED BY <1>1, <1>2 DEF ContextInv, ContextShape, RecentIsKept, LastIsSaid, Stages

LEMMA ContextSteps ==
  ContextInv /\ [ContextNext]_contextVars => ContextInv'
<1> SUFFICES ASSUME ContextInv, [ContextNext]_contextVars PROVE ContextInv'
  OBVIOUS
<1>1. CASE Prepare
  BY <1>1, PrepareKeeps
<1>2. CASE ManualCompact
  BY <1>2, ManualCompactKeeps
<1>3. CASE EmptyResponse
  BY <1>3, EmptyResponseKeeps
<1>4. CASE Reset \/ RequestFails \/ PrepareFails \/ UNCHANGED contextVars
  BY <1>4, ContextOthersKeep
<1>7. CASE TakeBack
  BY <1>7, TakeBackKeeps
<1>5. CASE \E size \in Size : UserSays(size)
  BY <1>5, UserSaysKeeps
<1>6. CASE \E results \in SeqOf(Size, MaxResults) : Respond(results)
  BY <1>6, RespondKeeps
<1> QED BY <1>1, <1>2, <1>3, <1>4, <1>5, <1>6, <1>7 DEF ContextNext

LEMMA ContextInvariant ==
  ContextSpec => []ContextInv
<1>1. ContextInit => ContextInv
  BY ContextStarts
<1>2. ContextInv /\ [ContextNext]_contextVars => ContextInv'
  BY ContextSteps
<1> QED BY <1>1, <1>2, PTL DEF ContextSpec

\* context/summary.py: whatever the failures of summaries and the fuse, and
\* however many messages, the newest messages are all there, or enough.
THEOREM RecentIsKeptTheorem ==
  ContextSpec => []RecentIsKept
<1>1. ContextInv => RecentIsKept
  BY DEF ContextInv
<1> QED BY <1>1, ContextInvariant, PTL

\* A group is the calls' results, all of them and nothing else.
LEMMA GroupIsResults ==
  ASSUME history \in Seq(Messages), ResultsFollow(history), NEW a \in 1 .. Len(history),
         HasCalls(history[a])
  PROVE  Group(a) = a + 1 .. a + history[a].calls
<1> DEFINE n == history[a].calls
           l == Len(history)
<1>1. n \in Nat /\ l \in Nat
  BY MessageFacts
<1>2. /\ a + n <= l
      /\ \A j \in a + 1 .. a + n : history[j].role = "tool"
      /\ a + n < l => history[a + n + 1].role # "tool"
  BY DEF ResultsFollow
<1> HIDE DEF n
<1>3. ASSUME NEW i \in a + 1 .. a + n PROVE i \in Group(a)
  <2>1. a + n <= l /\ a \in Nat
    BY <1>2
  <2>2. i \in a + 1 .. l /\ \A j \in a + 1 .. i : j \in a + 1 .. a + n
    <3> HIDE DEF l
    <3> QED BY <1>1, <2>1
  <2> QED BY <1>2, <2>2 DEF Group
<1>4. ASSUME NEW i \in Group(a) PROVE i \in a + 1 .. a + n
  <2>1. i \in a + 1 .. l /\ \A j \in a + 1 .. i : history[j].role = "tool"
    BY DEF Group
  <2>2. CASE i > a + n
    <3>1. a + n < l /\ a + n + 1 \in a + 1 .. i
      BY <1>1, <2>1, <2>2
    <3> QED BY <1>2, <2>1, <3>1
  <2>3. CASE i <= a + n
    BY <1>1, <2>1, <2>3
  <2> QED BY <1>1, <2>1, <2>2, <2>3
<1>5. Group(a) = a + 1 .. a + n
  BY <1>3, <1>4
<1> QED BY <1>5 DEF n

\* context/summary.py and light.py: a request never has a call without its
\* results, nor a result without its call.
THEOREM RequestKeepsPairsTheorem ==
  ContextSpec => []RequestKeepsPairs
<1>1. ContextInv => RequestKeepsPairs
  <2> SUFFICES ASSUME ContextInv, NEW i \in DOMAIN history
               PROVE  /\ HasCalls(history[i]) => Cardinality(Group(i)) = history[i].calls
                      /\ history[i].role = "tool" =>
                           \E a \in 1 .. i - 1 : HasCalls(history[a]) /\ i \in Group(a)
                                                 /\ history[a].id = history[i].id
    BY DEF RequestKeepsPairs
  <2>1. history \in Seq(Messages) /\ ResultsFollow(history) /\ i \in 1 .. Len(history)
        /\ DOMAIN history = 1 .. Len(history) /\ Len(history) \in Nat
    BY DEF ContextInv, ContextShape
  <2>2. ASSUME HasCalls(history[i]) PROVE Cardinality(Group(i)) = history[i].calls
    <3> DEFINE n == history[i].calls
    <3>1. Group(i) = i + 1 .. i + n
      BY <2>1, <2>2, GroupIsResults
    <3>2. n \in Nat /\ n > 0 /\ i \in Nat
      BY <2>1, <2>2, MessageFacts DEF HasCalls
    <3> HIDE DEF n
    <3>3. Cardinality(i + 1 .. i + n) = n
      <4>1. i + 1 \in Int /\ i + n \in Int /\ ~ (i + 1 > i + n) /\ (i + n) - (i + 1) + 1 = n
        BY <3>2
      <4> QED BY <4>1, FS_Interval
    <3> QED BY <3>1, <3>3 DEF n
  <2>3. ASSUME history[i].role = "tool"
        PROVE  \E a \in 1 .. i - 1 : HasCalls(history[a]) /\ i \in Group(a)
                                     /\ history[a].id = history[i].id
    <3>1. PICK a \in 1 .. i - 1 : HasCalls(history[a]) /\ i <= a + history[a].calls
      BY <2>1, <2>3 DEF ResultsFollow
    <3> DEFINE n == history[a].calls
    <3>2. a \in 1 .. Len(history) /\ n \in Nat
      BY <2>1, <3>1, MessageFacts
    <3>3. \A j \in a + 1 .. a + n : history[j].id = history[a].id
      BY <2>1, <3>1, <3>2 DEF ResultsFollow
    <3>4. Group(a) = a + 1 .. a + n
      BY <2>1, <3>1, <3>2, GroupIsResults
    <3>5. i <= a + n
      BY <3>1
    <3> HIDE DEF n
    <3>6. i \in a + 1 .. a + n
      BY <2>1, <3>1, <3>2, <3>5
    <3> QED BY <3>1, <3>3, <3>4, <3>6
  <2> QED BY <2>2, <2>3
<1> QED BY <1>1, ContextInvariant, PTL
=============================================================================
