---------------------------- MODULE AgentSession ----------------------------
(* One conversation of the main agent and the archive it leaves: the loop of *)
(* agent.py (_run_agent_loop_impl and execute_tool_batches) seen from        *)
(* cli._run_request, with MemoryManager and SessionRecorder writing every    *)
(* message, a process that may die at any point, and /clear and /session     *)
(* resume between the turns.                                                 *)
(*                                                                           *)
(* The provider is external: it answers with any text, calls, nothing or an  *)
(* error.  Context summaries, hooks, notes and the text of messages are left *)
(* out; a batch of tools is abstracted to the order its results come in.     *)
EXTENDS SessionArchive, FiniteSets

CONSTANTS
    SideEffect,         \* the calls of tools with side effects
    Session,            \* the session ids, in no order
    MaxIterations,      \* AgentOptions.max_iterations
    MaxEmpty,           \* AgentOptions.max_empty_responses
    MaxUnknown,         \* AgentOptions.max_unknown_tools
    MaxTurns,           \* bound: user messages of a behaviour
    MaxCrashes,         \* bound: deaths of the process
    MaxErrors           \* bound: writes that raise OSError
ASSUME SideEffectAssumption == SideEffect \subseteq Call
ASSUME LimitsAssumption ==
    /\ MaxIterations \in Nat /\ MaxEmpty \in Nat /\ MaxUnknown \in Nat \ {0}
    /\ MaxTurns \in Nat /\ MaxCrashes \in Nat /\ MaxErrors \in Nat

VARIABLES
    pc,                 \* "prompt", "request" or "tools"
    messages,           \* AgentState.messages
    session,            \* the session id that the recorder writes to
    files,              \* the archives; <<>> before and after the file exists
    opened,             \* the sessions that have a file
    buffer,             \* records that a failed flush left in the text stream
    iterations, empties, unknown,   \* the counters of the turn
    queue,              \* the calls whose results are still to come
    brokenOff,          \* history: a turn of this conversation ended amid its calls
    turnStart,          \* len(state.messages) when the turn began
    turns, crashes, errors

turn == <<iterations, empties, unknown, turnStart>>
bounds == <<turns, crashes, errors>>
disk == <<session, files, opened, buffer>>
vars == <<pc, messages, disk, turn, queue, brokenOff, bounds>>


Init == \E s \in Session :
    /\ pc = "prompt" /\ messages = <<>> /\ session = s /\ opened = {s}
    /\ files = [x \in Session |-> <<>>] /\ buffer = <<>> /\ queue = <<>>
    /\ iterations = 0 /\ empties = 0 /\ unknown = 0 /\ turnStart = 0
    /\ turns = 0 /\ crashes = 0 /\ errors = 0 /\ brokenOff = FALSE
-----------------------------------------------------------------------------
(* Only the first record can meet an unfinished line. *)
Flushed(file, lines) ==
    IF lines = <<>> THEN file ELSE Landed(file, Head(lines)) \o Tail(lines)

Written(message) ==
    /\ files' = [files EXCEPT ![session] = Flushed(@, Append(buffer, message))]
    /\ buffer' = <<>>
    /\ UNCHANGED errors

(* OSError is swallowed by record_message.  What the stream has taken it     *)
(* tries to write again at the next flush; a record too long for it is gone. *)
NotWritten(message) ==
    /\ errors < MaxErrors
    /\ errors' = errors + 1
    /\ buffer' \in {buffer, Append(buffer, message)}
    /\ UNCHANGED files

Record(message) ==
    /\ Written(message) \/ NotWritten(message)
    /\ UNCHANGED <<session, opened, turns, crashes>>

(* state.messages.append and memory.record_message. *)
Add(message) == messages' = Append(messages, message) /\ Record(message)

(* The CLI takes back the message of a user whose turn came to nothing. *)
WithoutLastUser ==
    IF Len(messages) > turnStart /\ Last(messages).role = "user"
    THEN Front(messages) ELSE messages
-----------------------------------------------------------------------------
(* The user sends a message. *)
Submit ==
    /\ pc = "prompt" /\ turns < MaxTurns
    /\ messages' = Append(messages, User)
    /\ Written(User) \/ NotWritten(User)
    /\ turnStart' = Len(messages)
    /\ iterations' = 0 /\ empties' = 0 /\ unknown' = 0
    /\ turns' = turns + 1
    /\ pc' = "request"
    /\ UNCHANGED <<session, opened, queue, brokenOff, crashes>>

(* One more iteration of the loop; each of the next actions is an answer.    *)
Iterate == /\ pc = "request" /\ iterations < MaxIterations
           /\ iterations' = iterations + 1
           /\ UNCHANGED <<turnStart, brokenOff>>

(* The request fails or the user interrupts it. *)
FailRequest ==
    /\ Iterate
    /\ messages' = WithoutLastUser
    /\ pc' = "prompt"
    /\ UNCHANGED <<disk, queue, bounds, empties, unknown>>

(* Nothing came back: the model is asked again, in a message that is not     *)
(* recorded, until it has been asked often enough.                           *)
AnswerNothing ==
    /\ Iterate
    /\ empties' = empties + 1
    /\ \/ /\ empties < MaxEmpty
          /\ messages' = Append(messages, User)
          /\ pc' = pc
       \/ /\ empties >= MaxEmpty
          /\ messages' = WithoutLastUser
          /\ pc' = "prompt"
    /\ UNCHANGED <<disk, queue, bounds, unknown>>

(* A text without calls ends the turn. *)
AnswerText ==
    /\ Iterate
    /\ Add(Assistant(<<>>))
    /\ empties' = 0 /\ unknown' = 0
    /\ pc' = "prompt"
    /\ UNCHANGED queue

(* batch_tool_calls: the calls without side effects come first. *)
BatchOrder(calls) == Those(calls, Call \ SideEffect) \o Those(calls, SideEffect)

(* The ids that a provider gives to the calls of an answer are new. *)
Used == LET InLines(lines) == UNION {ToSet(lines[i].calls) : i \in DOMAIN lines}
        IN InLines(messages) \cup InLines(Readable(buffer))
           \cup UNION {InLines(Readable(files[s])) : s \in Session}
NewCalls == LET new == Call \ Used
            IN {<<c>> : c \in new} \cup
               {calls \in new \X new : calls[1] # calls[2]}

AnswerCalls ==
    /\ Iterate
    /\ \E calls \in NewCalls :
           /\ Add(Assistant(calls))
           /\ queue' = BatchOrder(calls)
    /\ empties' = 0
    /\ pc' = "tools"
    /\ UNCHANGED unknown

(* The result of the next call, whether the tool ran, failed or was denied. *)
TakeResult ==
    /\ pc = "tools" /\ queue # <<>>
    /\ Add(Result(Head(queue)))
    /\ queue' = Tail(queue)
    /\ UNCHANGED <<pc, turn, brokenOff>>

(* A result that is too long for the history cannot be written to its file.  *)
(* The error ends the turn where it is, and nothing takes its calls back: in *)
(* a turn that a command started the dispatcher reports it and the CLI goes  *)
(* on; in any other it ends the process, which is Crash.                     *)
SpillFails ==
    /\ pc = "tools" /\ queue # <<>>
    /\ errors < MaxErrors /\ errors' = errors + 1
    /\ pc' = "prompt" /\ queue' = <<>> /\ brokenOff' = TRUE
    /\ UNCHANGED <<messages, disk, turn, turns, crashes>>

(* The batch is done; calls that all went to unknown tools are counted. *)
EndBatch ==
    /\ pc = "tools" /\ queue = <<>>
    /\ \E i \in DOMAIN messages :
           /\ messages[i].calls # <<>>
           /\ \A j \in DOMAIN messages : j > i => messages[j].calls = <<>>
           /\ unknown' \in {0, unknown + Len(messages[i].calls)}
    /\ pc' = IF unknown' >= MaxUnknown THEN "prompt" ELSE "request"
    /\ UNCHANGED <<messages, disk, queue, brokenOff, bounds, iterations, empties, turnStart>>

(* Mutant: the limit itself is not the end. *)
StopPastLimit ==
    /\ pc = "request" /\ iterations > MaxIterations
    /\ pc' = "prompt"
    /\ UNCHANGED <<messages, disk, turn, queue, brokenOff, bounds>>

(* The loop has used its iterations. *)
StopAtLimit ==
    /\ pc = "request" /\ iterations >= MaxIterations
    /\ pc' = "prompt"
    /\ UNCHANGED <<messages, disk, turn, queue, brokenOff, bounds>>
-----------------------------------------------------------------------------
(* The process dies; a record that is being written may stay unfinished, and *)
(* what the text stream still holds is gone.                                 *)
Torned(file) == IF file # <<>> /\ Last(file) = Torn THEN file ELSE Append(file, Torn)

Crash ==
    /\ pc # "down" /\ crashes < MaxCrashes
    /\ crashes' = crashes + 1
    /\ files' \in {files, [files EXCEPT ![session] = Torned(@)]}
    /\ pc' = "down"
    /\ messages' = <<>> /\ buffer' = <<>> /\ queue' = <<>>
    /\ brokenOff' = FALSE /\ iterations' = 0 /\ empties' = 0 /\ unknown' = 0 /\ turnStart' = 0
    /\ UNCHANGED <<session, opened, turns, errors>>

(* MemoryManager.start: a process begins with a new session. *)
Start ==
    /\ pc = "down"
    /\ \E s \in Session \ opened : session' = s /\ opened' = opened \cup {s}
    /\ pc' = "prompt"
    /\ UNCHANGED <<messages, files, buffer, turn, queue, brokenOff, bounds>>

(* /clear: the archive gets an event, and the next message a new archive. *)
Clear ==
    /\ pc = "prompt"
    /\ \E s \in Session \ opened : session' = s /\ opened' = opened \cup {s}
    /\ files' = [files EXCEPT ![session] = Flushed(@, Append(buffer, Event))]
    /\ messages' = <<>> /\ buffer' = <<>>
    /\ iterations' = 0 /\ unknown' = 0 /\ brokenOff' = FALSE
    /\ UNCHANGED <<pc, empties, turnStart, queue, bounds>>

(* The event cannot be written: the conversation is gone already, and the    *)
(* recorder stays with its archive.                                          *)
ClearFails ==
    /\ pc = "prompt"
    /\ errors < MaxErrors /\ errors' = errors + 1
    /\ buffer' \in {buffer, Append(buffer, Event)}
    /\ messages' = <<>>
    /\ iterations' = 0 /\ unknown' = 0 /\ brokenOff' = FALSE
    /\ UNCHANGED <<pc, session, files, opened, empties, turnStart, queue, turns, crashes>>

(* Mutants of ResumeSession: the history is what the file says; it is put    *)
(* behind the present one; the recorder starts the file anew.                *)
ResumeUnsafe(s) ==
    /\ pc = "prompt" /\ s \in opened
    /\ messages' = Readable(files[s])
    /\ files' = [files EXCEPT ![session] = Flushed(@, buffer)]
    /\ session' = s /\ buffer' = <<>> /\ brokenOff' = FALSE
    /\ UNCHANGED <<pc, opened, turn, queue, bounds>>
ResumeBehind(s) ==
    /\ pc = "prompt" /\ s \in opened
    /\ messages' = messages \o Recovered(files[s])
    /\ files' = [files EXCEPT ![session] = Flushed(@, buffer)]
    /\ session' = s /\ buffer' = <<>> /\ brokenOff' = FALSE
    /\ UNCHANGED <<pc, opened, turn, queue, bounds>>
ResumeAfresh(s) ==
    /\ pc = "prompt" /\ s \in opened
    /\ messages' = Recovered(files[s])
    /\ files' = [files EXCEPT ![s] = <<>>]
    /\ session' = s /\ buffer' = <<>> /\ brokenOff' = FALSE
    /\ UNCHANGED <<pc, opened, turn, queue, bounds>>

(* resume_session: the history is what the archive safely gives, followed by *)
(* a notice when it is old; the recorder appends to that archive.  Nothing   *)
(* restored and something wrong with the archive is a refusal.               *)
ResumeSession(s) ==
    /\ pc = "prompt" /\ s \in opened
    /\ \E notice \in {<<>>, <<User>>} :
           /\ notice # <<>> => Readable(files[s]) # <<>>
           /\ messages' = Recovered(files[s]) \o notice
           /\ messages' # <<>> \/ ~(Truncated(files[s]) \/ Skipped(files[s]))
    /\ files' = [files EXCEPT ![session] = Flushed(@, buffer)]
    /\ session' = s /\ buffer' = <<>> /\ brokenOff' = FALSE
    /\ UNCHANGED <<pc, opened, turn, queue, bounds>>
-----------------------------------------------------------------------------
Agent == \/ FailRequest \/ AnswerNothing \/ AnswerText \/ AnswerCalls
         \/ TakeResult \/ SpillFails \/ EndBatch \/ StopAtLimit
Operator == \/ Submit \/ Clear \/ ClearFails \/ \E s \in Session : ResumeSession(s)
Next == Agent \/ Operator \/ Crash \/ Start

(* The provider answers or its request times out, and tools return: nothing  *)
(* else is needed for the agent to go on.  Users and crashes owe nothing.    *)
Spec == Init /\ [][Next]_vars /\ WF_vars(Agent)
-----------------------------------------------------------------------------
Lines == Message \cup {Torn, Bad, Event}
TypeOK ==
    /\ pc \in {"prompt", "request", "tools", "down"}
    /\ messages \in Seq(Message) /\ buffer \in Seq(Lines)
    /\ files \in [Session -> Seq(Lines)]
    /\ session \in opened /\ opened \subseteq Session
    /\ queue \in Seq(Call) /\ (queue # <<>> => pc = "tools")
    /\ iterations \in 0..MaxIterations /\ empties \in 0..MaxEmpty + 1
    /\ unknown \in Nat /\ turnStart \in Nat /\ brokenOff \in BOOLEAN
    /\ turns \in 0..MaxTurns /\ crashes \in 0..MaxCrashes /\ errors \in 0..MaxErrors

(* Whatever was interrupted, resumed or lost before, a request shows the     *)
(* provider a history in which each call is answered at once, and each       *)
(* result was asked for: otherwise every later request of the conversation   *)
(* is refused (agent.py:287-294, recovery.py:6-36).  A turn that broke off   *)
(* amid its calls is the exception, until /clear or a resume.                *)
RequestIsPaired == pc = "request" /\ ~brokenOff => Paired(messages)

(* While no write failed and the archive reads in order, a resume would give *)
(* the agent all it said and got from tools: nothing is recorded twice, late *)
(* or out of place in any turn, over any number of resumes (agent.py:376-380,*)
(* 687-690 and 729-732, manager.py:66-72).                                   *)
NotOfUser(seq) == Those(seq, {m \in Message : m.role # "user"})
ArchiveMatches ==
    LET file == files[session] IN
    pc # "down" /\ errors = 0 /\ ~Skipped(file) /\ InOrder(Readable(file))
        => NotOfUser(messages) = NotOfUser(Recovered(file))

(* What a resume can restore stays restorable: neither a later turn, a       *)
(* failed write, a crash nor another resume takes a safe message away        *)
(* (sessions.py:22 and 48-50).                                               *)
RestorableStays ==
    [][\A s \in Session : IsPrefix(Recovered(files[s]), Recovered(files'[s]))]_vars

(* Not kept, and checked by no run: without that exception.                  *)
EveryRequestIsPaired == pc = "request" => Paired(messages)

(* A turn comes to its end, whatever the provider answers (agent.py:197-447).*)
TurnEnds == (pc # "prompt" /\ pc # "down") ~> (pc = "prompt" \/ pc = "down")

(* What specs/010 promises and the code does not keep.  A turn whose final   *)
(* answer is the last line of the archive is there after a resume            *)
(* (specs/010-memory-system/spec.md:12 and 23).                              *)
FinishedTurnIsKept ==
    LET file == files[session] IN
    pc = "prompt" /\ file # <<>> /\ messages # <<>>
        /\ Last(file) = Assistant(<<>>) /\ Last(messages) = Assistant(<<>>)
        => ~Truncated(file)

(* A crash spoils the record being written and no other: no record is ever   *)
(* swallowed by an unfinished line (specs/010-memory-system/spec.md:23).     *)
CrashTakesOneRecord == \A s \in Session : \A i \in DOMAIN files[s] : files[s][i] # Bad
=============================================================================
