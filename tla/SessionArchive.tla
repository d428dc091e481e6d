--------------------------- MODULE SessionArchive ---------------------------
(* The messages of a conversation, the lines of a session archive, and what *)
(* a resume restores from them: memory/recovery.py and                      *)
(* SessionStore.recover of memory/sessions.py.  Texts, timestamps and tool  *)
(* arguments are left out: the recovery looks at roles and call ids only.   *)
EXTENDS Naturals, Sequences, SequencesExt

CONSTANTS Call, NoCall
ASSUME NoCallAssumption == NoCall \notin Call

(* ConversationMessage: "calls" is tool_calls, "answers" is tool_call_id. *)
Message == [role: {"user", "assistant", "tool"}, calls: Seq(Call),
            answers: Call \cup {NoCall}]
User == [role |-> "user", calls |-> <<>>, answers |-> NoCall]
Assistant(calls) == [role |-> "assistant", calls |-> calls, answers |-> NoCall]
Result(call) == [role |-> "tool", calls |-> <<>>, answers |-> call]

(* The elements of a sequence that lie in a set, in their order. *)
Those(seq, set) ==
    LET among[i \in 0..Len(seq)] ==
            IF i = 0 THEN <<>>
            ELSE IF seq[i] \in set THEN Append(among[i - 1], seq[i])
            ELSE among[i - 1]
    IN among[Len(seq)]

(* Lines that hold no message: an unfinished write that ends the file, a    *)
(* line that json.loads refuses, and a recorded event.                      *)
Torn == [role |-> "torn"]
Bad == [role |-> "bad"]
Event == [role |-> "event"]
Broken(line) == line.role \in {"torn", "bad"}

(* A record written behind an unfinished line becomes part of that line,    *)
(* because append mode starts where the file ends.                          *)
Landed(file, line) ==
    IF file # <<>> /\ Last(file) = Torn THEN Append(Front(file), Bad)
                                        ELSE Append(file, line)

(* The results of message i follow it, one for each call, in call order. *)
Answered(messages, i) ==
    \A k \in DOMAIN messages[i].calls :
        i + k <= Len(messages) /\ messages[i + k] = Result(messages[i].calls[k])

(* The messages behind message i that its calls claim. *)
Group(messages, i) == i + 1 .. i + Len(messages[i].calls)

(* Every group is complete, in call order, and every result is in a group. *)
InOrder(messages) ==
    /\ \A i \in DOMAIN messages : Answered(messages, i)
    /\ \A j \in DOMAIN messages :
           messages[j].role = "tool" => \E i \in 1..j - 1 : j \in Group(messages, i)

(* Mutant: an archive with a bad group is given up altogether. *)
SafeMessagesOrNone(messages) == IF InOrder(messages) THEN messages ELSE <<>>

(* recover_safe_messages: the scan by groups; it stops at a result without  *)
(* a call and at a call without its result.                                 *)
SafeMessages(messages) ==
    LET stop[i \in 1..Len(messages) + 1] ==
            IF \/ i > Len(messages)
               \/ messages[i].role = "tool"
               \/ ~Answered(messages, i)
            THEN i - 1
            ELSE stop[i + 1 + Len(messages[i].calls)]
    IN SubSeq(messages, 1, stop[1])

(* SessionStore.recover: the readable messages, then their safe part. *)
Readable(file) == Those(file, Message)
Recovered(file) == SafeMessages(Readable(file))
Truncated(file) == Recovered(file) # Readable(file)
Skipped(file) == \E i \in DOMAIN file : Broken(file[i])

(* What a provider accepts: each call is answered, by the messages right    *)
(* behind it, and each result belongs to such a call.  Stated without the   *)
(* scan, and without asking for the order of the calls.                     *)
Paired(messages) ==
    /\ \A i \in DOMAIN messages :
           LET calls == messages[i].calls IN
           /\ Group(messages, i) \subseteq DOMAIN messages
           /\ {messages[j].answers : j \in Group(messages, i)} = ToSet(calls)
    /\ \A j \in DOMAIN messages :
           messages[j].role = "tool" => \E i \in 1..j - 1 : j \in Group(messages, i)
=============================================================================
