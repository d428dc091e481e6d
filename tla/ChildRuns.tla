------------------------------ MODULE ChildRuns ------------------------------
(* What a child run is given of its parent's conversation.  A forked        *)
(* subagent (subagents/history.py) gets what is finished of the copy that is *)
(* taken before each request; an isolated skill (skills/runner.py) the last  *)
(* messages its definition asks for, of a list whose last response is not    *)
(* answered yet: the call that starts the skill is part of it.               *)
EXTENDS SessionArchive

\* The last of the tool messages that follow message i.
LastResult(messages, i) ==
  CHOOSE j \in i .. Len(messages) :
    /\ \A k \in i + 1 .. j : messages[k].role = "tool"
    /\ j < Len(messages) => messages[j + 1].role # "tool"

AnswersIn(results) == {results[k].answers : k \in DOMAIN results}
Calls(message) == ToSet(message.calls)
Asks(message) == message.role = "assistant" /\ message.calls # <<>>

\* select_protocol_safe_history of subagents: it ends at an unanswered call.
ForkHistory(messages) ==
  LET from[i \in 1 .. Len(messages) + 1] ==
        IF i > Len(messages) THEN <<>>
        ELSE IF messages[i].role = "tool" THEN from[i + 1]
        ELSE IF ~ Asks(messages[i]) THEN <<messages[i]>> \o from[i + 1]
        ELSE LET end == LastResult(messages, i)
                 results == Those(SubSeq(messages, i + 1, end),
                                  {m \in Message : m.answers \in Calls(messages[i])})
             IN IF AnswersIn(results) # Calls(messages[i]) THEN <<>>
                ELSE <<messages[i]>> \o results \o from[end + 1]
  IN from[1]

\* Mutant: a group is kept whether or not all of its calls are answered.
CompleteOrNot(messages, i, end) == TRUE

Complete(messages, i, end) ==
  Calls(messages[i]) \subseteq AnswersIn(SubSeq(messages, i + 1, end))

\* The segments of skills: an unanswered group is left out, the scan goes on.
Segments(messages) ==
  LET from[i \in 1 .. Len(messages) + 1] ==
        IF i > Len(messages) THEN <<>>
        ELSE IF Asks(messages[i])
        THEN LET end == LastResult(messages, i)
             IN (IF Complete(messages, i, end) THEN <<SubSeq(messages, i, end)>> ELSE <<>>)
                \o from[end + 1]
        ELSE IF messages[i].role = "tool" THEN from[i + 1]
        ELSE <<<<messages[i]>>>> \o from[i + 1]
  IN from[1]

\* The last whole segments that hold the asked number of messages, or all.
SkillHistory(messages, asked) ==
  LET segments == Segments(messages)
      Since(k) == FlattenSeq(SubSeq(segments, k, Len(segments)))
      enough == {k \in DOMAIN segments : Len(Since(k)) >= asked}
  IN IF asked = 0 THEN <<>>
     ELSE Since(IF enough = {} THEN 1 ELSE CHOOSE k \in enough : \A l \in enough : l <= k)
=============================================================================
