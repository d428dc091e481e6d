------------------------- MODULE AgentSessionProofs -------------------------
(***************************************************************************)
(* Conversations and their archives, for any calls and sessions and any    *)
(* limits: a request is always paired, the archive says what the agent     *)
(* remembers, and nothing that can be restored is ever lost.               *)
(***************************************************************************)
EXTENDS AgentSession, AlgorithmsProofs

-----------------------------------------------------------------------------
(* What is written to an archive *)

(* What a flush leaves in the file. *)
LEMMA FlushedReads ==
  ASSUME NEW file \in Seq(Line), NEW lines \in Seq(Line)
  PROVE  /\ Flushed(file, lines) \in Seq(Line)
         /\ IsPrefix(Readable(file), Readable(Flushed(file, lines)))
         /\ Skipped(file) => Skipped(Flushed(file, lines))
<1>1. CASE lines = <<>>
  <2>1. Flushed(file, lines) = file
    BY <1>1 DEF Flushed
  <2>2. Readable(file) \in Seq(Formed)
    BY ReadableType
  <2>3. IsPrefix(Readable(file), Readable(file))
    BY <2>2 DEF IsPrefix
  <2> QED BY <2>1, <2>3
<1>2. CASE lines # <<>>
  <2>1. Head(lines) \in Line /\ Tail(lines) \in Seq(Line)
    BY <1>2
  <2> DEFINE first == Landed(file, Head(lines))
             new == first \o Tail(lines)
  <2>2. Flushed(file, lines) = new
    BY <1>2 DEF Flushed
  <2>3. first \in Seq(Line) /\ IsPrefix(Readable(file), Readable(first))
        /\ (Skipped(file) => Skipped(first))
    BY <2>1, LandedReads
  <2> HIDE DEF first
  <2>4. new \in Seq(Line) /\ \A i \in DOMAIN first : i \in DOMAIN new /\ new[i] = first[i]
    BY <2>1, <2>3
  <2>5. IsPrefix(first, new)
    BY <2>1, <2>3 DEF IsPrefix
  <2> HIDE DEF new
  <2>6. IsPrefix(Readable(first), Readable(new))
    BY <2>3, <2>4, <2>5, ThosePrefix DEF Readable
  <2>7. IsPrefix(Readable(file), Readable(new))
    BY <2>3, <2>4, <2>6, ReadableType, PrefixChain
  <2>8. Skipped(first) => Skipped(new)
    BY <2>4 DEF Skipped
  <2> QED BY <2>2, <2>3, <2>4, <2>7, <2>8
<1> QED BY <1>1, <1>2

LEMMA TornedReads ==
  ASSUME NEW file \in Seq(Line)
  PROVE  /\ Torned(file) \in Seq(Line) /\ Readable(Torned(file)) = Readable(file)
<1>1. Torn \in Line /\ Torn \notin Formed
  BY LineIsMessage DEF Line
<1> QED BY <1>1, ReadableOfAppend DEF Torned

-----------------------------------------------------------------------------
(* Batches of tools *)

\* No call of q is in q twice or has come back.
Distinct(q) == \A i, j \in 1 .. Len(q) : q[i] = q[j] => i = j
NoneTwice(m, q, b) ==
  Distinct(q) /\ \A j \in b + 1 .. Len(m) : m[j].answers \notin ToSet(q)

\* Message b asked for a batch of tools: what came back is behind it, in any
\* order, and q is still to come.
InBatch(m, q, b) ==
  /\ b \in 1 .. Len(m) /\ Paired(SubSeq(m, 1, b - 1))
  /\ m[b].role = "assistant" /\ Len(m[b].calls) \in 1 .. 2
  /\ \A j \in b + 1 .. Len(m) : m[j].role = "tool"
  /\ (Len(m) - b) + Len(q) = Len(m[b].calls)
  /\ {m[j].answers : j \in b + 1 .. Len(m)} \cup ToSet(q) = ToSet(m[b].calls)
  /\ NoneTwice(m, q, b)

LEMMA BatchBegins ==
  ASSUME NEW m \in Seq(Formed), Paired(m), NEW calls \in Seq(Call), Len(calls) \in 1 .. 2,
         NEW q \in Seq(Call), Len(q) = Len(calls), ToSet(q) = ToSet(calls), Distinct(q)
  PROVE  InBatch(Append(m, Assistant(calls)), q, Len(m) + 1)
<1> DEFINE u == Assistant(calls)
           n == Len(m)
           w == Append(m, u)
<1>1. u \in Formed /\ u.role = "assistant" /\ u.calls = calls
  BY DEF Formed, Assistant
<1> HIDE DEF u
<1>2. w \in Seq(Formed) /\ Len(w) = n + 1 /\ n \in Nat /\ w[n + 1] = u /\ SubSeq(w, 1, n) = m
  BY <1>1
<1> HIDE DEF w, n
<1>3. n + 1 \in 1 .. Len(w) /\ (n + 1) - 1 = n /\ (n + 1) + 1 .. Len(w) = {} /\ Len(w) - (n + 1) = 0
  BY <1>2
<1>4. 0 + Len(q) = Len(calls)
  OBVIOUS
<1>5. {w[j].answers : j \in {}} = {}
  OBVIOUS
<1>6. NoneTwice(w, q, n + 1)
  BY <1>3 DEF NoneTwice
<1>7. InBatch(w, q, n + 1)
  BY <1>1, <1>2, <1>3, <1>4, <1>5, <1>6 DEF InBatch
<1> QED BY <1>7 DEF w, u, n

LEMMA BatchGoesOn ==
  ASSUME NEW m \in Seq(Formed), NEW q \in Seq(Call), q # <<>>, NEW b, InBatch(m, q, b)
  PROVE  InBatch(Append(m, Result(Head(q))), Tail(q), b)
<1> DEFINE n == Len(m)
           c == Head(q)
           u == Result(c)
           w == Append(m, u)
<1>1. c \in Call /\ Tail(q) \in Seq(Call) /\ Len(Tail(q)) = Len(q) - 1 /\ Len(q) \in Nat
  OBVIOUS
<1>2. ToSet(q) = {c} \cup ToSet(Tail(q))
  <2> DEFINE t == Tail(q)
             k == Len(t)
  <2>1. k \in Nat /\ Len(q) = k + 1 /\ q[1] = c /\ \A i \in 1 .. k : t[i] = q[i + 1]
    OBVIOUS
  <2>2. DOMAIN t = 1 .. k /\ DOMAIN q = 1 .. Len(q)
    OBVIOUS
  <2> HIDE DEF k, t, c
  <2>3. ASSUME NEW i \in 1 .. Len(q) PROVE q[i] \in {c} \cup {t[j] : j \in 1 .. k}
    <3>1. CASE i = 1
      BY <2>1, <3>1
    <3>2. CASE i # 1
      <4>1. i - 1 \in 1 .. k /\ (i - 1) + 1 = i
        BY <2>1, <3>2
      <4>2. t[i - 1] = q[i]
        BY <2>1, <4>1
      <4> QED BY <4>1, <4>2
    <3> QED BY <3>1, <3>2
  <2>4. 1 \in 1 .. Len(q) /\ \A i \in 1 .. k : i + 1 \in 1 .. Len(q)
    BY <2>1
  <2>5. {q[i] : i \in 1 .. Len(q)} = {c} \cup {t[j] : j \in 1 .. k}
    <3>1. {q[i] : i \in 1 .. Len(q)} \subseteq {c} \cup {t[j] : j \in 1 .. k}
      BY <2>3, Zenon
    <3>2. c \in {q[i] : i \in 1 .. Len(q)}
      BY <2>1, <2>4, Zenon
    <3>3. ASSUME NEW j \in 1 .. k PROVE t[j] \in {q[i] : i \in 1 .. Len(q)}
      BY <2>1, <2>4, Zenon
    <3> QED BY <3>1, <3>2, <3>3, Zenon
  <2> QED BY <2>2, <2>5 DEF ToSet, t
<1>3. u \in Formed /\ u.role = "tool" /\ u.answers = c
  BY <1>1 DEF Formed, Result
<1> HIDE DEF u, c
<1>4. b \in 1 .. n /\ b \in Nat /\ n \in Nat
  BY DEF InBatch
<1>5. w \in Seq(Formed) /\ Len(w) = n + 1 /\ w[n + 1] = u /\ \A j \in 1 .. n : w[j] = m[j]
  BY <1>3
<1>6. SubSeq(w, 1, b - 1) = SubSeq(m, 1, b - 1)
  BY <1>3, <1>4
<1> HIDE DEF w, n
<1>7. b \in 1 .. Len(w) /\ w[b] = m[b]
  BY <1>4, <1>5
<1>8. b + 1 .. Len(w) = (b + 1 .. n) \cup {n + 1} /\ b + 1 .. n \subseteq 1 .. n
  <2>1. Len(w) = n + 1 /\ b <= n
    BY <1>4, <1>5
  <2> QED BY <1>4, <2>1
<1>9. \A j \in b + 1 .. Len(w) : w[j].role = "tool"
  BY <1>3, <1>5, <1>8 DEF InBatch, n
<1>10. (Len(w) - b) + Len(Tail(q)) = Len(w[b].calls)
  <2>1. (n - b) + Len(q) = Len(m[b].calls)
    BY DEF InBatch, n
  <2>2. (Len(w) - b) + Len(Tail(q)) = (n - b) + Len(q)
    BY <1>1, <1>4, <1>5
  <2> QED BY <1>7, <2>1, <2>2
<1>11. {w[j].answers : j \in b + 1 .. Len(w)} = {m[j].answers : j \in b + 1 .. n} \cup {c}
  BY <1>3, <1>5, <1>8
<1>12. {m[j].answers : j \in b + 1 .. n} \cup ToSet(q) = ToSet(m[b].calls)
  BY DEF InBatch, n
<1>13. {w[j].answers : j \in b + 1 .. Len(w)} \cup ToSet(Tail(q)) = ToSet(w[b].calls)
  BY <1>2, <1>7, <1>11, <1>12
<1>14. Paired(SubSeq(w, 1, b - 1)) /\ w[b].role = "assistant" /\ Len(w[b].calls) \in 1 .. 2
  BY <1>6, <1>7 DEF InBatch
<1>15. NoneTwice(w, Tail(q), b)
  <2> DEFINE t == Tail(q)
  <2>1. Distinct(q) /\ \A j \in b + 1 .. n : m[j].answers \notin ToSet(q)
    BY DEF InBatch, NoneTwice, n
  <2>2. /\ Len(t) \in Nat /\ Len(q) = Len(t) + 1 /\ DOMAIN t = 1 .. Len(t)
        /\ \A i \in 1 .. Len(t) : t[i] = q[i + 1]
    BY <1>1
  <2>3. q[1] = c /\ 1 \in 1 .. Len(q)
    BY <1>1, <2>2 DEF c
  <2> HIDE DEF t
  <2>4. \A i \in 1 .. Len(t) : i + 1 \in 1 .. Len(q) /\ i + 1 # 1 /\ i \in Nat
    BY <2>2
  <2>5. Distinct(t)
    BY <2>1, <2>2, <2>4 DEF Distinct
  <2>6. c \notin ToSet(t)
    BY <2>1, <2>2, <2>3, <2>4 DEF Distinct, ToSet
  <2>7. \A j \in b + 1 .. Len(w) : w[j].answers \notin ToSet(t)
    BY <1>2, <1>3, <1>5, <1>8, <2>1, <2>6 DEF t
  <2> QED BY <2>5, <2>7 DEF NoneTwice, t
<1>16. InBatch(w, Tail(q), b)
  BY <1>7, <1>9, <1>10, <1>13, <1>14, <1>15 DEF InBatch
<1> QED BY <1>16 DEF w, u, c

LEMMA BatchEnds ==
  ASSUME NEW m \in Seq(Formed), NEW b, InBatch(m, <<>>, b)
  PROVE  /\ Paired(m)
         /\ m[b].calls # <<>>
         /\ \A j \in DOMAIN m : j > b => m[j].calls = <<>>
<1> DEFINE n == Len(m)
           s == SubSeq(m, 1, b - 1)
           l == Len(m[b].calls)
<1>1. b \in 1 .. n /\ b \in Nat /\ n \in Nat /\ DOMAIN m = 1 .. n
  BY DEF InBatch
<1>2. s \in Seq(Formed) /\ Len(s) = b - 1 /\ DOMAIN s = 1 .. b - 1
      /\ \A j \in 1 .. b - 1 : s[j] = m[j]
  BY <1>1
<1>3. Paired(s) /\ \A j \in b + 1 .. n : m[j].role = "tool"
  BY DEF InBatch
<1>4. b + l = n /\ {m[j].answers : j \in b + 1 .. n} = ToSet(m[b].calls) /\ l \in 1 .. 2
  <2>1. Len(<<>>) = 0 /\ ToSet(<<>>) = {}
    BY EmptySeq DEF ToSet
  <2>2. (n - b) + 0 = l /\ {m[j].answers : j \in b + 1 .. n} \cup {} = ToSet(m[b].calls)
        /\ l \in 1 .. 2
    BY <2>1 DEF InBatch
  <2> HIDE DEF l, n
  <2> QED BY <1>1, <2>2
<1> HIDE DEF s, n, l
<1>5. Group(m, b) = b + 1 .. n
  BY <1>4 DEF Group, l
<1>6. ASSUME NEW j \in b + 1 .. n PROVE m[j].calls = <<>> /\ j \in 1 .. n
  <2>1. j \in 1 .. n
    BY <1>1
  <2>2. m[j] \in Formed /\ m[j].role = "tool"
    BY <1>1, <1>3, <2>1, ElementOfSeq DEF n
  <2> QED BY <2>1, <2>2, FormedFields
<1>7. ASSUME NEW i \in 1 .. b - 1
      PROVE  /\ Group(m, i) \subseteq 1 .. n
             /\ {m[j].answers : j \in Group(m, i)} = ToSet(m[i].calls)
  <2>1. Group(s, i) = Group(m, i) /\ s[i] = m[i]
    BY <1>2 DEF Group
  <2>2. Group(s, i) \subseteq 1 .. b - 1 /\ {s[j].answers : j \in Group(s, i)} = ToSet(s[i].calls)
    BY <1>2, <1>3 DEF Paired
  <2>3. {s[j].answers : j \in Group(s, i)} = {m[j].answers : j \in Group(s, i)}
    BY <1>2, <2>2
  <2>4. 1 .. b - 1 \subseteq 1 .. n
    BY <1>1
  <2> QED BY <2>1, <2>2, <2>3, <2>4
<1>8. b + 1 .. n \subseteq 1 .. n /\ 1 .. n = (1 .. b - 1) \cup {b} \cup (b + 1 .. n)
  BY <1>1
<1>9. ASSUME NEW i \in 1 .. n
      PROVE  /\ Group(m, i) \subseteq 1 .. n
             /\ {m[j].answers : j \in Group(m, i)} = ToSet(m[i].calls)
  <2>1. CASE i \in 1 .. b - 1
    BY <1>7, <2>1
  <2>2. CASE i = b
    BY <1>4, <1>5, <1>8, <2>2
  <2>3. CASE i \in b + 1 .. n
    <3>1. i \in 1 .. Len(m) /\ m[i].calls = <<>>
      BY <1>6, <2>3 DEF n
    <3>2. Group(m, i) = {} /\ ToSet(m[i].calls) = {}
      BY <3>1, GroupFields
    <3> QED BY <3>2
  <2> QED BY <1>8, <2>1, <2>2, <2>3
<1>10. ASSUME NEW j \in 1 .. n, m[j].role = "tool" PROVE \E i \in 1 .. j - 1 : j \in Group(m, i)
  <2>1. CASE j \in 1 .. b - 1
    <3>1. s[j].role = "tool" /\ j \in DOMAIN s
      BY <1>2, <1>10, <2>1
    <3>2. PICK i \in 1 .. j - 1 : j \in Group(s, i)
      BY <1>3, <3>1 DEF Paired
    <3>3. i \in 1 .. b - 1
      BY <1>1, <2>1
    <3>4. Group(s, i) = Group(m, i)
      BY <1>2, <3>3 DEF Group
    <3> QED BY <3>2, <3>4
  <2>2. CASE j = b
    BY <1>10, <2>2 DEF InBatch
  <2>3. CASE j \in b + 1 .. n
    <3>1. b \in 1 .. j - 1
      BY <1>1, <2>3
    <3> QED BY <1>5, <2>3, <3>1
  <2> QED BY <1>8, <2>1, <2>2, <2>3
<1>11. Paired(m)
  BY <1>1, <1>9, <1>10 DEF Paired
<1>12. m[b].calls # <<>>
  <2> SUFFICES ASSUME m[b].calls = <<>> PROVE FALSE
    OBVIOUS
  <2>1. Len(m[b].calls) \in 1 .. 2
    BY DEF InBatch
  <2>2. Len(m[b].calls) = 0
    OBVIOUS
  <2>3. 0 \notin 1 .. 2
    OBVIOUS
  <2> QED BY <2>1, <2>2, <2>3
<1>13. \A j \in DOMAIN m : j > b => j \in b + 1 .. n
  BY <1>1
<1> QED BY <1>6, <1>11, <1>12, <1>13

-----------------------------------------------------------------------------
(* The conversation *)

\* What the text stream may still hold.
Held == Formed \cup {Event}

Shape ==
  /\ pc \in {"prompt", "request", "tools", "down"}
  /\ messages \in Seq(Formed) /\ buffer \in Seq(Held)
  /\ files \in [Session -> Seq(Line)]
  /\ session \in opened /\ opened \subseteq Session
  /\ queue \in Seq(Call) /\ (queue # <<>> => pc = "tools")
  /\ turnStart \in Nat

Counters ==
  /\ iterations \in 0 .. MaxIterations
  /\ empties \in 0 .. MaxEmpty + 1 /\ (pc \in {"request", "tools"} => empties <= MaxEmpty)
  /\ unknown \in Nat /\ (pc \in {"request", "tools"} => unknown < MaxUnknown)
  /\ turns \in 0 .. MaxTurns /\ crashes \in 0 .. MaxCrashes /\ errors \in 0 .. MaxErrors

HistoryIsRight ==
  /\ brokenOff \in BOOLEAN
  /\ pc \in {"prompt", "request"} /\ ~ brokenOff => Paired(messages)
  /\ pc = "tools" /\ ~ brokenOff => \E b : InBatch(messages, queue, b)
  /\ pc = "down" => messages = <<>> /\ ~ brokenOff

SessionInv == Shape /\ Counters /\ HistoryIsRight

\* Each archive still begins with what could be read of it.
Grown == \A s \in Session : IsPrefix(Readable(files[s]), Readable(files'[s]))

LEMMA EmptyIsPaired == Paired(<<>>) /\ <<>> \in Seq(Formed) /\ <<>> \in Seq(Call)
BY EmptySeq DEF Paired

LEMMA GrownWhole ==
  ASSUME Shape, UNCHANGED files
  PROVE  Grown
<1> SUFFICES ASSUME NEW s \in Session PROVE IsPrefix(Readable(files[s]), Readable(files[s]))
  BY DEF Grown
<1>1. Readable(files[s]) \in Seq(Formed)
  BY ReadableType DEF Shape
<1> QED BY <1>1 DEF IsPrefix

LEMMA FlushKeeps ==
  ASSUME Shape, NEW lines \in Seq(Line),
         files' = [files EXCEPT ![session] = Flushed(@, lines)]
  PROVE  files' \in [Session -> Seq(Line)] /\ Grown
<1>1. session \in Session /\ \A s \in Session : files[s] \in Seq(Line)
  BY DEF Shape
<1>2. Flushed(files[session], lines) \in Seq(Line)
      /\ IsPrefix(Readable(files[session]), Readable(Flushed(files[session], lines)))
  BY <1>1, FlushedReads
<1>3. \A s \in Session : files'[s] = IF s = session THEN Flushed(files[session], lines) ELSE files[s]
  BY <1>1 DEF Shape
<1>4. files' \in [Session -> Seq(Line)]
  BY <1>1, <1>2 DEF Shape
<1>5. ASSUME NEW s \in Session PROVE IsPrefix(Readable(files[s]), Readable(files'[s]))
  <2>1. CASE s = session
    BY <1>2, <1>3, <2>1
  <2>2. CASE s # session
    <3>1. Readable(files[s]) \in Seq(Formed)
      BY <1>1, ReadableType
    <3>2. IsPrefix(Readable(files[s]), Readable(files[s]))
      BY <3>1 DEF IsPrefix
    <3> QED BY <1>3, <2>2, <3>2
  <2> QED BY <2>1, <2>2
<1> QED BY <1>4, <1>5 DEF Grown

LEMMA RecordKeeps ==
  ASSUME Shape, Counters, NEW u \in Formed, Written(u) \/ NotWritten(u)
  PROVE  /\ files' \in [Session -> Seq(Line)] /\ buffer' \in Seq(Held)
         /\ errors' \in 0 .. MaxErrors /\ Grown
<1>1. CASE Written(u)
  <2>1. Append(buffer, u) \in Seq(Line)
    <3>1. Append(buffer, u) \in Seq(Held) /\ Held \subseteq Line
      BY DEF Shape, Line, Held
    <3> QED BY <3>1, SeqMonotonic
  <2>2. files' \in [Session -> Seq(Line)] /\ Grown
    BY <1>1, <2>1, FlushKeeps DEF Written
  <2> QED BY <1>1, <2>2, EmptyIsPaired DEF Written, Counters
<1>2. CASE NotWritten(u)
  <2>1. files' \in [Session -> Seq(Line)] /\ Grown
    BY <1>2, GrownWhole DEF NotWritten, Shape
  <2>2. buffer' \in Seq(Held)
    <3>1. buffer \in Seq(Held) /\ u \in Held
      BY DEF Shape, Held
    <3>2. Append(buffer, u) \in Seq(Held)
      BY <3>1
    <3> QED BY <1>2, <3>1, <3>2 DEF NotWritten
  <2>3. errors' \in 0 .. MaxErrors
    BY <1>2, LimitsAssumption DEF NotWritten, Counters
  <2> QED BY <2>1, <2>2, <2>3
<1> QED BY <1>1, <1>2

LEMMA InitInv ==
  ASSUME Init
  PROVE  SessionInv
<1>1. Shape
  <2>1. <<>> \in Seq(Held) /\ <<>> \in Seq(Line)
    BY EmptySeq
  <2> QED BY <2>1, EmptyIsPaired DEF Init, Shape
<1>2. Counters
  BY LimitsAssumption DEF Init, Counters
<1>3. HistoryIsRight
  BY EmptyIsPaired DEF Init, HistoryIsRight
<1> QED BY <1>1, <1>2, <1>3 DEF SessionInv

LEMMA SubmitInv ==
  ASSUME SessionInv, Submit
  PROVE  SessionInv' /\ Grown
<1> USE DEF SessionInv
<1>1. User \in Formed /\ User.role = "user" /\ User.calls = <<>>
  BY DEF Formed, User
<1>2. /\ files' \in [Session -> Seq(Line)] /\ buffer' \in Seq(Held)
      /\ errors' \in 0 .. MaxErrors /\ Grown
  BY <1>1, RecordKeeps DEF Submit
<1>3. Shape'
  <2>1. Append(messages, User) \in Seq(Formed) /\ Len(messages) \in Nat
    BY <1>1 DEF Shape
  <2> QED BY <1>2, <2>1 DEF Submit, Shape
<1>4. Counters'
  BY <1>2, LimitsAssumption DEF Submit, Counters
<1>5. HistoryIsRight'
  <2>1. messages \in Seq(Formed) /\ (~ brokenOff => Paired(messages))
    BY DEF Submit, HistoryIsRight, Shape
  <2>2. ~ brokenOff => Paired(Append(messages, User))
    BY <1>1, <2>1, PairedAppend
  <2> QED BY <2>2 DEF Submit, HistoryIsRight
<1> QED BY <1>2, <1>3, <1>4, <1>5

LEMMA WithoutLastUserIsPaired ==
  ASSUME SessionInv, pc = "request"
  PROVE  WithoutLastUser \in Seq(Formed) /\ (~ brokenOff => Paired(WithoutLastUser))
<1>1. messages \in Seq(Formed) /\ (~ brokenOff => Paired(messages)) /\ turnStart \in Nat
  BY DEF SessionInv, Shape, HistoryIsRight
<1>2. CASE Len(messages) > turnStart /\ Last(messages).role = "user"
  <2>1. Len(messages) > 0
    BY <1>1, <1>2
  <2>2. Front(messages) \in Seq(Formed)
    BY <1>1, <2>1 DEF Front
  <2>3. ~ brokenOff => Paired(Front(messages))
    BY <1>1, <1>2, <2>1, PairedFront
  <2> QED BY <1>2, <2>2, <2>3 DEF WithoutLastUser
<1>3. CASE ~ (Len(messages) > turnStart /\ Last(messages).role = "user")
  BY <1>1, <1>3 DEF WithoutLastUser
<1> QED BY <1>2, <1>3

LEMMA FailRequestInv ==
  ASSUME SessionInv, FailRequest
  PROVE  SessionInv' /\ Grown
<1> USE DEF SessionInv
<1>1. WithoutLastUser \in Seq(Formed) /\ (~ brokenOff => Paired(WithoutLastUser))
  BY WithoutLastUserIsPaired DEF FailRequest, Iterate
<1>2. Shape'
  BY <1>1 DEF FailRequest, Iterate, Shape, disk, bounds
<1>3. Counters'
  BY LimitsAssumption DEF FailRequest, Iterate, Counters, disk, bounds
<1>4. HistoryIsRight'
  BY <1>1 DEF FailRequest, Iterate, HistoryIsRight
<1>5. Grown
  BY GrownWhole DEF FailRequest, disk
<1> QED BY <1>2, <1>3, <1>4, <1>5

LEMMA AnswerNothingInv ==
  ASSUME SessionInv, AnswerNothing
  PROVE  SessionInv' /\ Grown
<1> USE DEF SessionInv
<1>1. WithoutLastUser \in Seq(Formed) /\ (~ brokenOff => Paired(WithoutLastUser))
  BY WithoutLastUserIsPaired DEF AnswerNothing, Iterate
<1>2. User \in Formed /\ User.role = "user" /\ User.calls = <<>>
  BY DEF Formed, User
<1>3. /\ Append(messages, User) \in Seq(Formed)
      /\ ~ brokenOff => Paired(Append(messages, User))
  <2>1. messages \in Seq(Formed) /\ (~ brokenOff => Paired(messages))
    BY DEF AnswerNothing, Iterate, Shape, HistoryIsRight
  <2> QED BY <1>2, <2>1, PairedAppend
<1>4. Shape'
  BY <1>1, <1>3 DEF AnswerNothing, Iterate, Shape, disk, bounds
<1>5. Counters'
  BY LimitsAssumption DEF AnswerNothing, Iterate, Counters, disk, bounds
<1>6. HistoryIsRight'
  BY <1>1, <1>3 DEF AnswerNothing, Iterate, HistoryIsRight
<1>7. Grown
  BY GrownWhole DEF AnswerNothing, disk
<1> QED BY <1>4, <1>5, <1>6, <1>7

LEMMA AnswerTextInv ==
  ASSUME SessionInv, AnswerText
  PROVE  SessionInv' /\ Grown
<1> USE DEF SessionInv
<1> DEFINE u == Assistant(<<>>)
<1>1. u \in Formed /\ u.role = "assistant" /\ u.calls = <<>>
  BY EmptyIsPaired DEF Formed, Assistant
<1> HIDE DEF u
<1>2. Add(u)
  BY DEF AnswerText, u
<1>3. /\ files' \in [Session -> Seq(Line)] /\ buffer' \in Seq(Held)
      /\ errors' \in 0 .. MaxErrors /\ Grown
  BY <1>1, <1>2, RecordKeeps DEF Add, Record
<1>4. messages' \in Seq(Formed) /\ (~ brokenOff => Paired(messages'))
  <2>1. messages \in Seq(Formed) /\ (~ brokenOff => Paired(messages))
    BY DEF AnswerText, Iterate, Shape, HistoryIsRight
  <2> QED BY <1>1, <1>2, <2>1, PairedAppend DEF Add
<1>5. Shape'
  BY <1>2, <1>3, <1>4 DEF AnswerText, Iterate, Add, Record, Shape
<1>6. Counters'
  BY <1>2, <1>3, LimitsAssumption DEF AnswerText, Iterate, Add, Record, Counters
<1>7. HistoryIsRight'
  BY <1>4 DEF AnswerText, Iterate, HistoryIsRight
<1> QED BY <1>3, <1>5, <1>6, <1>7

LEMMA BatchOrderIsRight ==
  ASSUME NEW calls \in Seq(Call)
  PROVE  /\ BatchOrder(calls) \in Seq(Call) /\ Len(BatchOrder(calls)) = Len(calls)
         /\ ToSet(BatchOrder(calls)) = ToSet(calls)
<1> DEFINE a == Those(calls, Call \ SideEffect)
           b == Those(calls, SideEffect)
<1>1. a \in Seq(Call) /\ b \in Seq(Call)
  <2>1. a \in Seq(Call \cap (Call \ SideEffect)) /\ b \in Seq(Call \cap SideEffect)
    BY ThoseType
  <2>2. Call \cap (Call \ SideEffect) \subseteq Call /\ Call \cap SideEffect \subseteq Call
    OBVIOUS
  <2> HIDE DEF a, b
  <2> QED BY <2>1, <2>2, SeqMonotonic
<1>2. Len(a) + Len(b) = Len(calls) /\ ToSet(a) \cup ToSet(b) = ToSet(calls)
  BY ThoseSplit
<1> HIDE DEF a, b
<1>3. BatchOrder(calls) = a \o b
  BY DEF BatchOrder, a, b
<1>4. a \o b \in Seq(Call) /\ Len(a \o b) = Len(a) + Len(b)
  BY <1>1
<1>5. ToSet(a \o b) = ToSet(a) \cup ToSet(b)
  <2>1. ToSet(a \o b) = Range(a \o b) /\ ToSet(a) = Range(a) /\ ToSet(b) = Range(b)
    BY DEF ToSet, Range
  <2> QED BY <1>1, <2>1, RangeConcatenation
<1> QED BY <1>2, <1>3, <1>4, <1>5

\* One or two calls that differ are as different in any order.
LEMMA DistinctInAnyOrder ==
  ASSUME NEW calls \in Seq(Call), Len(calls) \in 1 .. 2, Distinct(calls),
         NEW q \in Seq(Call), Len(q) = Len(calls), ToSet(q) = ToSet(calls)
  PROVE  Distinct(q)
<1>1. DOMAIN q = 1 .. Len(q) /\ DOMAIN calls = 1 .. Len(q)
  OBVIOUS
<1>2. CASE Len(q) = 1
  <2>1. \A i \in 1 .. 1 : i = 1
    OBVIOUS
  <2> QED BY <1>2, <2>1 DEF Distinct
<1>3. CASE Len(q) = 2
  <2>1. /\ 1 \in 1 .. 2 /\ 2 \in 1 .. 2 /\ 1 # 2
        /\ \A i \in 1 .. 2 : i = 1 \/ i = 2
    OBVIOUS
  <2>2. calls[1] # calls[2]
    BY <1>3, <2>1 DEF Distinct
  <2>3. ToSet(q) = {q[1], q[2]} /\ ToSet(calls) = {calls[1], calls[2]}
    BY <1>1, <1>3, <2>1 DEF ToSet
  <2>4. q[1] # q[2]
    BY <2>2, <2>3
  <2> QED BY <1>3, <2>1, <2>4 DEF Distinct
<1>4. Len(q) = 1 \/ Len(q) = 2
  OBVIOUS
<1> QED BY <1>2, <1>3, <1>4

LEMMA AnswerCallsInv ==
  ASSUME SessionInv, AnswerCalls
  PROVE  SessionInv' /\ Grown
<1> USE DEF SessionInv
<1>1. PICK calls \in NewCalls : Add(Assistant(calls)) /\ queue' = BatchOrder(calls)
  BY DEF AnswerCalls
<1>2. calls \in Seq(Call) /\ Len(calls) \in 1 .. 2 /\ Distinct(calls)
  <2>1. CASE \E c \in Call : calls = <<c>>
    <3>1. calls \in Seq(Call) /\ Len(calls) = 1
      BY <2>1
    <3> QED BY <3>1 DEF Distinct
  <2>2. CASE calls \in Call \X Call /\ calls[1] # calls[2]
    <3>1. calls \in Seq(Call) /\ Len(calls) = 2
      <4>1. PICK c \in Call, d \in Call : calls = <<c, d>>
        BY <2>2
      <4> QED BY <4>1
    <3>2. \A i \in 1 .. 2 : i = 1 \/ i = 2
      OBVIOUS
    <3>3. Distinct(calls)
      BY <2>2, <3>1, <3>2 DEF Distinct
    <3> QED BY <3>1, <3>3
  <2>3. (\E c \in Call : calls = <<c>>) \/ (calls \in Call \X Call /\ calls[1] # calls[2])
    BY DEF NewCalls
  <2> QED BY <2>1, <2>2, <2>3
<1> DEFINE u == Assistant(calls)
<1>3. u \in Formed
  BY <1>2 DEF Formed
<1>4. queue' \in Seq(Call) /\ Len(queue') = Len(calls) /\ ToSet(queue') = ToSet(calls)
  BY <1>1, <1>2, BatchOrderIsRight
<1>5. messages \in Seq(Formed) /\ (~ brokenOff => Paired(messages))
  BY DEF AnswerCalls, Iterate, Shape, HistoryIsRight
<1>6. ~ brokenOff => InBatch(messages', queue', Len(messages) + 1)
  <2>1. messages' = Append(messages, Assistant(calls))
    BY <1>1 DEF Add
  <2>2. Distinct(queue')
    <3> DEFINE q == queue'
    <3> HIDE DEF q
    <3>1. q \in Seq(Call) /\ Len(q) = Len(calls) /\ ToSet(q) = ToSet(calls)
      BY <1>4 DEF q
    <3>2. Distinct(q)
      BY <1>2, <3>1, DistinctInAnyOrder
    <3> QED BY <3>2 DEF q
  <2> QED BY <1>2, <1>4, <1>5, <2>1, <2>2, BatchBegins
<1> HIDE DEF u
<1>7. Add(u)
  BY <1>1 DEF u
<1>8. /\ files' \in [Session -> Seq(Line)] /\ buffer' \in Seq(Held)
      /\ errors' \in 0 .. MaxErrors /\ Grown
  BY <1>3, <1>7, RecordKeeps DEF Add, Record
<1>9. messages' \in Seq(Formed)
  BY <1>3, <1>5, <1>7 DEF Add
<1>10. Shape'
  BY <1>4, <1>7, <1>8, <1>9 DEF AnswerCalls, Iterate, Add, Record, Shape
<1>11. Counters'
  BY <1>7, <1>8, LimitsAssumption DEF AnswerCalls, Iterate, Add, Record, Counters
<1>12. HistoryIsRight'
  BY <1>6 DEF AnswerCalls, Iterate, HistoryIsRight
<1> QED BY <1>8, <1>10, <1>11, <1>12

LEMMA TakeResultInv ==
  ASSUME SessionInv, TakeResult
  PROVE  SessionInv' /\ Grown
<1> USE DEF SessionInv
<1> DEFINE u == Result(Head(queue))
<1>1. messages \in Seq(Formed) /\ queue \in Seq(Call) /\ queue # <<>> /\ pc = "tools"
  BY DEF TakeResult, Shape
<1>2. Head(queue) \in Call /\ Tail(queue) \in Seq(Call)
  BY <1>1
<1>3. u \in Formed
  BY <1>2 DEF Formed
<1>4. ASSUME ~ brokenOff PROVE \E b : InBatch(Append(messages, u), Tail(queue), b)
  <2>1. PICK b : InBatch(messages, queue, b)
    BY <1>1, <1>4 DEF HistoryIsRight
  <2>2. InBatch(Append(messages, u), Tail(queue), b)
    BY <1>1, <2>1, BatchGoesOn
  <2> QED BY <2>2
<1> HIDE DEF u
<1>6. Add(u)
  BY DEF TakeResult, u
<1>7. /\ files' \in [Session -> Seq(Line)] /\ buffer' \in Seq(Held)
      /\ errors' \in 0 .. MaxErrors /\ Grown
  BY <1>3, <1>6, RecordKeeps DEF Add, Record
<1>8. messages' \in Seq(Formed)
  BY <1>1, <1>3, <1>6 DEF Add
<1>9. Shape'
  BY <1>2, <1>6, <1>7, <1>8 DEF TakeResult, Add, Record, Shape, turn
<1>10. Counters'
  BY <1>6, <1>7 DEF TakeResult, Add, Record, Counters, turn
<1>11. HistoryIsRight'
  BY <1>1, <1>4, <1>6 DEF TakeResult, Add, HistoryIsRight
<1> QED BY <1>7, <1>9, <1>10, <1>11

LEMMA SpillFailsInv ==
  ASSUME SessionInv, SpillFails
  PROVE  SessionInv' /\ Grown
<1> USE DEF SessionInv
<1>1. Shape'
  BY EmptyIsPaired DEF SpillFails, Shape, disk, turn
<1>2. Counters'
  BY LimitsAssumption DEF SpillFails, Counters, turn
<1>3. HistoryIsRight'
  BY DEF SpillFails, HistoryIsRight
<1>4. Grown
  BY GrownWhole DEF SpillFails, disk
<1> QED BY <1>1, <1>2, <1>3, <1>4

LEMMA EndBatchInv ==
  ASSUME SessionInv, EndBatch
  PROVE  SessionInv' /\ Grown
<1> USE DEF SessionInv
<1>1. messages \in Seq(Formed) /\ queue = <<>> /\ pc = "tools"
  BY DEF EndBatch, Shape
<1>2. ASSUME ~ brokenOff PROVE Paired(messages)
  <2>1. PICK b : InBatch(messages, <<>>, b)
    BY <1>1, <1>2 DEF HistoryIsRight
  <2> QED BY <1>1, <2>1, BatchEnds
<1>3. unknown' \in Nat
  <2>1. PICK i \in DOMAIN messages : unknown' \in {0, unknown + Len(messages[i].calls)}
    BY DEF EndBatch
  <2>2. messages[i].calls \in Seq(Call)
    <3>1. messages[i] \in Formed
      BY <1>1, <2>1
    <3>2. messages[i] \in Message
      BY <3>1, FormedIsMessage
    <3> QED BY <3>2 DEF Message
  <2> DEFINE l == Len(messages[i].calls)
  <2>3. l \in Nat /\ unknown' \in {0, unknown + l} /\ unknown \in Nat
    BY <2>1, <2>2 DEF Counters
  <2> HIDE DEF l
  <2> QED BY <2>3
<1>4. Shape'
  BY <1>1 DEF EndBatch, Shape, disk
<1>5. Counters'
  <2>1. pc' = "request" => unknown' < MaxUnknown
    BY <1>3, LimitsAssumption DEF EndBatch
  <2>2. pc' # "tools" /\ UNCHANGED <<iterations, empties, turns, crashes, errors>>
    BY DEF EndBatch, bounds
  <2> QED BY <1>1, <1>3, <2>1, <2>2 DEF Counters
<1>6. HistoryIsRight'
  BY <1>2 DEF EndBatch, HistoryIsRight
<1>7. Grown
  BY GrownWhole DEF EndBatch, disk
<1> QED BY <1>4, <1>5, <1>6, <1>7

LEMMA StopAtLimitInv ==
  ASSUME SessionInv, StopAtLimit
  PROVE  SessionInv' /\ Grown
<1> USE DEF SessionInv
<1>1. Shape' /\ Counters'
  BY DEF StopAtLimit, Shape, Counters, disk, turn, bounds
<1>2. HistoryIsRight'
  BY DEF StopAtLimit, HistoryIsRight
<1>3. Grown
  BY GrownWhole DEF StopAtLimit, disk
<1> QED BY <1>1, <1>2, <1>3

LEMMA CrashInv ==
  ASSUME SessionInv, Crash
  PROVE  SessionInv' /\ Grown
<1> USE DEF SessionInv
<1>1. session \in Session /\ \A s \in Session : files[s] \in Seq(Line)
  BY DEF Shape
<1>2. Torned(files[session]) \in Seq(Line)
      /\ Readable(Torned(files[session])) = Readable(files[session])
  BY <1>1, TornedReads
<1>3. files' \in [Session -> Seq(Line)]
  BY <1>1, <1>2 DEF Crash, Shape
<1>4. \A s \in Session : Readable(files'[s]) = Readable(files[s])
  BY <1>1, <1>2 DEF Crash, Shape
<1>5. Grown
  <2> SUFFICES ASSUME NEW s \in Session
               PROVE  IsPrefix(Readable(files[s]), Readable(files[s]))
    BY <1>4 DEF Grown
  <2>1. Readable(files[s]) \in Seq(Formed)
    BY <1>1, ReadableType
  <2> QED BY <2>1 DEF IsPrefix
<1>6. Shape'
  BY <1>3, EmptyIsPaired DEF Crash, Shape
<1>7. Counters'
  BY LimitsAssumption DEF Crash, Counters
<1>8. HistoryIsRight'
  BY DEF Crash, HistoryIsRight
<1> QED BY <1>5, <1>6, <1>7, <1>8

LEMMA StartInv ==
  ASSUME SessionInv, Start
  PROVE  SessionInv' /\ Grown
<1> USE DEF SessionInv
<1>1. Shape'
  BY DEF Start, Shape, turn
<1>2. Counters'
  BY DEF Start, Counters, turn, bounds
<1>3. HistoryIsRight'
  BY EmptyIsPaired DEF Start, HistoryIsRight
<1>4. Grown
  BY GrownWhole DEF Start
<1> QED BY <1>1, <1>2, <1>3, <1>4

LEMMA ClearInv ==
  ASSUME SessionInv, Clear
  PROVE  SessionInv' /\ Grown
<1> USE DEF SessionInv
<1>1. Append(buffer, Event) \in Seq(Line)
  <2>1. buffer \in Seq(Line) /\ Event \in Line
    <3>1. Held \subseteq Line /\ Event \in Line /\ buffer \in Seq(Held)
      BY DEF Shape, Line, Held
    <3> QED BY <3>1, SeqMonotonic
  <2> QED BY <2>1
<1>2. files' \in [Session -> Seq(Line)] /\ Grown
  BY <1>1, FlushKeeps DEF Clear
<1>3. Shape'
  BY <1>2, EmptyIsPaired DEF Clear, Shape
<1>4. Counters'
  BY LimitsAssumption DEF Clear, Counters, bounds
<1>5. HistoryIsRight'
  BY EmptyIsPaired DEF Clear, HistoryIsRight
<1> QED BY <1>2, <1>3, <1>4, <1>5

LEMMA ClearFailsInv ==
  ASSUME SessionInv, ClearFails
  PROVE  SessionInv' /\ Grown
<1> USE DEF SessionInv
<1>1. buffer' \in Seq(Held)
  <2>1. buffer \in Seq(Held) /\ Event \in Held
    BY DEF Shape, Held
  <2>2. Append(buffer, Event) \in Seq(Held)
    BY <2>1
  <2> QED BY <2>1, <2>2 DEF ClearFails
<1>2. Shape'
  BY <1>1, EmptyIsPaired DEF ClearFails, Shape
<1>3. Counters'
  BY LimitsAssumption DEF ClearFails, Counters
<1>4. HistoryIsRight'
  BY EmptyIsPaired DEF ClearFails, HistoryIsRight
<1>5. Grown
  BY GrownWhole DEF ClearFails
<1> QED BY <1>2, <1>3, <1>4, <1>5

LEMMA ResumeInv ==
  ASSUME SessionInv, NEW s \in Session, ResumeSession(s)
  PROVE  SessionInv' /\ Grown
<1> USE DEF SessionInv
<1>1. buffer \in Seq(Line) /\ files[s] \in Seq(Line)
  <2>1. Held \subseteq Line /\ buffer \in Seq(Held)
    BY DEF Shape, Line, Held
  <2> QED BY <2>1, SeqMonotonic DEF Shape
<1>2. files' \in [Session -> Seq(Line)] /\ Grown
  BY <1>1, FlushKeeps DEF ResumeSession
<1>3. Recovered(files[s]) \in Seq(Formed) /\ Paired(Recovered(files[s]))
  BY <1>1, RecoveredType
<1>4. messages' \in Seq(Formed) /\ Paired(messages')
  <2>1. PICK notice \in {<<>>, <<User>>} : messages' = Recovered(files[s]) \o notice
    BY DEF ResumeSession
  <2> DEFINE r == Recovered(files[s])
  <2> HIDE DEF r
  <2>2. CASE notice = <<>>
    <3>1. r \o <<>> = r
      BY <1>3 DEF r
    <3> QED BY <1>3, <2>1, <2>2, <3>1 DEF r
  <2>3. CASE notice = <<User>>
    <3>1. User \in Formed /\ User.role = "user" /\ User.calls = <<>>
      BY DEF Formed, User
    <3>2. r \o <<User>> = Append(r, User) /\ Append(r, User) \in Seq(Formed)
      BY <1>3, <3>1 DEF r
    <3>3. Paired(Append(r, User))
      BY <1>3, <3>1, PairedAppend DEF r
    <3> QED BY <2>1, <2>3, <3>2, <3>3 DEF r
  <2> QED BY <2>1, <2>2, <2>3
<1>5. Shape'
  BY <1>2, <1>4, EmptyIsPaired DEF ResumeSession, Shape, turn
<1>6. Counters'
  BY DEF ResumeSession, Counters, turn, bounds
<1>7. HistoryIsRight'
  BY <1>4 DEF ResumeSession, HistoryIsRight
<1> QED BY <1>2, <1>5, <1>6, <1>7

LEMMA StepInv ==
  ASSUME SessionInv, [Next]_vars
  PROVE  SessionInv' /\ Grown
<1>1. CASE UNCHANGED vars
  <2>1. UNCHANGED <<pc, messages, session, files, opened, buffer, iterations, empties,
                    unknown, turnStart, queue, brokenOff, turns, crashes, errors>>
    BY <1>1 DEF vars, disk, turn, bounds
  <2>2. Grown
    BY <2>1, GrownWhole DEF SessionInv
  <2> QED BY <2>1, <2>2 DEF SessionInv, Shape, Counters, HistoryIsRight
<1>2. CASE Agent
  BY <1>2, FailRequestInv, AnswerNothingInv, AnswerTextInv, AnswerCallsInv, TakeResultInv,
     SpillFailsInv, EndBatchInv, StopAtLimitInv DEF Agent
<1>3. CASE Operator
  BY <1>3, SubmitInv, ClearInv, ClearFailsInv, ResumeInv DEF Operator
<1>4. CASE Crash
  BY <1>4, CrashInv
<1>5. CASE Start
  BY <1>5, StartInv
<1> QED BY <1>1, <1>2, <1>3, <1>4, <1>5 DEF Next

LEMMA SessionInvHolds == Spec => []SessionInv
<1>1. Init => SessionInv
  BY InitInv
<1>2. SessionInv /\ [Next]_vars => SessionInv'
  BY StepInv
<1> QED BY <1>1, <1>2, PTL DEF Spec

THEOREM TypeCorrect == Spec => []TypeOK
<1>1. SessionInv => TypeOK
  <2> SUFFICES ASSUME SessionInv PROVE TypeOK
    OBVIOUS
  <2>1. messages \in Seq(Message)
    BY FormedIsMessage, SeqMonotonic DEF SessionInv, Shape
  <2>2. Line \subseteq Lines
    BY FormedIsMessage DEF Line, Lines
  <2>4. buffer \in Seq(Lines)
    <3>1. Held \subseteq Lines
      BY <2>2 DEF Held, Line
    <3> QED BY <3>1, SeqMonotonic DEF SessionInv, Shape
  <2>3. files \in [Session -> Seq(Lines)]
    <3>1. Seq(Line) \subseteq Seq(Lines)
      BY <2>2, SeqMonotonic
    <3> QED BY <3>1 DEF SessionInv, Shape
  <2> QED BY <2>1, <2>3, <2>4 DEF SessionInv, Shape, Counters, HistoryIsRight, TypeOK
<1> QED BY <1>1, SessionInvHolds, PTL

(* Whatever was interrupted, resumed or lost before, a request shows the     *)
(* provider a history in which each call is answered at once, and each       *)
(* result was asked for (agent.py:287-294, recovery.py:6-36).  A turn that   *)
(* broke off amid its calls is the exception, until /clear or a resume.      *)
THEOREM RequestIsPairedTheorem == Spec => []RequestIsPaired
<1>1. SessionInv => RequestIsPaired
  BY DEF SessionInv, HistoryIsRight, RequestIsPaired
<1> QED BY <1>1, SessionInvHolds, PTL

(* What a resume can restore stays restorable: neither a later turn, a       *)
(* failed write, a crash nor another resume takes a safe message away        *)
(* (sessions.py:22 and 48-50).                                               *)
THEOREM RestorableStaysTheorem == Spec => RestorableStays
<1>1. SessionInv /\ SessionInv' /\ [Next]_vars =>
        [\A s \in Session : IsPrefix(Recovered(files[s]), Recovered(files'[s]))]_vars
  <2> SUFFICES ASSUME SessionInv, SessionInv', [Next]_vars, NEW s \in Session
               PROVE  IsPrefix(Recovered(files[s]), Recovered(files'[s]))
    OBVIOUS
  <2>1. Grown
    BY StepInv
  <2>2. files[s] \in Seq(Line) /\ files'[s] \in Seq(Line)
    BY DEF SessionInv, Shape
  <2>3. IsPrefix(Readable(files[s]), Readable(files'[s]))
    BY <2>1 DEF Grown
  <2> QED BY <2>2, <2>3, RecoveredGrows
<1> QED BY <1>1, SessionInvHolds, PTL DEF Spec, RestorableStays

-----------------------------------------------------------------------------
(* The conversation and its archive *)

\* What the agent remembers is what the archive reads, or the archive is not in
\* order: for good, or until the next message of the user makes it so for good.
Told(m, r, at) ==
  \/ NotOfUser(m) = NotOfUser(r)
  \/ \A x \in Seq(Message) : ~ InOrder(r \o x)
  \/ at = "prompt" /\ ~ InOrder(r)

Here == files[session]
ArchiveInv ==
  /\ \A s \in Session \ opened : files[s] = <<>>
  /\ errors = 0 => buffer = <<>>
  /\ errors = 0 /\ pc # "down" /\ ~ Skipped(Here) => Told(messages, Readable(Here), pc)

LEMMA NotOfUserAppend ==
  ASSUME NEW m \in Seq(Formed), NEW u \in Formed
  PROVE  /\ u.role = "user" => NotOfUser(Append(m, u)) = NotOfUser(m)
         /\ u.role # "user" => NotOfUser(Append(m, u)) = Append(NotOfUser(m), u)
BY FormedIsMessage, ThoseAppend DEF NotOfUser

LEMMA ToldAppend ==
  ASSUME NEW m \in Seq(Formed), NEW r \in Seq(Formed), NEW u \in Formed, NEW at, NEW next,
         Told(m, r, at), at = "prompt" => u.role # "tool"
  PROVE  Told(Append(m, u), Append(r, u), next)
<1>1. CASE NotOfUser(m) = NotOfUser(r)
  BY <1>1, NotOfUserAppend DEF Told
<1>2. CASE \A x \in Seq(Message) : ~ InOrder(r \o x)
  <2>1. ASSUME NEW x \in Seq(Message) PROVE ~ InOrder(Append(r, u) \o x)
    <3>1. u \in Message /\ r \in Seq(Message)
      BY FormedIsMessage, SeqMonotonic
    <3>2. <<u>> \o x \in Seq(Message)
      BY <3>1
    <3>3. Append(r, u) \o x = r \o (<<u>> \o x)
      BY <3>1
    <3> QED BY <1>2, <3>2, <3>3
  <2> QED BY <2>1 DEF Told
<1>3. CASE at = "prompt" /\ ~ InOrder(r)
  <2>1. u \in Message /\ r \in Seq(Message)
    BY FormedIsMessage, SeqMonotonic
  <2>2. \A x \in Seq(Message) : ~ InOrder(Append(r, u) \o x)
    BY <1>3, <2>1, BrokenStays
  <2> QED BY <2>2 DEF Told
<1> QED BY <1>1, <1>2, <1>3 DEF Told

LEMMA ToldLater ==
  ASSUME NEW m, NEW w, NEW r, NEW at, NEW next,
         Told(m, r, at), at # "prompt", NotOfUser(w) = NotOfUser(m)
  PROVE  Told(w, r, next)
BY DEF Told

\* What a record does when nothing has failed yet.
LEMMA RecordTells ==
  ASSUME Shape, Counters, ArchiveInv, NEW u \in Formed, Written(u) \/ NotWritten(u),
         session' = session, opened' = opened
  PROVE  /\ \A s \in Session \ opened' : files'[s] = <<>>
         /\ errors' = 0 => buffer' = <<>> /\ errors = 0
         /\ errors' = 0 /\ ~ Skipped(Here') =>
              ~ Skipped(Here) /\ Readable(Here') = Append(Readable(Here), u)
<1>1. session \in Session /\ session \in opened /\ Here \in Seq(Line) /\ u \in Line
  BY DEF Shape, Here, Line
<1>2. CASE NotWritten(u)
  <2>1. errors' # 0 /\ UNCHANGED files
    BY <1>2 DEF NotWritten, Counters
  <2> QED BY <2>1 DEF ArchiveInv
<1>3. CASE Written(u)
  <2>1. buffer' = <<>> /\ errors' = errors
        /\ files' = [files EXCEPT ![session] = Flushed(Here, Append(buffer, u))]
    BY <1>3 DEF Written, Here
  <2>2. \A s \in Session \ opened' : files'[s] = <<>>
    BY <1>1, <2>1 DEF ArchiveInv, Shape
  <2>3. ASSUME errors' = 0, ~ Skipped(Here')
        PROVE  ~ Skipped(Here) /\ Readable(Here') = Append(Readable(Here), u)
    <3>1. Append(buffer, u) = <<u>>
      BY <2>1, <2>3 DEF ArchiveInv
    <3>2. Here' = Flushed(Here, <<u>>)
      BY <1>1, <2>1, <3>1 DEF Shape, Here
    <3>3. <<u>> # <<>> /\ Head(<<u>>) = u /\ Tail(<<u>>) = <<>>
      OBVIOUS
    <3>4. Flushed(Here, <<u>>) = Landed(Here, u) \o <<>>
      BY <3>3 DEF Flushed
    <3>5. Landed(Here, u) \in Seq(Line)
      BY <1>1, LandedReads
    <3>6. Here' = Landed(Here, u)
      BY <3>2, <3>4, <3>5
    <3>7. ~ Skipped(Here)
      BY <1>1, <2>3, <3>6, LandedReads
    <3>8. Here' = Append(Here, u)
      BY <1>1, <3>6, <3>7, LandedReads
    <3> QED BY <1>1, <3>7, <3>8, ReadableOfAppend
  <2> QED BY <2>1, <2>2, <2>3
<1> QED BY <1>2, <1>3

LEMMA AddTells ==
  ASSUME Shape, Counters, ArchiveInv, NEW u \in Formed, Written(u) \/ NotWritten(u),
         session' = session, opened' = opened, messages' = Append(messages, u),
         pc # "down", pc = "prompt" => u.role # "tool"
  PROVE  ArchiveInv'
<1>1. /\ \A s \in Session \ opened' : files'[s] = <<>>
      /\ errors' = 0 => buffer' = <<>> /\ errors = 0
      /\ errors' = 0 /\ ~ Skipped(Here') =>
           ~ Skipped(Here) /\ Readable(Here') = Append(Readable(Here), u)
  BY RecordTells
<1>2. ASSUME errors' = 0, ~ Skipped(Here') PROVE Told(messages', Readable(Here'), pc')
  <2>1. messages \in Seq(Formed) /\ Readable(Here) \in Seq(Formed)
    BY ReadableType DEF Shape, Here
  <2>2. Told(messages, Readable(Here), pc)
    BY <1>1, <1>2 DEF ArchiveInv
  <2>3. Told(Append(messages, u), Append(Readable(Here), u), pc')
    BY <2>1, <2>2, ToldAppend
  <2> QED BY <1>1, <1>2, <2>3
<1> QED BY <1>1, <1>2 DEF ArchiveInv

\* Steps that leave the archive alone and take no message of the agent.
LEMMA RestTells ==
  ASSUME ArchiveInv, UNCHANGED <<files, session, opened, buffer, errors>>,
         pc \in {"request", "tools"}, NotOfUser(messages') = NotOfUser(messages)
  PROVE  ArchiveInv'
<1>1. Here' = Here
  BY DEF Here
<1>2. ASSUME errors = 0, ~ Skipped(Here) PROVE Told(messages', Readable(Here), pc')
  <2>1. Told(messages, Readable(Here), pc)
    BY <1>2 DEF ArchiveInv
  <2> QED BY <2>1, ToldLater
<1> QED BY <1>1, <1>2 DEF ArchiveInv

LEMMA NotOfUserWithoutLast ==
  ASSUME Shape
  PROVE  NotOfUser(WithoutLastUser) = NotOfUser(messages)
<1>1. messages \in Seq(Formed) /\ turnStart \in Nat
  BY DEF Shape
<1>2. CASE Len(messages) > turnStart /\ Last(messages).role = "user"
  <2>1. Len(messages) \in Nat \ {0}
    BY <1>1, <1>2
  <2> DEFINE n == Len(messages) - 1
             u == Last(messages)
             w == Front(messages)
  <2>2. w \in Seq(Formed) /\ u \in Formed /\ messages = Append(w, u)
    BY <1>1, <2>1 DEF Front, Last
  <2>3. u.role = "user"
    BY <1>2
  <2>4. WithoutLastUser = w
    BY <1>2 DEF WithoutLastUser
  <2> HIDE DEF w, u
  <2> QED BY <2>2, <2>3, <2>4, NotOfUserAppend
<1>3. CASE ~ (Len(messages) > turnStart /\ Last(messages).role = "user")
  BY <1>3 DEF WithoutLastUser
<1> QED BY <1>2, <1>3

LEMMA ArchiveStep ==
  ASSUME SessionInv, ArchiveInv, [Next]_vars
  PROVE  ArchiveInv'
<1>0. Shape /\ Counters /\ HistoryIsRight /\ messages \in Seq(Formed)
  BY DEF SessionInv, Shape
<1>u. User \in Formed /\ User.role = "user"
  BY DEF Formed, User
<1>1. CASE UNCHANGED vars
  BY <1>1 DEF vars, disk, turn, bounds, ArchiveInv, Here
<1>2. CASE Submit
  BY <1>0, <1>2, <1>u, AddTells DEF Submit
<1>3. CASE FailRequest
  <2>1. NotOfUser(messages') = NotOfUser(messages)
    BY <1>0, <1>3, NotOfUserWithoutLast DEF FailRequest
  <2> QED BY <1>3, <2>1, RestTells DEF FailRequest, Iterate, disk, bounds
<1>4. CASE AnswerNothing
  <2>1. NotOfUser(Append(messages, User)) = NotOfUser(messages)
    BY <1>0, <1>u, NotOfUserAppend
  <2>2. NotOfUser(messages') = NotOfUser(messages)
    BY <1>0, <1>4, <2>1, NotOfUserWithoutLast DEF AnswerNothing
  <2> QED BY <1>4, <2>2, RestTells DEF AnswerNothing, Iterate, disk, bounds
<1>5. CASE AnswerText
  <2>1. Assistant(<<>>) \in Formed /\ Add(Assistant(<<>>)) /\ pc = "request"
    BY <1>5, EmptyIsPaired DEF AnswerText, Iterate, Formed
  <2> QED BY <1>0, <2>1, AddTells DEF Add, Record
<1>6. CASE AnswerCalls
  <2>1. PICK calls \in NewCalls : Add(Assistant(calls))
    BY <1>6 DEF AnswerCalls
  <2>2. pc = "request"
    BY <1>6 DEF AnswerCalls, Iterate
  <2>3. calls \in Seq(Call)
    <3>1. CASE \E c \in Call : calls = <<c>>
      BY <3>1
    <3>2. CASE calls \in Call \X Call
      <4>1. PICK c \in Call, d \in Call : calls = <<c, d>>
        BY <3>2
      <4> QED BY <4>1
    <3>3. (\E c \in Call : calls = <<c>>) \/ calls \in Call \X Call
      BY DEF NewCalls
    <3> QED BY <3>1, <3>2, <3>3
  <2>4. Assistant(calls) \in Formed
    BY <2>3 DEF Formed
  <2> QED BY <1>0, <2>1, <2>2, <2>4, AddTells DEF Add, Record
<1>7. CASE TakeResult
  <2>1. Head(queue) \in Call
    BY <1>0, <1>7 DEF TakeResult, Shape
  <2>2. Result(Head(queue)) \in Formed
    BY <2>1 DEF Formed
  <2> QED BY <1>0, <1>7, <2>2, AddTells DEF TakeResult, Add, Record
<1>14. CASE SpillFails \/ ClearFails
  <2>1. errors' # 0 /\ UNCHANGED <<files, opened>>
    BY <1>0, <1>14 DEF SpillFails, ClearFails, Counters, disk
  <2> QED BY <2>1 DEF ArchiveInv
<1>8. CASE EndBatch
  BY <1>8, RestTells DEF EndBatch, disk, bounds
<1>9. CASE StopAtLimit
  BY <1>9, RestTells DEF StopAtLimit, disk, bounds
<1>10. CASE Crash
  <2>1. \A s \in Session \ opened : files'[s] = files[s]
    BY <1>0, <1>10 DEF Crash, Shape
  <2> QED BY <1>10, <2>1 DEF Crash, ArchiveInv
<1>n. /\ <<>> \in Seq(Formed) /\ Readable(<<>>) = <<>>
  BY EmptyIsPaired, ThoseEmpty DEF Readable
<1>11. CASE Start
  <2>1. PICK s \in Session \ opened : session' = s /\ opened' = opened \cup {s}
    BY <1>11 DEF Start
  <2>2. Here' = <<>> /\ messages' = <<>>
    BY <1>0, <1>11, <2>1 DEF Start, Here, ArchiveInv, HistoryIsRight
  <2>3. Told(messages', Readable(Here'), pc')
    BY <1>n, <2>2 DEF Told
  <2> QED BY <1>11, <2>1, <2>3 DEF Start, bounds, ArchiveInv
<1>12. CASE Clear
  <2>1. PICK s \in Session \ opened : session' = s /\ opened' = opened \cup {s}
    BY <1>12 DEF Clear
  <2>2. \A t \in Session \ opened : files'[t] = <<>>
    BY <1>0, <1>12 DEF Clear, Shape, ArchiveInv
  <2>3. Here' = <<>> /\ messages' = <<>>
    BY <1>12, <2>1, <2>2 DEF Clear, Here
  <2>4. Told(messages', Readable(Here'), pc')
    BY <1>n, <2>3 DEF Told
  <2> QED BY <1>12, <2>1, <2>2, <2>4 DEF Clear, ArchiveInv
<1>13. ASSUME NEW s \in Session, ResumeSession(s) PROVE ArchiveInv'
  <2>1. \A t \in Session \ opened' : files'[t] = <<>>
    BY <1>0, <1>13 DEF ResumeSession, Shape, ArchiveInv
  <2>2. errors' = errors /\ buffer' = <<>> /\ pc = "prompt" /\ pc' = pc /\ session' = s
    BY <1>13 DEF ResumeSession, bounds
  <2>3. ASSUME errors = 0 PROVE Told(messages', Readable(Here'), "prompt")
    <3>1. buffer = <<>>
      BY <2>3 DEF ArchiveInv
    <3>2. Flushed(files[session], buffer) = files[session]
      BY <3>1 DEF Flushed
    <3>3. files'[s] = files[s]
      BY <1>0, <1>13, <3>2 DEF ResumeSession, Shape
    <3> DEFINE r == Readable(files[s])
    <3>4. Readable(Here') = r
      BY <2>2, <3>3 DEF Here
    <3>5. r \in Seq(Formed) /\ r \in Seq(Message)
      BY <1>0, ReadableType DEF Shape
    <3>6. PICK notice \in {<<>>, <<User>>} : messages' = SafeMessages(r) \o notice
      BY <1>13 DEF ResumeSession, Recovered
    <3> HIDE DEF r
    <3>7. CASE InOrder(r)
      <4>1. messages' = r \o notice
        BY <3>5, <3>6, <3>7, SafeOfInOrder
      <4>2. r \o <<>> = r /\ r \o <<User>> = Append(r, User)
        BY <1>u, <3>5
      <4>3. NotOfUser(Append(r, User)) = NotOfUser(r)
        BY <1>u, <3>5, NotOfUserAppend
      <4>4. NotOfUser(messages') = NotOfUser(r)
        BY <3>6, <4>1, <4>2, <4>3
      <4> QED BY <3>4, <4>4 DEF Told
    <3>8. CASE ~ InOrder(r)
      BY <3>4, <3>8 DEF Told
    <3> QED BY <3>7, <3>8
  <2> QED BY <2>1, <2>2, <2>3 DEF ArchiveInv
<1> QED BY <1>1, <1>2, <1>3, <1>4, <1>5, <1>6, <1>7, <1>8, <1>9, <1>10, <1>11, <1>12, <1>13,
        <1>14 DEF Next, Agent, Operator

(* While no write failed and the archive reads in order, a resume would give *)
(* the agent all it said and got from tools: nothing is recorded twice, late *)
(* or out of place in any turn, over any number of resumes (agent.py:376-380,*)
(* 687-690 and 729-732, manager.py:66-72).                                   *)
THEOREM ArchiveMatchesTheorem == Spec => []ArchiveMatches
<1>1. Init => ArchiveInv
  <2> SUFFICES ASSUME Init PROVE ArchiveInv
    OBVIOUS
  <2>1. Here = <<>> /\ messages = <<>> /\ buffer = <<>> /\ \A s \in Session : files[s] = <<>>
    BY DEF Init, Here
  <2>2. Readable(<<>>) = <<>>
    BY ThoseEmpty DEF Readable
  <2>3. Told(messages, Readable(Here), pc)
    BY <2>1, <2>2 DEF Told
  <2> QED BY <2>1, <2>3 DEF ArchiveInv
<1>2. SessionInv /\ ArchiveInv /\ [Next]_vars => ArchiveInv'
  BY ArchiveStep
<1>3. SessionInv /\ ArchiveInv => ArchiveMatches
  <2> SUFFICES ASSUME SessionInv, ArchiveInv, pc # "down", errors = 0, ~ Skipped(Here),
                      InOrder(Readable(Here))
               PROVE  NotOfUser(messages) = NotOfUser(Recovered(Here))
    BY DEF ArchiveMatches, Here
  <2> DEFINE r == Readable(Here)
  <2>1. r \in Seq(Message)
    BY ReadableType DEF SessionInv, Shape, Here
  <2>2. SafeMessages(r) = r
    BY <2>1, SafeOfInOrder
  <2>3. ~ \A x \in Seq(Message) : ~ InOrder(r \o x)
    <3> HIDE DEF r
    <3>1. <<>> \in Seq(Message) /\ r \o <<>> = r
      BY <2>1, EmptySeq
    <3> QED BY <3>1 DEF r
  <2>4. Told(messages, r, pc)
    BY DEF ArchiveInv
  <2>5. NotOfUser(messages) = NotOfUser(r)
    BY <2>3, <2>4 DEF Told
  <2> QED BY <2>2, <2>5 DEF Recovered
<1> QED BY <1>1, <1>2, <1>3, SessionInvHolds, PTL DEF Spec

-----------------------------------------------------------------------------
(* What a child run is given (ChildRuns) *)

\* In the middle of a batch only what is in front of the asking message is
\* finished.
LEMMA BatchIsOpen ==
  ASSUME NEW m \in Seq(Formed), NEW q \in Seq(Call), q # <<>>, NEW b, InBatch(m, q, b)
  PROVE  OpenAt(m, b) /\ b \in 1 .. Len(m) /\ Asks(m[b])
<1> DEFINE n == Len(m)
<1>1. /\ b \in 1 .. n /\ b \in Nat /\ n \in Nat /\ b \in 1 .. n + 1 /\ m[b].role = "assistant"
      /\ \A j \in b + 1 .. n : m[j].role = "tool"
      /\ Len(m[b].calls) \in 1 .. 2
  BY DEF InBatch
<1>2. Asks(m[b])
  <2> DEFINE calls == m[b].calls
  <2>1. Len(calls) \in 1 .. 2
    BY <1>1
  <2> HIDE DEF calls
  <2>2. Len(<<>>) = 0 /\ 0 \notin 1 .. 2
    BY EmptySeq
  <2>3. calls # <<>>
    BY <2>1, <2>2, Zenon
  <2> QED BY <1>1, <2>3 DEF Asks, calls
<1>3. ~ (Calls(m[b]) \subseteq {m[j].answers : j \in b + 1 .. n})
  <2>1. Head(q) \in ToSet(q)
    <3>1. 1 \in DOMAIN q /\ Head(q) = q[1]
      OBVIOUS
    <3> QED BY <3>1 DEF ToSet
  <2> QED BY <2>1 DEF InBatch, NoneTwice, Calls, n
<1>4. PairedUpTo(m, b)
  BY <1>1 DEF InBatch, PairedUpTo
<1> QED BY <1>1, <1>2, <1>3, <1>4 DEF OpenAt

(* A child run is given nothing but what is finished.  For a forked subagent *)
(* the copy it is made from is taken before each request (agent.py:278-287)  *)
(* and when the program starts (cli.py:406-415): it gets all of that.  An    *)
(* isolated skill is started by a command or by a call of the last response  *)
(* (cli.py:346-354), and gets the end of what is in front of that, whatever  *)
(* its definition asks for (subagents/history.py:8-40,                       *)
(* skills/runner.py:169-203).  A turn that broke off amid its calls is the   *)
(* exception: a child gets what was in front of those calls.                 *)
ChildrenGetWhatIsFinished ==
  /\ pc \in {"prompt", "request"} /\ ~ brokenOff =>
       \A asked \in Nat : GivesFinished(messages, messages, asked)
  /\ pc = "tools" /\ queue # <<>> /\ ~ brokenOff =>
       \E b \in DOMAIN messages :
         /\ Asks(messages[b]) /\ \A j \in DOMAIN messages : j > b => messages[j].role = "tool"
         /\ \A asked \in Nat : GivesFinished(messages, SubSeq(messages, 1, b - 1), asked)

THEOREM ChildrenGetWhatIsFinishedTheorem == Spec => []ChildrenGetWhatIsFinished
<1>1. SessionInv => ChildrenGetWhatIsFinished
  <2> SUFFICES ASSUME SessionInv PROVE ChildrenGetWhatIsFinished
    OBVIOUS
  <2> DEFINE n == Len(messages)
  <2>1. messages \in Seq(Formed) /\ queue \in Seq(Call) /\ n \in Nat /\ DOMAIN messages = 1 .. n
    BY DEF SessionInv, Shape
  <2>2. ASSUME pc \in {"prompt", "request"}, ~ brokenOff, NEW asked \in Nat
        PROVE  GivesFinished(messages, messages, asked)
    <3>1. Paired(messages)
      BY <2>2 DEF SessionInv, HistoryIsRight
    <3>2. /\ n + 1 \in 1 .. n + 1 /\ (n + 1) - 1 = n /\ ~ (n + 1 <= n)
          /\ SubSeq(messages, 1, n) = messages
      BY <2>1
    <3>3. OpenAt(messages, n + 1)
      BY <3>1, <3>2 DEF OpenAt, PairedUpTo
    <3>4. GivesFinished(messages, SubSeq(messages, 1, (n + 1) - 1), asked)
      <4> DEFINE b == n + 1
      <4>1. OpenAt(messages, b)
        BY <3>3
      <4> HIDE DEF b
      <4>2. GivesFinished(messages, SubSeq(messages, 1, b - 1), asked)
        BY <2>1, <4>1, ChildrenAreGivenWhatIsFinished
      <4> QED BY <4>2 DEF b
    <3> HIDE DEF n
    <3> QED BY <3>2, <3>4
  <2>3. ASSUME pc = "tools", queue # <<>>, ~ brokenOff
        PROVE  \E b \in DOMAIN messages :
                 /\ Asks(messages[b])
                 /\ \A j \in DOMAIN messages : j > b => messages[j].role = "tool"
                 /\ \A asked \in Nat : GivesFinished(messages, SubSeq(messages, 1, b - 1), asked)
    <3>1. PICK b : InBatch(messages, queue, b)
      BY <2>3 DEF SessionInv, HistoryIsRight
    <3>2. OpenAt(messages, b) /\ b \in 1 .. n /\ Asks(messages[b])
      BY <2>1, <2>3, <3>1, BatchIsOpen
    <3>3. ASSUME NEW j \in 1 .. n, j > b PROVE messages[j].role = "tool"
      <4>1. j \in b + 1 .. n /\ b <= n
        BY <2>1, <3>2, <3>3
      <4> QED BY <3>2, <4>1 DEF OpenAt
    <3>4. \A asked \in Nat : GivesFinished(messages, SubSeq(messages, 1, b - 1), asked)
      BY <2>1, <3>2, ChildrenAreGivenWhatIsFinished
    <3> QED BY <2>1, <3>2, <3>3, <3>4
  <2> QED BY <2>2, <2>3 DEF ChildrenGetWhatIsFinished
<1> QED BY <1>1, SessionInvHolds, PTL

=============================================================================
