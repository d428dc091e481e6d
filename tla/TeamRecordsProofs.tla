------------------------- MODULE TeamRecordsProofs -------------------------
(***************************************************************************)
(* What a team keeps on disk.  The mailbox: until somebody dies its files  *)
(* implement MailboxSpec, for any number of mailboxes, messages, threads   *)
(* and any length of the lists of recipients.  The roster, for any number  *)
(* of members, teams and failures: as long as nothing overlaps, what it    *)
(* says of each member is so.                                              *)
(***************************************************************************)
EXTENDS Mailbox, TeamRoster, SequenceTheorems, FiniteSetTheorems, TLAPS

-----------------------------------------------------------------------------
(* The mailbox *)

Caller == {Idle} \cup Sending \cup Marking \cup Rewriting
Inside == {"append", "send_unlock", "load", "unlink", "rewrite"}
SendStep == {"send_lock", "append", "send_unlock"}

\* Who is between the two ends of a critical section holds its lock, and the
\* file has not changed since it was read.
Guarded ==
  \A w \in Worker : /\ call[w].at \in Inside => lock[call[w].to] = w
                    /\ call[w].at = "unlink" => call[w].lines = box[call[w].to]

\* A message is being sent by the one thread that began to send it.
Theirs == \A w \in Worker : call[w].at \in SendStep => sender[call[w].msg] = w

MailboxInv == TypeOK /\ (crashed = {} => Guarded /\ Theirs)

\* What MailboxSpec sees of the files.
View == <<[b \in Box |-> Contents(b)], [m \in Msg |-> Owed(m)],
          {m \in Msg : sender[m] # Free}, crashed # {}>>

\* A step that keeps the invariant and the promise.
Kept == Guarded' /\ Theirs' /\ (Promise!Next \/ UNCHANGED View)

LEMMA CallKinds ==
  ASSUME TypeOK, NEW w \in Worker
  PROVE  /\ call[w] \in Caller
         /\ call[w].at \in SendStep => call[w] \in Sending
         /\ call[w].at \in {"mark_lock", "load"} => call[w] \in Marking
         /\ call[w].at \in {"unlink", "rewrite"} => call[w] \in Rewriting
<1>1. call[w] \in Caller
  BY DEF TypeOK, Caller
<1> QED BY <1>1 DEF Caller, Idle, Sending, Marking, Rewriting, SendStep

\* Two calls between the ends of a critical section are in different mailboxes.
LEMMA Exclusion ==
  ASSUME Guarded, NEW v \in Worker, NEW w \in Worker, call[v].at \in Inside,
         call[w].at \in Inside, call[v].to = call[w].to
  PROVE  v = w
BY DEF Guarded

\* A list of recipients is its first name and the others.
LEMMA ListParts ==
  ASSUME NEW s \in Seq(Box), s # <<>>
  PROVE  /\ Head(s) \in Box /\ Tail(s) \in Seq(Box) /\ <<Head(s)>> \o Tail(s) = s
<1>1. Head(s) \in Box /\ Tail(s) \in Seq(Box)
  BY HeadTailProperties
<1>2. <<Head(s)>> \o Tail(s) = s
  <2>1. Len(s) \in Nat \ {0}
    BY EmptySeq
  <2>2. 1 \in 1 .. Len(s) /\ Len(s) \in 1 .. Len(s)
    BY <2>1
  <2>3. SubSeq(s, 1, Len(s)) = <<s[1]>> \o SubSeq(s, 1 + 1, Len(s))
    BY <2>2, SubSeqRecursiveFirst
  <2>4. SubSeq(s, 1, Len(s)) = s
    BY SubSeqFull
  <2>5. Tail(s) = SubSeq(s, 2, Len(s)) /\ Head(s) = s[1]
    BY TailIsSubSeq
  <2> QED BY <2>3, <2>4, <2>5
<1> QED BY <1>1, <1>2

LEMMA ListOfParts ==
  ASSUME NEW d \in Box, NEW s \in Seq(Box)
  PROVE  <<d>> \o s # <<>> /\ Head(<<d>> \o s) = d /\ Tail(<<d>> \o s) = s
<1> DEFINE one == <<d>>
           t == one \o s
<1>1. one \in Seq(Box) /\ Len(one) = 1 /\ one[1] = d
  OBVIOUS
<1> HIDE DEF one
<1>2. /\ t \in Seq(Box) /\ Len(t) = 1 + Len(s) /\ Len(s) \in Nat
      /\ \A i \in 1 .. 1 + Len(s) : t[i] = IF i <= 1 THEN one[i] ELSE s[i - 1]
  <2>1. /\ one \o s \in Seq(Box) /\ Len(one \o s) = Len(one) + Len(s)
        /\ \A i \in 1 .. Len(one) + Len(s) :
             (one \o s)[i] = IF i <= Len(one) THEN one[i] ELSE s[i - Len(one)]
    BY <1>1, ConcatProperties
  <2>2. Len(s) \in Nat
    OBVIOUS
  <2> QED BY <1>1, <2>1, <2>2
<1> HIDE DEF t
<1>3. t # <<>> /\ t[1] = d /\ Head(t) = d
  BY <1>1, <1>2, EmptySeq
<1>4. <<Head(t)>> \o Tail(t) = t /\ Tail(t) \in Seq(Box)
  BY <1>2, <1>3, ListParts
<1>5. one \o Tail(t) = one \o s
  BY <1>3, <1>4 DEF one, t
<1>6. Tail(t) = s
  BY <1>1, <1>4, <1>5, ConcatSimplifications
<1> QED BY <1>3, <1>6 DEF t, one

LEMMA ListsAreSequences ==
  ASSUME NEW targets \in Lists
  PROVE  targets \in Seq(Box) /\ targets # <<>>
<1>1. PICK n \in 1 .. MaxTargets : targets \in [1 .. n -> Box]
  BY DEF Lists
<1>2. n \in Nat /\ n > 0
  BY <1>1, TargetsAssumption
<1>3. targets \in Seq(Box) /\ Len(targets) = n
  BY <1>1, <1>2
<1> QED BY <1>2, <1>3

-----------------------------------------------------------------------------
(***************************************************************************)
(* The lines being rewritten                                               *)
(***************************************************************************)

\* A line as mark_read(m) puts it back.
Marked(line, m) == IF line.id = m THEN [line EXCEPT !.read = TRUE] ELSE line

LEMMA RewrittenLines ==
  ASSUME NEW s \in Seq(Entry), NEW m
  PROVE  /\ Rewritten(s, m) \in Seq(Entry) /\ Len(Rewritten(s, m)) = Len(s)
         /\ \A i \in 1 .. Len(s) : Rewritten(s, m)[i] = Marked(s[i], m)
         /\ s = <<>> => Rewritten(s, m) = <<>>
<1> DEFINE t == Rewritten(s, m)
<1>1. DOMAIN s = 1 .. Len(s) /\ Len(s) \in Nat
  OBVIOUS
<1>2. \A i \in 1 .. Len(s) : t[i] = Marked(s[i], m)
  BY <1>1 DEF Rewritten, Marked
<1>3. \A i \in 1 .. Len(s) : t[i] \in Entry
  <2> SUFFICES ASSUME NEW i \in 1 .. Len(s) PROVE t[i] \in Entry
    OBVIOUS
  <2>1. s[i] \in Entry
    BY ElementOfSeq
  <2> QED BY <1>2, <2>1 DEF Entry, Marked
<1>4. t = [i \in 1 .. Len(s) |-> t[i]]
  BY <1>1 DEF Rewritten
<1> HIDE DEF t
<1>5. t \in Seq(Entry) /\ Len(t) = Len(s)
  BY <1>1, <1>3, <1>4
<1> QED BY <1>2, <1>5, EmptySeq DEF t

\* Putting the next line back leaves the mailbox as it will be.
LEMMA LinePutBack ==
  ASSUME NEW s \in Seq(Entry), NEW l \in Seq(Entry), l # <<>>, NEW m
  PROVE  Append(s, Rewritten(l, m)[1]) \o Rewritten(Tail(l), m) = s \o Rewritten(l, m)
<1> DEFINE r == Rewritten(l, m)
           q == Rewritten(Tail(l), m)
           n == Len(s) + 1
<1>1. /\ Tail(l) \in Seq(Entry) /\ Len(l) \in Nat \ {0} /\ Len(s) \in Nat
      /\ Len(Tail(l)) = Len(l) - 1
      /\ \A i \in 1 .. Len(l) - 1 : Tail(l)[i] = l[i + 1]
  BY HeadTailProperties, EmptySeq
<1>2. /\ r \in Seq(Entry) /\ Len(r) = Len(l)
      /\ \A i \in 1 .. Len(l) : r[i] = Marked(l[i], m)
  BY RewrittenLines
<1>3. /\ q \in Seq(Entry) /\ Len(q) = Len(l) - 1
      /\ \A i \in 1 .. Len(l) - 1 : q[i] = Marked(Tail(l)[i], m)
  <2>1. /\ q \in Seq(Entry) /\ Len(q) = Len(Tail(l))
        /\ \A i \in 1 .. Len(Tail(l)) : q[i] = Marked(Tail(l)[i], m)
    BY <1>1, RewrittenLines
  <2> HIDE DEF q
  <2> QED BY <1>1, <2>1
<1> HIDE DEF r, q
<1>4. \A i \in 1 .. Len(l) - 1 : q[i] = r[i + 1]
  <2> SUFFICES ASSUME NEW i \in 1 .. Len(l) - 1 PROVE q[i] = r[i + 1]
    OBVIOUS
  <2>1. i + 1 \in 1 .. Len(l) /\ Tail(l)[i] = l[i + 1]
    BY <1>1
  <2> QED BY <1>2, <1>3, <2>1
<1>5. r[1] \in Entry
  BY <1>1, <1>2, ElementOfSeq
<1> DEFINE a == Append(s, r[1])
           left == a \o q
           right == s \o r
<1>6. /\ a \in Seq(Entry) /\ Len(a) = n /\ a[n] = r[1]
      /\ \A i \in 1 .. Len(s) : a[i] = s[i]
  BY <1>1, <1>5
<1> HIDE DEF a
<1>7. /\ left \in Seq(Entry) /\ Len(left) = n + (Len(l) - 1)
      /\ \A i \in 1 .. n + (Len(l) - 1) : left[i] = IF i <= n THEN a[i] ELSE q[i - n]
  <2>1. /\ left \in Seq(Entry) /\ Len(left) = Len(a) + Len(q)
        /\ \A i \in 1 .. Len(a) + Len(q) : left[i] = IF i <= Len(a) THEN a[i] ELSE q[i - Len(a)]
    BY <1>3, <1>6, ConcatProperties
  <2> HIDE DEF left
  <2> QED BY <1>3, <1>6, <2>1
<1>8. /\ right \in Seq(Entry) /\ Len(right) = Len(s) + Len(l)
      /\ \A i \in 1 .. Len(s) + Len(l) : right[i] = IF i <= Len(s) THEN s[i] ELSE r[i - Len(s)]
  <2>1. /\ right \in Seq(Entry) /\ Len(right) = Len(s) + Len(r)
        /\ \A i \in 1 .. Len(s) + Len(r) : right[i] = IF i <= Len(s) THEN s[i] ELSE r[i - Len(s)]
    BY <1>2, ConcatProperties
  <2> HIDE DEF right
  <2> QED BY <1>2, <2>1
<1> HIDE DEF left, right
<1>9. Len(left) = Len(right)
  BY <1>1, <1>7, <1>8
<1>10. ASSUME NEW i \in 1 .. Len(left) PROVE left[i] = right[i]
  <2>0. i \in Nat /\ i \in 1 .. n + (Len(l) - 1) /\ i \in 1 .. Len(s) + Len(l)
    BY <1>1, <1>7
  <2>1. CASE i <= Len(s)
    <3>1. i \in 1 .. Len(s) /\ i <= n
      BY <2>0, <2>1, <1>1
    <3> QED BY <2>0, <2>1, <3>1, <1>6, <1>7, <1>8
  <2>2. CASE i = n
    <3>1. ~ (n <= Len(s)) /\ n - Len(s) = 1
      BY <1>1
    <3> QED BY <2>0, <2>2, <3>1, <1>6, <1>7, <1>8
  <2>3. CASE i > n
    <3>1. i - n \in 1 .. Len(l) - 1 /\ (i - n) + 1 = i - Len(s) /\ ~ (i <= n) /\ ~ (i <= Len(s))
      BY <2>0, <2>3, <1>1
    <3> QED BY <2>0, <3>1, <1>4, <1>7, <1>8
  <2> QED BY <2>0, <2>1, <2>2, <2>3, <1>1
<1>11. left = right
  BY <1>7, <1>8, <1>9, <1>10, SeqEqual
<1> QED BY <1>11 DEF left, right, a, r, q

-----------------------------------------------------------------------------
(***************************************************************************)
(* What a step of one thread leaves as it was                              *)
(***************************************************************************)

\* The invariant survives a step of w that respects the others' locks.
LEMMA CallMoves ==
  ASSUME TypeOK, Guarded, Theirs, NEW w \in Worker, NEW new,
         call' = [call EXCEPT ![w] = new],
         \A m \in Msg : sender[m] # Free => sender'[m] = sender[m],
         \A v \in Worker \ {w} : call[v].at \in Inside =>
           lock'[call[v].to] = v /\ box'[call[v].to] = box[call[v].to],
         new.at \in Inside => lock'[new.to] = w,
         new.at = "unlink" => new.lines = box'[new.to],
         new.at \in SendStep => sender'[new.msg] = w
  PROVE  Guarded' /\ Theirs'
<1>0. \A v \in Worker : call'[v] = IF v = w THEN new ELSE call[v]
  BY DEF TypeOK
<1>1. Guarded'
  <2> SUFFICES ASSUME NEW v \in Worker
               PROVE  /\ call'[v].at \in Inside => lock'[call'[v].to] = v
                      /\ call'[v].at = "unlink" => call'[v].lines = box'[call'[v].to]
    BY DEF Guarded
  <2>1. CASE v = w
    BY <2>1, <1>0
  <2>2. CASE v # w
    <3>1. call'[v] = call[v] /\ "unlink" \in Inside
      BY <2>2, <1>0 DEF Inside
    <3> QED BY <2>2, <3>1 DEF Guarded
  <2> QED BY <2>1, <2>2
<1>2. Theirs'
  <2> SUFFICES ASSUME NEW v \in Worker, call'[v].at \in SendStep
               PROVE  sender'[call'[v].msg] = v
    BY DEF Theirs
  <2>1. CASE v = w
    BY <2>1, <1>0
  <2>2. CASE v # w
    <3>1. call'[v] = call[v] /\ sender[call[v].msg] = v
      BY <2>2, <1>0 DEF Theirs
    <3>2. call[v].msg \in Msg
      BY <3>1, CallKinds DEF Sending
    <3> QED BY <3>1, <3>2, FreeAssumption
  <2> QED BY <2>1, <2>2
<1> QED BY <1>1, <1>2

\* A mailbox stays if its file does, w rewrites it neither before nor after,
\* and its lock stays or passes between w and nobody.
LEMMA ContentsStay ==
  ASSUME TypeOK, NEW w \in Worker, NEW new, call' = [call EXCEPT ![w] = new], NEW b \in Box,
         box'[b] = box[b],
         \/ lock'[b] = lock[b]
         \/ lock[b] = w /\ lock'[b] = Free
         \/ lock[b] = Free /\ lock'[b] = w,
         ~ (call[w].at = "rewrite" /\ call[w].to = b), ~ (new.at = "rewrite" /\ new.to = b)
  PROVE  Contents(b)' = Contents(b)
<1>1. \A v \in Worker : call'[v] = IF v = w THEN new ELSE call[v]
  BY DEF TypeOK
<1>2. lock[b] \in Worker \cup {Free} /\ w # Free /\ Idle.at # "rewrite"
  BY FreeAssumption DEF TypeOK, Idle
<1> QED BY <1>1, <1>2 DEF Contents

\* Owed for the call of the message's sender.
OwedBy(c, m) ==
  IF c.at \in {"send_lock", "append"} /\ c.msg = m THEN <<c.to>> \o c.rest
  ELSE IF c.at = "send_unlock" /\ c.msg = m THEN c.rest ELSE <<>>

LEMMA OwedIsOwedBy ==
  ASSUME TypeOK, NEW m \in Msg, NEW w \in Worker, NEW new, call' = [call EXCEPT ![w] = new]
  PROVE  /\ sender[m] = w => Owed(m) = OwedBy(call[w], m)
         /\ sender'[m] = w => Owed(m)' = OwedBy(new, m)
         /\ sender[m] = Free => Owed(m) = <<>>
         /\ sender'[m] = sender[m] /\ sender[m] # w => Owed(m)' = Owed(m)
<1>1. \A v \in Worker : call'[v] = IF v = w THEN new ELSE call[v]
  BY DEF TypeOK
<1>2. sender[m] \in Worker \cup {Free} /\ w # Free
  BY FreeAssumption DEF TypeOK
<1>3. /\ Idle.at # "send_lock" /\ Idle.at # "append" /\ Idle.at # "send_unlock"
  BY DEF Idle
<1> QED BY <1>1, <1>2, <1>3 DEF Owed, OwedBy

\* What no sender of w's message does leaves what is owed as it was.
LEMMA OwedStays ==
  ASSUME TypeOK, NEW w \in Worker, NEW new, call' = [call EXCEPT ![w] = new],
         NEW m \in Msg, sender'[m] = sender[m], OwedBy(new, m) = OwedBy(call[w], m)
  PROVE  Owed(m)' = Owed(m)
BY OwedIsOwedBy

\* A step of mark_read() owes nothing to anybody.
LEMMA NothingOwed ==
  ASSUME TypeOK, NEW w \in Worker, NEW new, call' = [call EXCEPT ![w] = new],
         sender' = sender, call[w].at \notin SendStep, new.at \notin SendStep
  PROVE  \A m \in Msg : Owed(m)' = Owed(m)
<1>1. \A m \in Msg : OwedBy(new, m) = OwedBy(call[w], m)
  BY DEF OwedBy, SendStep
<1> QED BY <1>1, OwedStays

LEMMA Stutters ==
  ASSUME \A b \in Box : Contents(b)' = Contents(b), \A m \in Msg : Owed(m)' = Owed(m),
         sender' = sender, crashed' = crashed
  PROVE  UNCHANGED View
BY DEF View

\* Giving a lock back takes it from nobody else.
LEMMA LockGivenBack ==
  ASSUME TypeOK, Guarded, NEW w \in Worker, call[w].at \in Inside,
         lock' = [lock EXCEPT ![call[w].to] = Free], box' = box
  PROVE  \A v \in Worker \ {w} : call[v].at \in Inside =>
           lock'[call[v].to] = v /\ box'[call[v].to] = box[call[v].to]
<1> SUFFICES ASSUME NEW v \in Worker \ {w}, call[v].at \in Inside
             PROVE  lock'[call[v].to] = v
  OBVIOUS
<1>1. lock[call[v].to] = v /\ call[v].to # call[w].to
  BY Exclusion DEF Guarded
<1> QED BY <1>1 DEF TypeOK

\* A file that its lock's holder changes is nobody else's.
LEMMA OtherFiles ==
  ASSUME TypeOK, Guarded, NEW w \in Worker, call[w].at \in Inside, NEW file,
         box' = [box EXCEPT ![call[w].to] = file], lock' = lock
  PROVE  \A v \in Worker \ {w} : call[v].at \in Inside =>
           lock'[call[v].to] = v /\ box'[call[v].to] = box[call[v].to]
<1> SUFFICES ASSUME NEW v \in Worker \ {w}, call[v].at \in Inside
             PROVE  lock'[call[v].to] = v /\ box'[call[v].to] = box[call[v].to]
  OBVIOUS
<1>1. call[v].to # call[w].to
  BY Exclusion
<1>2. box'[call[v].to] = box[call[v].to]
  BY <1>1 DEF TypeOK
<1> QED BY <1>2 DEF Guarded

-----------------------------------------------------------------------------
(***************************************************************************)
(* Every step keeps the invariant and the promise                          *)
(***************************************************************************)

\* Beginning to send is a Post of the list.
LEMMA SendKept ==
  ASSUME TypeOK, Guarded, Theirs, crashed = {}, NEW w \in Worker, NEW m \in Msg,
         NEW targets \in Lists, Send(w, m, targets)
  PROVE  Kept
<1> DEFINE new == [at |-> "send_lock", msg |-> m, to |-> Head(targets), rest |-> Tail(targets)]
<1>1. /\ call[w].at = "idle" /\ sender[m] = Free /\ sender' = [sender EXCEPT ![m] = w]
      /\ box' = box /\ lock' = lock /\ crashed' = crashed /\ call' = [call EXCEPT ![w] = new]
  BY DEF Send, At, Become
<1>2. targets \in Seq(Box) /\ targets # <<>>
  BY ListsAreSequences
<1>3. \A n \in Msg : OwedBy(new, n) = IF n = m THEN targets ELSE <<>>
  BY <1>2, ListParts DEF OwedBy
<1>4. new.at = "send_lock" /\ new.msg = m
  OBVIOUS
<1> HIDE DEF new
<1>5. \A n \in Msg : sender'[n] = IF n = m THEN w ELSE sender[n]
  BY <1>1 DEF TypeOK
<1>6. Guarded' /\ Theirs'
  <2>1. \A n \in Msg : sender[n] # Free => sender'[n] = sender[n]
    BY <1>1, <1>5
  <2>2. \A v \in Worker \ {w} : call[v].at \in Inside =>
          lock'[call[v].to] = v /\ box'[call[v].to] = box[call[v].to]
    BY <1>1 DEF Guarded
  <2>3. new.at \notin Inside /\ new.at # "unlink" /\ sender'[new.msg] = w
    BY <1>4, <1>5 DEF Inside
  <2> QED BY <1>1, <2>1, <2>2, <2>3, CallMoves
<1>7. \A b \in Box : Contents(b)' = Contents(b)
  BY <1>1, <1>4, ContentsStay
<1>8. \A n \in Msg : Owed(n)' = IF n = m THEN targets ELSE Owed(n)
  <2> SUFFICES ASSUME NEW n \in Msg PROVE Owed(n)' = IF n = m THEN targets ELSE Owed(n)
    OBVIOUS
  <2>1. OwedBy(call[w], n) = <<>>
    BY <1>1 DEF OwedBy
  <2>2. CASE n = m
    BY <2>2, <1>1, <1>3, <1>5, OwedIsOwedBy
  <2>3. CASE n # m
    BY <2>1, <2>3, <1>1, <1>3, <1>5, OwedStays
  <2> QED BY <2>2, <2>3
<1>9. Promise!Post(m, targets)
  <2>1. [n \in Msg |-> Owed(n)'] = [[n \in Msg |-> Owed(n)] EXCEPT ![m] = targets]
    BY <1>8
  <2>2. {n \in Msg : sender'[n] # Free} = {n \in Msg : sender[n] # Free} \cup {m}
    BY <1>5, FreeAssumption
  <2>3. m \notin {n \in Msg : sender[n] # Free}
    BY <1>1
  <2>4. [b \in Box |-> Contents(b)'] = [b \in Box |-> Contents(b)]
    BY <1>7
  <2> QED BY <1>1, <2>1, <2>2, <2>3, <2>4 DEF Promise!Post
<1> QED BY <1>6, <1>9 DEF Kept, Promise!Next

LEMMA MarkKept ==
  ASSUME TypeOK, Guarded, Theirs, NEW w \in Worker, NEW b \in Box, NEW m \in Msg,
         Mark(w, b, m)
  PROVE  Kept
<1> DEFINE new == [at |-> "mark_lock", msg |-> m, to |-> b]
<1>1. /\ call[w].at = "idle" /\ call' = [call EXCEPT ![w] = new]
      /\ box' = box /\ lock' = lock /\ sender' = sender /\ crashed' = crashed
  BY DEF Mark, At, Become
<1>2. new.at = "mark_lock"
  OBVIOUS
<1> HIDE DEF new
<1>3. new.at \notin Inside /\ new.at \notin SendStep /\ new.at # "unlink"
  BY <1>2 DEF Inside, SendStep
<1>4. Guarded' /\ Theirs'
  <2>1. \A v \in Worker \ {w} : call[v].at \in Inside =>
          lock'[call[v].to] = v /\ box'[call[v].to] = box[call[v].to]
    BY <1>1 DEF Guarded
  <2> QED BY <1>1, <1>3, <2>1, CallMoves
<1>5. \A d \in Box : Contents(d)' = Contents(d)
  BY <1>1, <1>2, ContentsStay
<1>6. \A n \in Msg : Owed(n)' = Owed(n)
  <2>1. call[w].at \notin SendStep
    BY <1>1 DEF SendStep
  <2> QED BY <1>1, <1>3, <2>1, NothingOwed
<1> QED BY <1>1, <1>4, <1>5, <1>6, Stutters DEF Kept

\* Taking a lock changes nothing; without it a sender gives its message up.
LEMMA LockKept ==
  ASSUME TypeOK, Guarded, Theirs, crashed = {}, NEW w \in Worker, NEW from, NEW to,
         \/ from = "send_lock" /\ to = "append"
         \/ from = "mark_lock" /\ to = "load",
         Lock(w, from, to)
  PROVE  Kept
<1>1. call[w].at = from /\ box' = box /\ sender' = sender /\ crashed' = crashed
  BY DEF Lock, At
<1>2. call[w].to \in Box
  BY <1>1, CallKinds DEF SendStep, Sending, Marking
<1>3. CASE lock[call[w].to] = Free
  <2> DEFINE new == [call[w] EXCEPT !.at = to]
  <2>1. lock' = [lock EXCEPT ![call[w].to] = w] /\ call' = [call EXCEPT ![w] = new]
    BY <1>3 DEF Lock, Become
  <2>2. /\ new.at = to /\ new.to = call[w].to /\ new.msg = call[w].msg
        /\ from = "send_lock" => new.rest = call[w].rest
    <3>1. CASE from = "send_lock"
      <4>1. call[w] \in Sending
        BY <1>1, <3>1, CallKinds DEF SendStep
      <4> QED BY <3>1, <4>1 DEF Sending
    <3>2. CASE from = "mark_lock"
      <4>1. call[w] \in Marking
        BY <1>1, <3>2, CallKinds
      <4> QED BY <3>2, <4>1 DEF Marking
    <3> QED BY <3>1, <3>2
  <2> HIDE DEF new
  <2>3. \A b \in Box : lock'[b] = IF b = call[w].to THEN w ELSE lock[b]
    BY <1>2, <2>1 DEF TypeOK
  <2>4. \A b \in Box : Contents(b)' = Contents(b)
    BY <1>1, <1>3, <2>1, <2>2, <2>3, ContentsStay
  <2>5. \A m \in Msg : Owed(m)' = Owed(m)
    <3>1. \A m \in Msg : OwedBy(new, m) = OwedBy(call[w], m)
      BY <1>1, <2>2 DEF OwedBy
    <3> QED BY <1>1, <2>1, <3>1, OwedStays
  <2>6. Guarded' /\ Theirs'
    <3>1. ASSUME NEW v \in Worker \ {w}, call[v].at \in Inside
          PROVE  lock'[call[v].to] = v /\ box'[call[v].to] = box[call[v].to]
      <4>1. lock[call[v].to] = v
        BY <3>1 DEF Guarded
      <4>2. call[v].to # call[w].to
        BY <4>1, <1>3, FreeAssumption
      <4>3. lock'[call[v].to] = lock[call[v].to]
        BY <2>1, <4>2 DEF TypeOK
      <4> QED BY <1>1, <4>1, <4>3
    <3>2. lock'[new.to] = w /\ new.at # "unlink"
      BY <1>2, <2>2, <2>3
    <3>3. new.at \in SendStep => sender'[new.msg] = w
      BY <1>1, <2>2 DEF Theirs, SendStep
    <3>4. \A m \in Msg : sender[m] # Free => sender'[m] = sender[m]
      BY <1>1
    <3> QED BY <2>1, <3>1, <3>2, <3>3, <3>4, CallMoves
  <2> QED BY <1>1, <2>4, <2>5, <2>6, Stutters DEF Kept
<1>4. CASE lock[call[w].to] # Free
  <2>1. lock' = lock /\ call' = [call EXCEPT ![w] = Idle]
    BY <1>4 DEF Lock, Become
  <2>2. Idle.at \notin Inside /\ Idle.at \notin SendStep /\ Idle.at # "unlink"
        /\ Idle.at # "rewrite"
    BY DEF Idle, Inside, SendStep
  <2>3. Guarded' /\ Theirs'
    <3>1. \A v \in Worker \ {w} : call[v].at \in Inside =>
            lock'[call[v].to] = v /\ box'[call[v].to] = box[call[v].to]
      BY <1>1, <2>1 DEF Guarded
    <3>2. \A m \in Msg : sender[m] # Free => sender'[m] = sender[m]
      BY <1>1
    <3> QED BY <1>1, <2>1, <2>2, <3>1, <3>2, CallMoves
  <2>4. \A b \in Box : Contents(b)' = Contents(b)
    <3>1. call[w].at # "rewrite"
      BY <1>1
    <3> QED BY <1>1, <2>1, <2>2, <3>1, ContentsStay
  <2>5. CASE from = "mark_lock"
    <3>1. \A m \in Msg : Owed(m)' = Owed(m)
      <4>1. call[w].at \notin SendStep
        BY <1>1, <2>5 DEF SendStep
      <4> QED BY <1>1, <2>1, <2>2, <4>1, NothingOwed
    <3> QED BY <1>1, <2>3, <2>4, <3>1, Stutters DEF Kept
  <2>6. CASE from = "send_lock"
    <3>1. PICK m \in Msg : m = call[w].msg
      BY <1>1, <2>6, CallKinds DEF SendStep, Sending
    <3>2. sender[m] = w
      BY <1>1, <2>6, <3>1 DEF Theirs, SendStep
    <3>3. \A n \in Msg : OwedBy(Idle, n) = <<>> /\ (n # m => OwedBy(call[w], n) = <<>>)
      BY <3>1, <2>2 DEF OwedBy, SendStep
    <3>4. \A n \in Msg : Owed(n)' = IF n = m THEN <<>> ELSE Owed(n)
      <4>1. Owed(m)' = <<>>
        BY <1>1, <2>1, <3>2, <3>3, OwedIsOwedBy
      <4>2. \A n \in Msg : n # m => Owed(n)' = Owed(n)
        BY <1>1, <2>1, <3>3, OwedStays
      <4> QED BY <4>1, <4>2
    <3>5. [n \in Msg |-> Owed(n)'] = [[n \in Msg |-> Owed(n)] EXCEPT ![m] = <<>>]
      BY <3>4
    <3>6. [b \in Box |-> Contents(b)'] = [b \in Box |-> Contents(b)]
      BY <2>4
    <3>7. Promise!GiveUp(m)
      BY <1>1, <3>5, <3>6 DEF Promise!GiveUp
    <3> QED BY <2>3, <3>7 DEF Kept, Promise!Next
  <2> QED BY <2>5, <2>6
<1> QED BY <1>3, <1>4

\* The appended line is the delivery.
LEMMA AppendLineKept ==
  ASSUME TypeOK, Guarded, Theirs, crashed = {}, NEW w \in Worker, AppendLine(w)
  PROVE  Kept
<1> DEFINE new == [call[w] EXCEPT !.at = "send_unlock"]
<1>1. call[w].at = "append" /\ call[w] \in Sending
  BY CallKinds DEF AppendLine, At, SendStep
<1>2. PICK d \in Box, m \in Msg, rest \in Seq(Box) :
        d = call[w].to /\ m = call[w].msg /\ rest = call[w].rest
  BY <1>1 DEF Sending
<1>3. /\ box' = [box EXCEPT ![d] = Append(box[d], [id |-> m, read |-> FALSE])]
      /\ call' = [call EXCEPT ![w] = new]
      /\ lock' = lock /\ sender' = sender /\ crashed' = crashed
  BY <1>2 DEF AppendLine, Become
<1>4. new.at = "send_unlock" /\ new.to = d /\ new.msg = m /\ new.rest = rest
  BY <1>1, <1>2 DEF Sending
<1> HIDE DEF new
<1>5. sender[m] = w /\ lock[d] = w
  BY <1>1, <1>2 DEF Theirs, Guarded, SendStep, Inside
<1>6. Guarded' /\ Theirs'
  <2>1. \A v \in Worker \ {w} : call[v].at \in Inside =>
          lock'[call[v].to] = v /\ box'[call[v].to] = box[call[v].to]
    BY <1>1, <1>2, <1>3, OtherFiles DEF Inside
  <2>2. \A n \in Msg : sender[n] # Free => sender'[n] = sender[n]
    BY <1>3
  <2>3. new.at # "unlink" /\ lock'[new.to] = w /\ sender'[new.msg] = w
    BY <1>3, <1>4, <1>5
  <2> QED BY <1>3, <2>1, <2>2, <2>3, CallMoves
<1>7. \A b \in Box : Contents(b)' = IF b = d THEN Append(Contents(d), [id |-> m, read |-> FALSE])
                                             ELSE Contents(b)
  <2>1. \A b \in Box : b # d => Contents(b)' = Contents(b)
    <3>1. \A b \in Box : b # d => box'[b] = box[b]
      BY <1>3 DEF TypeOK
    <3> QED BY <1>1, <1>3, <1>4, <3>1, ContentsStay
  <2>2. Contents(d) = box[d]
    BY <1>1, <1>5, FreeAssumption DEF Contents
  <2>3. Contents(d)' = box'[d]
    <3>1. call'[w] = new /\ lock'[d] = w
      BY <1>3, <1>5 DEF TypeOK
    <3> QED BY <3>1, <1>4, FreeAssumption DEF Contents
  <2>4. box'[d] = Append(box[d], [id |-> m, read |-> FALSE])
    BY <1>3 DEF TypeOK
  <2> QED BY <2>1, <2>2, <2>3, <2>4
<1>8. Owed(m) = <<d>> \o rest /\ Owed(m)' = rest
  <2>1. OwedBy(call[w], m) = <<d>> \o rest /\ OwedBy(new, m) = rest
    BY <1>1, <1>2, <1>4 DEF OwedBy
  <2> QED BY <1>3, <1>5, <2>1, OwedIsOwedBy
<1>9. \A n \in Msg : n # m => Owed(n)' = Owed(n)
  <2>1. \A n \in Msg : n # m => OwedBy(new, n) = OwedBy(call[w], n)
    BY <1>1, <1>2, <1>4 DEF OwedBy
  <2> QED BY <1>3, <2>1, OwedStays
<1>10. Promise!Deliver(m)
  <2> DEFINE owed == [n \in Msg |-> Owed(n)]
             inbox == [b \in Box |-> Contents(b)]
  <2>1. owed[m] # <<>> /\ Head(owed[m]) = d /\ Tail(owed[m]) = rest
    BY <1>8, ListOfParts
  <2>2. [n \in Msg |-> Owed(n)'] = [owed EXCEPT ![m] = Tail(@)]
    BY <1>8, <1>9, <2>1
  <2>3. [b \in Box |-> Contents(b)'] =
          [inbox EXCEPT ![Head(owed[m])] = Append(@, Promise!Unread(m))]
    BY <1>7, <2>1 DEF Promise!Unread
  <2> QED BY <1>3, <2>1, <2>2, <2>3 DEF Promise!Deliver
<1> QED BY <1>6, <1>10 DEF Kept, Promise!Next

LEMMA UnlockKept ==
  ASSUME TypeOK, Guarded, Theirs, NEW w \in Worker, Unlock(w)
  PROVE  Kept
<1> DEFINE new == IF call[w].rest = <<>> THEN Idle
                  ELSE [at |-> "send_lock", msg |-> call[w].msg, to |-> Head(call[w].rest),
                        rest |-> Tail(call[w].rest)]
<1>1. /\ call[w].at = "send_unlock" /\ box' = box /\ sender' = sender /\ crashed' = crashed
      /\ lock' = [lock EXCEPT ![call[w].to] = Free]
      /\ call' = [call EXCEPT ![w] = new]
  BY DEF Unlock, At, Become
<1>2. call[w] \in Sending /\ call[w].at \in SendStep /\ call[w].at \in Inside
  BY <1>1, CallKinds DEF SendStep, Inside
<1>3. PICK d \in Box, m \in Msg, rest \in Seq(Box) :
        d = call[w].to /\ m = call[w].msg /\ rest = call[w].rest
  BY <1>2 DEF Sending
<1>4. \A n \in Msg : OwedBy(new, n) = OwedBy(call[w], n)
  <2> SUFFICES ASSUME NEW n \in Msg PROVE OwedBy(new, n) = OwedBy(call[w], n)
    OBVIOUS
  <2>1. OwedBy(call[w], n) = IF n = m THEN rest ELSE <<>>
    BY <1>1, <1>3 DEF OwedBy
  <2>2. CASE rest = <<>>
    BY <1>3, <2>1, <2>2 DEF OwedBy, Idle
  <2>3. CASE rest # <<>>
    <3>1. new = [at |-> "send_lock", msg |-> m, to |-> Head(rest), rest |-> Tail(rest)]
      BY <1>3, <2>3
    <3> HIDE DEF new
    <3>2. new.at = "send_lock" /\ new.msg = m /\ new.to = Head(rest) /\ new.rest = Tail(rest)
      BY <3>1
    <3>3. OwedBy(new, n) = IF n = m THEN <<Head(rest)>> \o Tail(rest) ELSE <<>>
      BY <3>2 DEF OwedBy
    <3>4. <<Head(rest)>> \o Tail(rest) = rest
      BY <2>3, ListParts
    <3>5. CASE n = m
      BY <2>1, <3>3, <3>4, <3>5
    <3>6. CASE n # m
      BY <2>1, <3>3, <3>6
    <3> QED BY <3>5, <3>6
  <2> QED BY <2>2, <2>3
<1>5. /\ new.at \in {"idle", "send_lock"}
      /\ new.at = "send_lock" => new.msg = m
  BY <1>3 DEF Idle
<1> HIDE DEF new
<1>6. new.at \notin Inside /\ new.at # "unlink" /\ new.at # "rewrite"
      /\ (new.at \in SendStep => new.msg = m)
  BY <1>5 DEF Inside, SendStep
<1>7. Guarded' /\ Theirs'
  <2>1. \A v \in Worker \ {w} : call[v].at \in Inside =>
          lock'[call[v].to] = v /\ box'[call[v].to] = box[call[v].to]
    BY <1>1, <1>2, LockGivenBack
  <2>2. \A n \in Msg : sender[n] # Free => sender'[n] = sender[n]
    BY <1>1
  <2>3. new.at \in SendStep => sender'[new.msg] = w
    BY <1>1, <1>2, <1>3, <1>6 DEF Theirs
  <2> QED BY <1>1, <1>6, <2>1, <2>2, <2>3, CallMoves
<1>8. \A b \in Box : Contents(b)' = Contents(b)
  <2>1. \A b \in Box : lock'[b] = lock[b] \/ (lock[b] = w /\ lock'[b] = Free)
    <3>1. lock[d] = w /\ lock' = [lock EXCEPT ![d] = Free]
      BY <1>1, <1>2, <1>3 DEF Guarded
    <3>2. \A b \in Box : lock'[b] = IF b = d THEN Free ELSE lock[b]
      BY <3>1 DEF TypeOK
    <3> QED BY <3>1, <3>2
  <2> QED BY <1>1, <1>6, <2>1, ContentsStay
<1>9. \A n \in Msg : Owed(n)' = Owed(n)
  BY <1>1, <1>4, OwedStays
<1> QED BY <1>1, <1>7, <1>8, <1>9, Stutters DEF Kept

LEMMA LoadKept ==
  ASSUME TypeOK, Guarded, Theirs, NEW w \in Worker, Load(w)
  PROVE  Kept
<1> DEFINE new == [at |-> "unlink", msg |-> call[w].msg, to |-> call[w].to,
                   lines |-> box[call[w].to]]
<1>1. /\ call[w].at = "load" /\ box' = box /\ sender' = sender /\ lock' = lock
      /\ crashed' = crashed /\ call' = [call EXCEPT ![w] = new]
  BY DEF Load, At, Become
<1>2. new.at = "unlink" /\ new.to = call[w].to /\ new.lines = box[call[w].to]
  OBVIOUS
<1> HIDE DEF new
<1>3. call[w].at \notin SendStep /\ new.at \notin SendStep /\ call[w].at \in Inside
  BY <1>1, <1>2 DEF SendStep, Inside
<1>4. Guarded' /\ Theirs'
  <2>1. \A v \in Worker \ {w} : call[v].at \in Inside =>
          lock'[call[v].to] = v /\ box'[call[v].to] = box[call[v].to]
    BY <1>1 DEF Guarded
  <2>2. \A n \in Msg : sender[n] # Free => sender'[n] = sender[n]
    BY <1>1
  <2>3. lock'[new.to] = w /\ new.lines = box'[new.to]
    BY <1>1, <1>2, <1>3 DEF Guarded
  <2> QED BY <1>1, <1>3, <2>1, <2>2, <2>3, CallMoves
<1>5. \A b \in Box : Contents(b)' = Contents(b)
  BY <1>1, <1>2, ContentsStay
<1>6. \A n \in Msg : Owed(n)' = Owed(n)
  BY <1>1, <1>3, NothingOwed
<1> QED BY <1>1, <1>4, <1>5, <1>6, Stutters DEF Kept

\* Unlinking takes the lines into memory, the marked one among them: the mark.
LEMMA UnlinkKept ==
  ASSUME TypeOK, Guarded, Theirs, crashed = {}, NEW w \in Worker, Unlink(w)
  PROVE  Kept
<1> DEFINE new == [call[w] EXCEPT !.at = "rewrite"]
<1>1. call[w].at = "unlink" /\ call[w] \in Rewriting
  BY CallKinds DEF Unlink, At
<1>2. PICK d \in Box, m \in Msg : d = call[w].to /\ m = call[w].msg
  BY <1>1 DEF Rewriting
<1>3. /\ box' = [box EXCEPT ![d] = <<>>] /\ call' = [call EXCEPT ![w] = new]
      /\ lock' = lock /\ sender' = sender /\ crashed' = crashed
  BY <1>2 DEF Unlink, Become
<1>4. /\ new.at = "rewrite" /\ new.to = d /\ new.msg = m /\ new.lines = call[w].lines
  BY <1>1, <1>2 DEF Rewriting
<1> HIDE DEF new
<1>5. lock[d] = w /\ call[w].lines = box[d]
  BY <1>1, <1>2 DEF Guarded, Inside
<1>6. call[w].at \notin SendStep /\ new.at \notin SendStep /\ call[w].at \in Inside
  BY <1>1, <1>4 DEF SendStep, Inside
<1>7. Guarded' /\ Theirs'
  <2>1. \A v \in Worker \ {w} : call[v].at \in Inside =>
          lock'[call[v].to] = v /\ box'[call[v].to] = box[call[v].to]
    BY <1>2, <1>3, <1>6, OtherFiles
  <2>2. \A n \in Msg : sender[n] # Free => sender'[n] = sender[n]
    BY <1>3
  <2>3. lock'[new.to] = w /\ new.at # "unlink"
    BY <1>3, <1>4, <1>5
  <2> QED BY <1>3, <1>6, <2>1, <2>2, <2>3, CallMoves
<1>8. Contents(d) = box[d] /\ Contents(d)' = Promise!MarkedIn(box[d], m)
  <2>1. Contents(d) = box[d]
    BY <1>1, <1>5, FreeAssumption DEF Contents
  <2>2. call'[w] = new /\ lock'[d] = w /\ box'[d] = <<>>
    BY <1>3, <1>5 DEF TypeOK
  <2>3. Contents(d)' = <<>> \o Rewritten(box[d], m)
    BY <2>2, <1>4, <1>5, FreeAssumption DEF Contents
  <2>4. Rewritten(box[d], m) \in Seq(Entry)
    BY RewrittenLines DEF TypeOK
  <2>5. <<>> \o Rewritten(box[d], m) = Rewritten(box[d], m)
    BY <2>4, ConcatEmptySeq
  <2> QED BY <2>1, <2>3, <2>5 DEF Rewritten, Promise!MarkedIn
<1>9. \A b \in Box : b # d => Contents(b)' = Contents(b)
  <2>1. \A b \in Box : b # d => box'[b] = box[b]
    BY <1>3 DEF TypeOK
  <2> QED BY <1>1, <1>3, <1>4, <2>1, ContentsStay
<1>10. \A n \in Msg : Owed(n)' = Owed(n)
  BY <1>3, <1>6, NothingOwed
<1>11. Promise!MarkRead(d, m)
  <2>1. [b \in Box |-> Contents(b)'] =
          [[b \in Box |-> Contents(b)] EXCEPT ![d] = Promise!MarkedIn(@, m)]
    BY <1>8, <1>9
  <2>2. [n \in Msg |-> Owed(n)'] = [n \in Msg |-> Owed(n)]
    BY <1>10
  <2> QED BY <1>3, <2>1, <2>2 DEF Promise!MarkRead
<1> QED BY <1>7, <1>11 DEF Kept, Promise!Next

\* Putting a line back, or ending the loop, changes nothing.
LEMMA RewriteKept ==
  ASSUME TypeOK, Guarded, Theirs, NEW w \in Worker, Rewrite(w)
  PROVE  Kept
<1>1. call[w].at = "rewrite" /\ call[w] \in Rewriting /\ sender' = sender /\ crashed' = crashed
  BY CallKinds DEF Rewrite, At
<1>2. PICK d \in Box, m \in Msg, lines \in Seq(Entry) :
        d = call[w].to /\ m = call[w].msg /\ lines = call[w].lines
  BY <1>1 DEF Rewriting
<1>3. lock[d] = w /\ call[w].at \in Inside /\ call[w].at \notin SendStep
  BY <1>1, <1>2 DEF Guarded, Inside, SendStep
<1>4. Contents(d) = box[d] \o Rewritten(lines, m) /\ box[d] \in Seq(Entry)
  BY <1>1, <1>2, <1>3, FreeAssumption DEF Contents, TypeOK
<1>5. \A n \in Msg : sender[n] # Free => sender'[n] = sender[n]
  BY <1>1
<1>6. CASE lines # <<>>
  <2> DEFINE new == [call[w] EXCEPT !.lines = Tail(lines)]
             line == Rewritten(lines, m)[1]
  <2>1. /\ box' = [box EXCEPT ![d] = Append(box[d], line)]
        /\ call' = [call EXCEPT ![w] = new] /\ lock' = lock
    BY <1>2, <1>6 DEF Rewrite, Become
  <2>2. new.at = "rewrite" /\ new.to = d /\ new.msg = m /\ new.lines = Tail(lines)
    BY <1>1, <1>2 DEF Rewriting
  <2> HIDE DEF new, line
  <2>3. new.at \notin SendStep /\ new.at # "unlink" /\ lock'[new.to] = w
    BY <2>1, <2>2, <1>3 DEF SendStep
  <2>4. Guarded' /\ Theirs'
    <3>1. \A v \in Worker \ {w} : call[v].at \in Inside =>
            lock'[call[v].to] = v /\ box'[call[v].to] = box[call[v].to]
      BY <1>2, <1>3, <2>1, OtherFiles
    <3> QED BY <1>5, <2>1, <2>3, <3>1, CallMoves
  <2>5. Contents(d)' = Append(box[d], line) \o Rewritten(Tail(lines), m)
    <3>1. call'[w] = new /\ lock'[d] = w /\ box'[d] = Append(box[d], line)
      BY <2>1, <1>3 DEF TypeOK
    <3> QED BY <3>1, <2>2, FreeAssumption DEF Contents
  <2>6. Contents(d)' = Contents(d)
    BY <1>4, <1>6, <2>5, LinePutBack DEF line
  <2>7. \A b \in Box : b # d => Contents(b)' = Contents(b)
    <3>1. \A b \in Box : b # d => box'[b] = box[b]
      BY <2>1 DEF TypeOK
    <3> QED BY <1>2, <2>1, <2>2, <3>1, ContentsStay
  <2>8. \A n \in Msg : Owed(n)' = Owed(n)
    BY <1>1, <1>3, <2>1, <2>3, NothingOwed
  <2> QED BY <1>1, <2>4, <2>6, <2>7, <2>8, Stutters DEF Kept
<1>7. CASE lines = <<>>
  <2>1. /\ lock' = [lock EXCEPT ![d] = Free] /\ call' = [call EXCEPT ![w] = Idle] /\ box' = box
    BY <1>2, <1>7 DEF Rewrite, Become
  <2>2. Idle.at \notin Inside /\ Idle.at \notin SendStep /\ Idle.at # "unlink"
        /\ Idle.at # "rewrite"
    BY DEF Idle, Inside, SendStep
  <2>3. Guarded' /\ Theirs'
    <3>1. \A v \in Worker \ {w} : call[v].at \in Inside =>
            lock'[call[v].to] = v /\ box'[call[v].to] = box[call[v].to]
      BY <1>2, <1>3, <2>1, LockGivenBack
    <3> QED BY <1>5, <2>1, <2>2, <3>1, CallMoves
  <2>4. Contents(d)' = Contents(d)
    <3>1. Rewritten(lines, m) = <<>>
      BY <1>7, RewrittenLines
    <3>2. Contents(d) = box[d]
      BY <1>4, <3>1, ConcatEmptySeq
    <3>3. lock'[d] = Free
      BY <2>1 DEF TypeOK
    <3> QED BY <2>1, <2>2, <3>2, <3>3 DEF Contents
  <2>5. \A b \in Box : b # d => Contents(b)' = Contents(b)
    <3>1. \A b \in Box : b # d => lock'[b] = lock[b]
      BY <2>1 DEF TypeOK
    <3> QED BY <1>2, <2>1, <2>2, <3>1, ContentsStay
  <2>6. \A n \in Msg : Owed(n)' = Owed(n)
    BY <1>1, <1>3, <2>1, <2>2, NothingOwed
  <2> QED BY <1>1, <2>3, <2>4, <2>5, <2>6, Stutters DEF Kept
<1> QED BY <1>6, <1>7

LEMMA LivingStep ==
  ASSUME MailboxInv, Next, crashed = {}, crashed' = {}
  PROVE  Kept
<1>0. TypeOK /\ Guarded /\ Theirs
  BY DEF MailboxInv
<1>1. ASSUME NEW w \in Worker, Call(w) PROVE Kept
  BY <1>0, <1>1, LockKept, AppendLineKept, UnlockKept, LoadKept, UnlinkKept, RewriteKept
     DEF Call
<1>2. ASSUME NEW w \in Worker, NEW m \in Msg, NEW targets \in Lists, Send(w, m, targets)
      PROVE  Kept
  BY <1>0, <1>2, SendKept
<1>3. ASSUME NEW w \in Worker, NEW b \in Box, NEW m \in Msg, Mark(w, b, m) PROVE Kept
  BY <1>0, <1>3, MarkKept
<1>4. ASSUME NEW w \in Worker, Crash(w) PROVE FALSE
  BY <1>4 DEF Crash
<1>5. ASSUME NEW b \in Box, BreakStale(b) PROVE FALSE
  BY <1>5 DEF BreakStale
<1> QED BY <1>1, <1>2, <1>3, <1>4, <1>5 DEF Next

\* Types survive every step, the steps after a death too.
LEMMA NextType == TypeOK /\ [Next]_vars => TypeOK'
<1> SUFFICES ASSUME TypeOK, [Next]_vars PROVE TypeOK'
  OBVIOUS
<1> DEFINE Calls == {Idle} \cup Sending \cup Marking \cup Rewriting
<1>1. ASSUME NEW w \in Worker, NEW from, NEW to,
             \/ from = "send_lock" /\ to = "append"
             \/ from = "mark_lock" /\ to = "load",
             Lock(w, from, to)
      PROVE  TypeOK'
  <2>1. [call[w] EXCEPT !.at = to] \in Calls
    <3>1. CASE from = "send_lock"
      <4>1. call[w] \in Sending
        BY <1>1, <3>1, CallKinds DEF Lock, At, SendStep
      <4> QED BY <1>1, <3>1, <4>1 DEF Sending
    <3>2. CASE from = "mark_lock"
      <4>1. call[w] \in Marking
        BY <1>1, <3>2, CallKinds DEF Lock, At
      <4> QED BY <1>1, <3>2, <4>1 DEF Marking
    <3> QED BY <1>1, <3>1, <3>2
  <2>2. call' \in [Worker -> Calls]
    BY <1>1, <2>1 DEF Lock, Become, TypeOK
  <2> QED BY <1>1, <2>2 DEF Lock, TypeOK
<1>2. ASSUME NEW w \in Worker, AppendLine(w) PROVE TypeOK'
  <2>1. PICK b \in Box, m \in Msg :
          call[w] \in Sending /\ b = call[w].to /\ m = call[w].msg
    BY <1>2, CallKinds DEF AppendLine, At, SendStep, Sending
  <2>2. [id |-> m, read |-> FALSE] \in Entry
    BY DEF Entry
  <2>3. [call[w] EXCEPT !.at = "send_unlock"] \in Calls
    BY <2>1 DEF Sending
  <2>4. Append(box[b], [id |-> m, read |-> FALSE]) \in Seq(Entry)
    <3>1. box[b] \in Seq(Entry)
      BY DEF TypeOK
    <3> QED BY <2>2, <3>1
  <2>5. Append(log[b], m) \in Seq(Msg)
    <3>1. log[b] \in Seq(Msg)
      BY DEF TypeOK
    <3> QED BY <3>1
  <2>6. /\ box' = [box EXCEPT ![b] = Append(box[b], [id |-> m, read |-> FALSE])]
        /\ log' = [log EXCEPT ![b] = Append(log[b], m)]
        /\ call' = [call EXCEPT ![w] = [call[w] EXCEPT !.at = "send_unlock"]]
        /\ lock' = lock /\ sender' = sender /\ crashed' = crashed
    BY <1>2, <2>1 DEF AppendLine, Become
  <2>7. box' \in [Box -> Seq(Entry)] /\ log' \in [Box -> Seq(Msg)]
    BY <2>4, <2>5, <2>6 DEF TypeOK
  <2>8. call' \in [Worker -> Calls]
    BY <2>3, <2>6 DEF TypeOK
  <2> QED BY <2>6, <2>7, <2>8 DEF TypeOK
<1>3. ASSUME NEW w \in Worker, Unlock(w) PROVE TypeOK'
  <2>1. call[w] \in Sending
    BY <1>3, CallKinds DEF Unlock, At, SendStep
  <2>2. call[w].msg \in Msg /\ call[w].rest \in Seq(Box)
    BY <2>1 DEF Sending
  <2>3. call[w].rest # <<>> =>
          [at |-> "send_lock", msg |-> call[w].msg, to |-> Head(call[w].rest),
           rest |-> Tail(call[w].rest)] \in Calls
    BY <2>2, ListParts DEF Sending
  <2>4. call' \in [Worker -> Calls]
    BY <1>3, <2>3 DEF Unlock, Become, TypeOK
  <2> QED BY <1>3, <2>4 DEF Unlock, TypeOK
<1>4. ASSUME NEW w \in Worker, Load(w) PROVE TypeOK'
  <2>1. call[w] \in Marking
    BY <1>4, CallKinds DEF Load, At
  <2>2. [at |-> "unlink", msg |-> call[w].msg, to |-> call[w].to,
         lines |-> box[call[w].to]] \in Calls
    BY <2>1 DEF Marking, Rewriting, TypeOK
  <2>3. call' \in [Worker -> Calls]
    BY <1>4, <2>2 DEF Load, Become, TypeOK
  <2> QED BY <1>4, <2>3 DEF Load, TypeOK
<1>5. ASSUME NEW w \in Worker, Unlink(w) PROVE TypeOK'
  <2>1. call[w] \in Rewriting
    BY <1>5, CallKinds DEF Unlink, At
  <2>2. [call[w] EXCEPT !.at = "rewrite"] \in Calls
    BY <2>1 DEF Rewriting
  <2>3. call' \in [Worker -> Calls]
    BY <1>5, <2>2 DEF Unlink, Become, TypeOK
  <2>4. box' \in [Box -> Seq(Entry)]
    BY <1>5, EmptySeq DEF Unlink, TypeOK
  <2> QED BY <1>5, <2>3, <2>4 DEF Unlink, TypeOK
<1>6. ASSUME NEW w \in Worker, Rewrite(w) PROVE TypeOK'
  <2>1. call[w] \in Rewriting /\ call[w].to \in Box /\ call[w].lines \in Seq(Entry)
    BY <1>6, CallKinds DEF Rewrite, At, Rewriting
  <2>2. CASE call[w].lines = <<>>
    BY <1>6, <2>2 DEF Rewrite, Become, TypeOK
  <2>3. CASE call[w].lines # <<>>
    <3>1. Head(call[w].lines) \in Entry /\ Tail(call[w].lines) \in Seq(Entry)
      BY <2>1, <2>3, HeadTailProperties
    <3>2. Rewritten(call[w].lines, call[w].msg)[1] \in Entry
      <4>1. Len(call[w].lines) > 0 /\ Rewritten(call[w].lines, call[w].msg) \in Seq(Entry)
            /\ Len(Rewritten(call[w].lines, call[w].msg)) = Len(call[w].lines)
        BY <2>1, <2>3, RewrittenLines, EmptySeq
      <4> QED BY <4>1, ElementOfSeq
    <3>3. [call[w] EXCEPT !.lines = Tail(@)] \in Calls
      BY <2>1, <3>1 DEF Rewriting
    <3>4. call' = [call EXCEPT ![w] = [call[w] EXCEPT !.lines = Tail(@)]]
      BY <1>6, <2>3 DEF Rewrite, Become
    <3>5. call' \in [Worker -> Calls]
      BY <3>3, <3>4 DEF TypeOK
    <3>6. Append(box[call[w].to], Rewritten(call[w].lines, call[w].msg)[1]) \in Seq(Entry)
      <4>1. box[call[w].to] \in Seq(Entry)
        BY <2>1 DEF TypeOK
      <4> QED BY <3>2, <4>1
    <3>7. box' = [box EXCEPT ![call[w].to] = Append(box[call[w].to], Rewritten(call[w].lines, call[w].msg)[1])]
      BY <1>6, <2>3 DEF Rewrite
    <3>8. box' \in [Box -> Seq(Entry)]
      BY <3>6, <3>7 DEF TypeOK
    <3> QED BY <1>6, <2>3, <3>5, <3>8 DEF Rewrite, TypeOK
  <2> QED BY <2>2, <2>3
<1>7. ASSUME NEW w \in Worker, NEW m \in Msg, NEW targets \in Lists, Send(w, m, targets)
      PROVE  TypeOK'
  <2>1. [at |-> "send_lock", msg |-> m, to |-> Head(targets), rest |-> Tail(targets)] \in Calls
    BY ListsAreSequences, ListParts DEF Sending
  <2>2. call' \in [Worker -> Calls]
    BY <1>7, <2>1 DEF Send, Become, TypeOK
  <2> QED BY <1>7, <2>2 DEF Send, TypeOK
<1>8. ASSUME NEW w \in Worker, NEW b \in Box, NEW m \in Msg, Mark(w, b, m) PROVE TypeOK'
  <2>1. [at |-> "mark_lock", msg |-> m, to |-> b] \in Calls
    BY DEF Marking
  <2>2. call' \in [Worker -> Calls]
    BY <1>8, <2>1 DEF Mark, Become, TypeOK
  <2> QED BY <1>8, <2>2 DEF Mark, TypeOK
<1>9. ASSUME NEW w \in Worker, Crash(w) PROVE TypeOK'
  BY <1>9 DEF Crash, TypeOK
<1>10. ASSUME NEW b \in Box, BreakStale(b) PROVE TypeOK'
  BY <1>10 DEF BreakStale, TypeOK
<1>11. CASE UNCHANGED vars
  BY <1>11 DEF vars, TypeOK
<1> QED BY <1>1, <1>2, <1>3, <1>4, <1>5, <1>6, <1>7, <1>8, <1>9, <1>10, <1>11 DEF Next, Call

\* Nobody comes back from the dead.
LEMMA DeathStays == Next => crashed \subseteq crashed'
BY DEF Next, Call, Lock, AppendLine, Unlock, Load, Unlink, Rewrite, Send, Mark, Crash, BreakStale

LEMMA InitMailboxInv == Init => MailboxInv
<1> SUFFICES ASSUME Init PROVE MailboxInv
  OBVIOUS
<1>1. TypeOK
  <2>1. box \in [Box -> Seq(Entry)] /\ log \in [Box -> Seq(Msg)]
    BY EmptySeq DEF Init
  <2> QED BY <2>1 DEF Init, TypeOK
<1>2. \A w \in Worker : call[w].at = "idle"
  BY DEF Init, Idle
<1>3. Guarded /\ Theirs
  BY <1>2 DEF Guarded, Theirs, Inside, SendStep
<1> QED BY <1>1, <1>3 DEF MailboxInv

LEMMA MailboxInvStep == MailboxInv /\ [Next]_vars => MailboxInv'
<1> SUFFICES ASSUME MailboxInv, [Next]_vars PROVE MailboxInv'
  OBVIOUS
<1>1. TypeOK'
  BY NextType DEF MailboxInv
<1>2. ASSUME crashed' = {} PROVE Guarded' /\ Theirs'
  <2>1. CASE UNCHANGED vars
    BY <1>2, <2>1 DEF vars, MailboxInv, Guarded, Theirs
  <2>2. CASE Next
    <3>1. crashed = {}
      BY <1>2, <2>2, DeathStays
    <3> QED BY <1>2, <2>2, <3>1, LivingStep DEF Kept
  <2> QED BY <2>1, <2>2
<1> QED BY <1>1, <1>2 DEF MailboxInv

\* At every time the stored values have their shape and, while nobody died, who
\* is inside holds the mailbox's lock, nobody else has changed the file it read,
\* and a message is under way in one thread only (send, mark_read: mailbox.py).
THEOREM MailboxInvariant == Spec => []MailboxInv
BY InitMailboxInv, MailboxInvStep, PTL DEF Spec

LEMMA PromiseInit == Init => Promise!Init
<1> SUFFICES ASSUME Init PROVE Promise!Init
  OBVIOUS
<1>1. \A b \in Box : Contents(b) = <<>>
  BY DEF Init, Contents, Idle
<1>2. \A m \in Msg : Owed(m) = <<>>
  BY DEF Init, Owed, Idle
<1>3. {m \in Msg : sender[m] # Free} = {} /\ crashed = {}
  BY DEF Init
<1> QED BY <1>1, <1>2, <1>3 DEF Promise!Init

\* Until somebody dies the mailbox files implement MailboxSpec, whatever the
\* mailboxes, messages and threads are: a call of send() posts its list, its
\* appends serve the list in order, one copy for each time a name is listed, a
\* lock it cannot get gives the rest up; the unlinking in mark_read() is the mark
\* and the rest of the rewriting changes nothing.
THEOREM MailboxRefinement == Spec => KeepsPromise
<1>1. MailboxInv /\ [Next]_vars => [Promise!Next]_View
  <2> SUFFICES ASSUME MailboxInv, [Next]_vars
               PROVE  Promise!Next \/ UNCHANGED View
    OBVIOUS
  <2>1. CASE UNCHANGED vars
    BY <2>1 DEF vars, View, Contents, Owed
  <2>2. CASE Next /\ crashed' # {}
    BY <2>2 DEF Promise!Next, Promise!Die
  <2>3. CASE Next /\ crashed' = {}
    <3>1. crashed = {}
      BY <2>3, DeathStays
    <3> QED BY <2>3, <3>1, LivingStep DEF Kept
  <2> QED BY <2>1, <2>2, <2>3
<1> QED BY <1>1, MailboxInvariant, PromiseInit, PTL DEF Spec, KeepsPromise, Promise!Spec, View

-----------------------------------------------------------------------------
(* The roster *)

MemberStatus == {"starting", "idle", "working", "stopped", "failed"}
LeadOp == {"idle", "spawn", "launch", "launched", "stop", "stopSave", "close",
           "resume", "restored", "restoreSave"}
Restoring == {"resume", "restored", "restoreSave"}

RosterShape ==
  /\ Listed \subseteq Member /\ IsFiniteSet(Listed) /\ Cardinality(Listed) <= MaxMembers
  /\ roster \in [Listed -> MemberStatus]
  /\ runners \in [Member -> 0..1] /\ saving = [m \in Member |-> saving[m]]
  /\ team \in {"active", "closed", "deleted", "detached"}
  /\ lead = [op |-> lead.op, name |-> lead.name, saw |-> lead.saw, todo |-> lead.todo,
             closing |-> lead.closing]
  /\ lead.op \in LeadOp

\* The listed members that are not over and do not run because of the lead: it is
\* about to start them, has stopped them, or has still to restore them.
Away == CASE lead.op \in {"launch", "stopSave"} -> {lead.name}
          [] lead.op = "stop" -> {lead.name} \ stopping
          [] lead.op \in Restoring -> lead.todo
          [] OTHER -> {}

RunInv ==
  /\ Running = IF Attached THEN (Active \ Away) \ gone ELSE {}
  /\ lead.op \in Restoring => lead.todo \subseteq Active
  /\ stopping \subseteq IF lead.op = "stop" THEN {lead.name} \cap Running ELSE {}

\* What the lead is about to write differs from what is there in the member it
\* is busy with.
SawInv ==
  /\ lead.op \in {"idle", "close", "resume", "stop", "restored"} => lead.saw = <<>>
  /\ lead.op = "spawn" => /\ lead.name \in Member \ Listed /\ Cardinality(Listed) < MaxMembers
                          /\ lead.saw = With(lead.name, "starting")
  /\ lead.op \in {"launch", "launched"} => /\ lead.name \in Listed /\ lead.saw = roster
                                           /\ roster[lead.name] = "starting"
  /\ lead.op \in {"stop", "stopSave"} => lead.name \in Listed
  /\ lead.op = "stopSave" => lead.saw = With(lead.name, "stopped")
  /\ lead.op \in {"restored", "restoreSave"} => lead.name \in Active \ lead.todo
  /\ lead.op = "restoreSave" => lead.saw = With(lead.name, "idle")
  /\ ~ Attached => lead.op = "idle"

\* What a member is about to write differs from what is there in its status.
SavingInv == \A m \in Member : saving[m] # <<>> =>
  m \in Running /\ \E s \in {"working", "idle"} : saving[m] = <<With(m, s)>>

\* Who runs can be stopped, and no name is taken that is not listed.
HandlesInv ==
  /\ Attached => registry \subseteq Listed
  /\ team # "deleted" => handles \subseteq Listed
  /\ Attached => Running \subseteq handles \cup
       (IF lead.op \in {"launched", "restored", "restoreSave"} THEN {lead.name} ELSE {})

CalmInv == RosterShape /\ RunInv /\ SawInv /\ SavingInv /\ HandlesInv
RosterInv == calm => CalmInv

-----------------------------------------------------------------------------
(* What a write does to the sets of members *)

LEMMA WithFacts ==
  ASSUME RosterShape, NEW m \in Member, NEW s \in MemberStatus
  PROVE  /\ With(m, s) \in [Listed \cup {m} -> MemberStatus]
         /\ DOMAIN With(m, s) = Listed \cup {m} /\ With(m, s) # <<>>
         /\ With(m, s)[m] = s
         /\ \A n \in Listed : n # m => With(m, s)[n] = roster[n]
<1>1. With(m, s) \in [Listed \cup {m} -> MemberStatus]
  BY DEF RosterShape, With
<1>2. DOMAIN With(m, s) = Listed \cup {m}
  BY DEF With
<1>3. With(m, s) # <<>>
  BY <1>2
<1> QED BY <1>1, <1>2, <1>3 DEF With

LEMMA WriteFacts ==
  ASSUME RosterShape, NEW m \in Member, NEW s \in MemberStatus, roster' = With(m, s)
  PROVE  /\ Listed' = Listed \cup {m} /\ roster' \in [Listed' -> MemberStatus]
         /\ roster'[m] = s
         /\ Active' = IF s \in Over THEN Active \ {m} ELSE Active \cup {m}
         /\ Listed' \subseteq Member /\ IsFiniteSet(Listed')
         /\ m \in Listed => Cardinality(Listed') <= MaxMembers
         /\ Cardinality(Listed) < MaxMembers => Cardinality(Listed') <= MaxMembers
<1>1. /\ Listed' = Listed \cup {m} /\ roster' \in [Listed' -> MemberStatus]
      /\ roster'[m] = s /\ \A n \in Listed : n # m => roster'[n] = roster[n]
  BY WithFacts DEF Listed
<1>2. Active' = IF s \in Over THEN Active \ {m} ELSE Active \cup {m}
  BY <1>1 DEF Active
<1>3. Listed' \subseteq Member
  BY <1>1 DEF RosterShape
<1>4. IsFiniteSet(Listed) /\ Cardinality(Listed) \in Nat
  BY FS_CardinalityType DEF RosterShape
<1>5. /\ IsFiniteSet(Listed')
      /\ Cardinality(Listed') = IF m \in Listed THEN Cardinality(Listed) ELSE Cardinality(Listed) + 1
  BY <1>1, <1>4, FS_AddElement
<1>6. /\ m \in Listed => Cardinality(Listed') <= MaxMembers
      /\ Cardinality(Listed) < MaxMembers => Cardinality(Listed') <= MaxMembers
  BY <1>4, <1>5, RosterAssumption DEF RosterShape
<1> QED BY <1>1, <1>2, <1>3, <1>5, <1>6

LEMMA SameRoster ==
  ASSUME roster' = roster
  PROVE  Listed' = Listed /\ Active' = Active /\ \A m, s : With(m, s)' = With(m, s)
BY DEF Listed, Active, With

LEMMA SameRunners ==
  ASSUME runners' = runners
  PROVE  Running' = Running
BY DEF Running

\* The members' threads as they were.
LEMMA SavingStays ==
  ASSUME SavingInv, UNCHANGED <<roster, runners, saving>>
  PROVE  SavingInv'
BY DEF SavingInv, Running, With, Listed

LEMMA NobodySaves ==
  ASSUME ~ MembersSaving, UNCHANGED saving
  PROVE  SavingInv'
BY DEF MembersSaving, SavingInv

-----------------------------------------------------------------------------
(* spawn_member *)

LEMMA SpawnBeginKeeps ==
  ASSUME CalmInv, NEW m \in Member, SpawnBegin(m)
  PROVE  CalmInv'
<1>1. UNCHANGED <<roster, runners, stopping, saving, team, registry, handles, gone>>
      /\ lead.op = "idle" /\ Attached /\ m \in Member \ Listed /\ Cardinality(Listed) < MaxMembers
  BY DEF SpawnBegin, LeadIs
<1>2. Listed' = Listed /\ Active' = Active /\ Running' = Running /\ (Attached' <=> Attached)
      /\ \A n, s : With(n, s)' = With(n, s)
  BY <1>1, SameRoster, SameRunners DEF Attached
<1>3. lead' = [op |-> "spawn", name |-> m, saw |-> With(m, "starting"), todo |-> {},
               closing |-> FALSE]
  BY DEF SpawnBegin, IdleLead
<1>4. RosterShape'
  BY <1>1, <1>2, <1>3 DEF CalmInv, RosterShape, LeadOp
<1>5. RunInv'
  BY <1>1, <1>2, <1>3 DEF CalmInv, RunInv, Away, Restoring
<1>6. SawInv'
  BY <1>1, <1>2, <1>3 DEF SawInv
<1>7. SavingInv' /\ HandlesInv'
  BY <1>1, <1>2, <1>3, SavingStays DEF CalmInv, HandlesInv
<1> QED BY <1>4, <1>5, <1>6, <1>7 DEF CalmInv

LEMMA SpawnSaveKeeps ==
  ASSUME CalmInv, SpawnSave, calm'
  PROVE  CalmInv'
<1> DEFINE m == lead.name
<1>1. UNCHANGED <<runners, stopping, saving, team, handles, gone>>
      /\ lead.op = "spawn" /\ Attached /\ ~ MembersSaving /\ registry' = registry \cup {m}
  BY DEF SpawnSave, LeadSaves, LeadIs
<1>2. m \in Member \ Listed /\ Cardinality(Listed) < MaxMembers /\ roster' = With(m, "starting")
      /\ lead.saw = With(m, "starting") /\ m \notin registry
  BY <1>1 DEF CalmInv, SawInv, HandlesInv, SpawnSave, LeadSaves
<1>3. Running' = Running /\ (Attached' <=> Attached)
  BY <1>1, SameRunners DEF Attached
<1>4. /\ Listed' = Listed \cup {m} /\ roster' \in [Listed' -> MemberStatus]
      /\ roster'[m] = "starting" /\ Active' = Active \cup {m}
      /\ Listed' \subseteq Member /\ IsFiniteSet(Listed') /\ Cardinality(Listed') <= MaxMembers
  BY <1>2, WriteFacts DEF CalmInv, MemberStatus, Over
<1>5. lead' = [op |-> "launch", name |-> m, saw |-> lead.saw, todo |-> lead.todo,
               closing |-> lead.closing]
  BY <1>2 DEF SpawnSave, CalmInv, RosterShape
<1>6. RosterShape'
  BY <1>1, <1>4, <1>5 DEF CalmInv, RosterShape, LeadOp
<1>7. m \notin Active
  BY <1>2 DEF Active
<1>8. RunInv'
  BY <1>1, <1>3, <1>4, <1>5, <1>7 DEF CalmInv, RunInv, Away, Restoring
<1>9. SawInv'
  BY <1>1, <1>2, <1>3, <1>4, <1>5 DEF SawInv
<1>10. SavingInv'
  BY <1>1, NobodySaves
<1>11. HandlesInv'
  BY <1>1, <1>3, <1>4, <1>5 DEF CalmInv, HandlesInv
<1> QED BY <1>6, <1>8, <1>9, <1>10, <1>11 DEF CalmInv

\* A step of the lead that leaves the roster, the threads and the team alone.
LEMMA LeadMoves ==
  ASSUME CalmInv, UNCHANGED <<roster, runners, stopping, saving, team, registry, handles>>
  PROVE  /\ Listed' = Listed /\ Active' = Active /\ Running' = Running
         /\ (Attached' <=> Attached)
         /\ \A n, s : With(n, s)' = With(n, s)
         /\ SavingInv'
BY SameRoster, SameRunners, SavingStays DEF CalmInv, Attached

LEMMA LaunchKeeps ==
  ASSUME CalmInv, Launch
  PROVE  CalmInv'
<1> DEFINE m == lead.name
<1>1. UNCHANGED <<roster, stopping, saving, team, registry, handles>>
      /\ lead.op = "launch" /\ Attached /\ runners' = [runners EXCEPT ![m] = @ + 1]
      /\ gone' = gone \ {m}
  BY DEF Launch, LeadIs
<1>2. m \in Listed /\ lead.saw = roster /\ roster[m] = "starting" /\ m \in Member
  BY <1>1 DEF CalmInv, SawInv, RosterShape
<1>a. m \in Active
  BY <1>2 DEF Active, Over
<1>3. m \in Active /\ Running = (Active \ {m}) \ gone
  BY <1>1, <1>a DEF CalmInv, RunInv, Away, Restoring
<1>4. runners[m] = 0
  BY <1>2, <1>3 DEF Running, CalmInv, RosterShape
<1>5. runners' \in [Member -> 0..1] /\ Running' = Running \cup {m}
  BY <1>1, <1>2, <1>4 DEF Running, CalmInv, RosterShape
<1>6. Listed' = Listed /\ Active' = Active /\ (Attached' <=> Attached)
      /\ \A n, s : With(n, s)' = With(n, s)
  BY <1>1, SameRoster DEF Attached
<1>7. lead' = [op |-> "launched", name |-> m, saw |-> lead.saw, todo |-> lead.todo,
               closing |-> lead.closing]
  BY DEF Launch, CalmInv, RosterShape
<1>8. RosterShape'
  BY <1>1, <1>5, <1>6, <1>7 DEF CalmInv, RosterShape, LeadOp
<1>9. RunInv'
  BY <1>1, <1>3, <1>5, <1>6, <1>7 DEF CalmInv, RunInv, Away, Restoring
<1>10. SawInv'
  BY <1>1, <1>2, <1>6, <1>7 DEF SawInv
<1>11. SavingInv'
  BY <1>1, <1>5, <1>6 DEF CalmInv, SavingInv
<1>12. HandlesInv'
  BY <1>1, <1>5, <1>6, <1>7 DEF CalmInv, HandlesInv
<1> QED BY <1>8, <1>9, <1>10, <1>11, <1>12 DEF CalmInv

LEMMA SpawnEndsKeep ==
  ASSUME CalmInv, LaunchFails \/ SpawnEnd, calm'
  PROVE  CalmInv'
<1> DEFINE m == lead.name
           s == IF LaunchFails THEN "failed" ELSE "idle"
<1>1. UNCHANGED <<runners, stopping, saving, team, registry, gone>> /\ Attached /\ ~ MembersSaving
      /\ lead.op \in {"launch", "launched"} /\ (LaunchFails <=> lead.op = "launch")
      /\ handles' = (IF lead.op = "launch" THEN handles ELSE handles \cup {m})
      /\ lead' = IdleLead
  BY DEF LaunchFails, SpawnEnd, LeadSaves, LeadIs
<1>2. m \in Listed /\ lead.saw = roster /\ roster[m] = "starting" /\ m \in Member
      /\ roster \in [Listed -> MemberStatus] /\ s \in MemberStatus
  BY <1>1 DEF CalmInv, SawInv, RosterShape, MemberStatus
<1>3. roster' = [roster EXCEPT ![m] = s]
  BY <1>1, <1>2 DEF LaunchFails, SpawnEnd, LeadSaves
<1> HIDE DEF s
<1>4. roster' = With(m, s)
  BY <1>2, <1>3 DEF With
<1>5. /\ Listed' = Listed /\ roster' \in [Listed' -> MemberStatus]
      /\ Active' = IF s \in Over THEN Active \ {m} ELSE Active \cup {m}
      /\ Cardinality(Listed') <= MaxMembers
  BY <1>2, <1>4, WriteFacts DEF CalmInv
<1>6. Running' = Running /\ (Attached' <=> Attached)
  BY <1>1, SameRunners DEF Attached
<1>7. m \in Active /\ Active' = IF lead.op = "launch" THEN Active \ {m} ELSE Active
  BY <1>1, <1>2, <1>5 DEF Active, Over, s
<1>8. RosterShape'
  BY <1>1, <1>5 DEF CalmInv, RosterShape, IdleLead, LeadOp
<1>9. RunInv'
  BY <1>1, <1>6, <1>7 DEF CalmInv, RunInv, Away, IdleLead, Restoring
<1>10. SawInv'
  BY <1>1 DEF SawInv, IdleLead
<1>11. SavingInv'
  BY <1>1, NobodySaves
<1>12. Running \subseteq handles'
  BY <1>1, <1>2 DEF CalmInv, RunInv, Away, HandlesInv
<1>13. HandlesInv'
  BY <1>1, <1>2, <1>5, <1>6, <1>12 DEF CalmInv, HandlesInv
<1> QED BY <1>8, <1>9, <1>10, <1>11, <1>13 DEF CalmInv

-----------------------------------------------------------------------------
(* stop_member, close_team, delete_team *)

LEMMA StopBeginKeeps ==
  ASSUME CalmInv, NEW m \in Member, StopBegin(m)
  PROVE  CalmInv'
<1>1. UNCHANGED <<roster, runners, saving, team, registry, handles, gone>>
      /\ lead.op \in {"idle", "close"} /\ Attached /\ m \in Listed
  BY DEF StopBegin, LeadIs
<1>2. stopping = {} /\ Running = Active \ gone /\ Running \subseteq handles /\ lead.saw = <<>>
  BY <1>1 DEF CalmInv, RunInv, Away, Restoring, HandlesInv, SawInv
<1>3. stopping' = IF m \in Running THEN {m} ELSE {}
  BY <1>2 DEF StopBegin, Running
<1>4. Listed' = Listed /\ Active' = Active /\ Running' = Running /\ (Attached' <=> Attached)
      /\ SavingInv'
  BY <1>1, SameRoster, SameRunners, SavingStays DEF CalmInv, Attached
<1>5. lead' = [op |-> "stop", name |-> m, saw |-> lead.saw, todo |-> lead.todo \ {m},
               closing |-> lead.op = "close"]
  BY DEF StopBegin, CalmInv, RosterShape
<1>6. RosterShape'
  BY <1>1, <1>4, <1>5 DEF CalmInv, RosterShape, LeadOp
<1>7. RunInv'
  BY <1>1, <1>2, <1>3, <1>4, <1>5 DEF RunInv, Away, Restoring
<1>8. SawInv'
  BY <1>1, <1>2, <1>4, <1>5 DEF SawInv
<1>9. HandlesInv'
  BY <1>1, <1>2, <1>4 DEF CalmInv, HandlesInv
<1> QED BY <1>4, <1>6, <1>7, <1>8, <1>9 DEF CalmInv

LEMMA StopWaitedKeeps ==
  ASSUME CalmInv, StopWaited
  PROVE  CalmInv'
<1> DEFINE m == lead.name
<1>1. UNCHANGED <<roster, runners, stopping, saving, team, registry, handles, gone>>
      /\ lead.op = "stop" /\ Attached /\ m \notin stopping
  BY DEF StopWaited, LeadIs
<1>2. Listed' = Listed /\ Active' = Active /\ Running' = Running /\ (Attached' <=> Attached)
      /\ SavingInv' /\ \A n, s : With(n, s)' = With(n, s)
  BY <1>1, LeadMoves
<1>3. m \in Listed
  BY <1>1 DEF CalmInv, SawInv
<1>4. lead' = [op |-> "stopSave", name |-> m, saw |-> With(m, "stopped"), todo |-> lead.todo,
               closing |-> lead.closing]
  BY <1>3 DEF StopWaited, CalmInv, RosterShape, Put
<1>5. RosterShape'
  BY <1>1, <1>2, <1>4 DEF CalmInv, RosterShape, LeadOp
<1>6. RunInv'
  BY <1>1, <1>2, <1>4 DEF CalmInv, RunInv, Away, Restoring
<1>7. SawInv'
  BY <1>1, <1>2, <1>3, <1>4 DEF SawInv
<1>8. HandlesInv'
  BY <1>1, <1>2, <1>4 DEF CalmInv, HandlesInv
<1> QED BY <1>2, <1>5, <1>6, <1>7, <1>8 DEF CalmInv

LEMMA StopSaveKeeps ==
  ASSUME CalmInv, StopSave, calm'
  PROVE  CalmInv'
<1> DEFINE m == lead.name
<1>1. UNCHANGED <<runners, stopping, saving, team, registry, handles, gone>>
      /\ lead.op = "stopSave" /\ Attached /\ ~ MembersSaving
  BY DEF StopSave, LeadSaves, LeadIs
<1>2. m \in Listed /\ m \in Member /\ roster' = With(m, "stopped")
  BY <1>1 DEF CalmInv, SawInv, RosterShape, StopSave, LeadSaves
<1>3. /\ Listed' = Listed /\ roster' \in [Listed' -> MemberStatus] /\ Active' = Active \ {m}
      /\ Cardinality(Listed') <= MaxMembers
  BY <1>2, WriteFacts DEF CalmInv, MemberStatus, Over
<1>4. Running' = Running /\ (Attached' <=> Attached)
  BY <1>1, SameRunners DEF Attached
<1>5. lead' = [op |-> IF lead.closing THEN "close" ELSE "idle", name |-> "", saw |-> <<>>,
               todo |-> IF lead.closing THEN lead.todo ELSE {}, closing |-> FALSE]
  BY DEF StopSave, IdleLead
<1>6. RosterShape'
  BY <1>1, <1>3, <1>5 DEF CalmInv, RosterShape, LeadOp
<1>7. RunInv'
  BY <1>1, <1>3, <1>4, <1>5 DEF CalmInv, RunInv, Away, Restoring
<1>8. SawInv'
  BY <1>1, <1>4, <1>5 DEF SawInv
<1>9. SavingInv'
  BY <1>1, NobodySaves
<1>10. HandlesInv'
  BY <1>1, <1>3, <1>4, <1>5 DEF CalmInv, HandlesInv
<1> QED BY <1>6, <1>7, <1>8, <1>9, <1>10 DEF CalmInv

\* The steps between two operations, and the end of a resume.
LEMMA CloseStepsKeep ==
  ASSUME CalmInv, CloseBegin \/ CloseEnd \/ ResumeEnd
  PROVE  CalmInv'
<1>1. UNCHANGED <<roster, runners, stopping, saving, registry, handles>> /\ Attached /\ Attached'
      /\ lead.op \in {"idle", "close", "resume"} /\ team' \in {"active", "closed"}
      /\ gone' = IF lead.op = "resume" THEN gone \cup lead.todo ELSE gone
  BY DEF CloseBegin, CloseEnd, ResumeEnd, LeadIs, Attached
<1>2. Listed' = Listed /\ Active' = Active /\ Running' = Running /\ SavingInv'
  BY <1>1, SameRoster, SameRunners, SavingStays DEF CalmInv
<1>3. /\ lead' = [op |-> lead'.op, name |-> lead'.name, saw |-> lead'.saw,
                  todo |-> lead'.todo, closing |-> lead'.closing]
      /\ lead'.op \in {"idle", "close"} /\ lead'.saw = <<>>
  <2>1. CASE CloseBegin
    <3> DEFINE new == [op |-> "close", name |-> "", saw |-> <<>>, todo |-> Active,
                       closing |-> FALSE]
    <3>1. lead' = new
      BY <2>1 DEF CloseBegin, IdleLead
    <3> QED BY <3>1
  <2>2. CASE lead' = IdleLead
    BY <2>2 DEF IdleLead
  <2> QED BY <2>1, <2>2 DEF CloseEnd, ResumeEnd
<1>4. RosterShape'
  BY <1>1, <1>2, <1>3 DEF CalmInv, RosterShape, LeadOp
<1>5. RunInv'
  BY <1>1, <1>2, <1>3 DEF CalmInv, RunInv, Away, Restoring
<1>6. SawInv'
  BY <1>1, <1>3 DEF SawInv
<1>7. HandlesInv'
  <2>1. registry \subseteq Listed /\ handles \subseteq Listed /\ Running \subseteq handles
    BY <1>1 DEF CalmInv, HandlesInv, Attached
  <2> QED BY <1>1, <1>2, <2>1 DEF HandlesInv
<1> QED BY <1>2, <1>4, <1>5, <1>6, <1>7 DEF CalmInv

LEMMA DeleteKeeps ==
  ASSUME CalmInv, Delete
  PROVE  CalmInv'
<1>1. UNCHANGED <<handles, runners, stopping, saving, lead>> /\ roster' = <<>> /\ team' = "deleted"
      /\ lead.op = "idle" /\ Attached /\ Active = {}
  BY DEF Delete, LeadIs
<1>2. Running = {} /\ stopping = {}
  BY <1>1 DEF CalmInv, RunInv, Away, Restoring
<1>3. Running' = {} /\ ~ Attached'
  BY <1>1, <1>2, SameRunners DEF Attached
<1>4. Listed' = {}
  BY <1>1 DEF Listed
<1>5. IsFiniteSet(Listed') /\ Cardinality(Listed') <= MaxMembers
  BY <1>4, FS_EmptySet, RosterAssumption
<1>6. roster' \in [Listed' -> MemberStatus]
  BY <1>1, <1>4
<1>7. RosterShape'
  BY <1>1, <1>4, <1>5, <1>6 DEF CalmInv, RosterShape
<1>8. RunInv'
  BY <1>1, <1>2, <1>3 DEF RunInv, Restoring
<1>9. SawInv'
  BY <1>1 DEF CalmInv, SawInv
<1>10. SavingInv'
  BY <1>1, <1>2 DEF CalmInv, SavingInv
<1>11. HandlesInv'
  BY <1>1, <1>3 DEF HandlesInv
<1> QED BY <1>7, <1>8, <1>9, <1>10, <1>11 DEF CalmInv

-----------------------------------------------------------------------------
(* Deaths and resume *)

LEMMA DieKeeps ==
  ASSUME CalmInv, Die
  PROVE  CalmInv'
<1>1. UNCHANGED roster /\ team' = "detached" /\ lead' = IdleLead /\ stopping' = {}
      /\ handles' = {}
      /\ runners' = [m \in Member |-> 0] /\ saving' = [m \in Member |-> <<>>]
  BY DEF Die
<1>2. Listed' = Listed /\ ~ Attached' /\ Running' = {}
  BY <1>1 DEF Listed, Attached, Running
<1>a. runners' \in [Member -> 0..1] /\ saving' = [m \in Member |-> saving'[m]]
  BY <1>1
<1>b. lead' = [op |-> lead'.op, name |-> lead'.name, saw |-> lead'.saw, todo |-> lead'.todo,
               closing |-> lead'.closing] /\ lead'.op = "idle"
  BY <1>1 DEF IdleLead
<1>3. RosterShape'
  BY <1>1, <1>2, <1>a, <1>b DEF CalmInv, RosterShape, LeadOp
<1>4. RunInv' /\ SawInv'
  BY <1>1, <1>2, <1>b DEF RunInv, SawInv, IdleLead, Restoring
<1>5. SavingInv' /\ HandlesInv'
  BY <1>1, <1>2 DEF SavingInv, HandlesInv
<1> QED BY <1>3, <1>4, <1>5 DEF CalmInv

LEMMA ResumeKeeps ==
  ASSUME CalmInv, Resume, calm'
  PROVE  CalmInv'
<1>1. UNCHANGED <<roster, handles, runners, stopping, saving, gone>> /\ Running = {} /\ Attached'
      /\ team' = "active" /\ registry' = Listed /\ ((lead.op = "idle" /\ Attached) \/ team = "detached")
  BY DEF Resume, LeadIs, Attached
<1>2. stopping = {}
  BY <1>1 DEF CalmInv, RunInv, SawInv, Attached
<1>3. Listed' = Listed /\ Active' = Active /\ Running' = Running /\ SavingInv'
  BY <1>1, SameRoster, SameRunners, SavingStays DEF CalmInv
<1>4. lead' = [op |-> "resume", name |-> "", saw |-> <<>>, todo |-> Active, closing |-> FALSE]
  BY DEF Resume, IdleLead
<1>5. RosterShape'
  BY <1>1, <1>3, <1>4 DEF CalmInv, RosterShape, LeadOp
<1>6. RunInv'
  BY <1>1, <1>2, <1>3, <1>4 DEF RunInv, Away, Restoring
<1>7. SawInv'
  BY <1>1, <1>4 DEF SawInv
<1>8. handles \subseteq Listed
  BY <1>1 DEF CalmInv, HandlesInv, Attached
<1>9. HandlesInv'
  BY <1>1, <1>3, <1>8 DEF HandlesInv
<1> QED BY <1>3, <1>5, <1>6, <1>7, <1>9 DEF CalmInv

LEMMA RestoreLaunchKeeps ==
  ASSUME CalmInv, NEW m \in Member, RestoreLaunch(m)
  PROVE  CalmInv'
<1>1. UNCHANGED <<roster, stopping, saving, team, registry, handles>>
      /\ lead.op = "resume" /\ Attached /\ m \in lead.todo /\ gone' = gone \ {m}
      /\ runners' = [runners EXCEPT ![m] = @ + 1]
  BY DEF RestoreLaunch, LeadIs
<1>2. Running = (Active \ lead.todo) \ gone /\ lead.todo \subseteq Active /\ lead.saw = <<>>
  BY <1>1 DEF CalmInv, RunInv, Away, Restoring, SawInv
<1>3. m \in Active /\ runners[m] = 0
  BY <1>1, <1>2 DEF Running, CalmInv, RosterShape
<1>4. runners' \in [Member -> 0..1] /\ Running' = Running \cup {m}
  BY <1>1, <1>3 DEF Running, CalmInv, RosterShape
<1>5. Listed' = Listed /\ Active' = Active /\ (Attached' <=> Attached)
      /\ \A n, s : With(n, s)' = With(n, s)
  BY <1>1, SameRoster DEF Attached
<1>6. lead' = [op |-> "restored", name |-> m, saw |-> lead.saw, todo |-> lead.todo \ {m},
               closing |-> lead.closing]
  BY DEF RestoreLaunch, CalmInv, RosterShape
<1>7. RosterShape'
  BY <1>1, <1>4, <1>5, <1>6 DEF CalmInv, RosterShape, LeadOp
<1>8. RunInv'
  BY <1>1, <1>2, <1>3, <1>4, <1>5, <1>6 DEF CalmInv, RunInv, Away, Restoring
<1>9. SawInv'
  BY <1>1, <1>2, <1>3, <1>5, <1>6 DEF SawInv
<1>10. SavingInv'
  BY <1>1, <1>4, <1>5 DEF CalmInv, SavingInv
<1>11. HandlesInv'
  BY <1>1, <1>4, <1>5, <1>6 DEF CalmInv, HandlesInv
<1> QED BY <1>7, <1>8, <1>9, <1>10, <1>11 DEF CalmInv

LEMMA RestoreReadKeeps ==
  ASSUME CalmInv, RestoreRead
  PROVE  CalmInv'
<1> DEFINE m == lead.name
<1>1. UNCHANGED <<roster, runners, stopping, saving, team, registry, handles, gone>>
      /\ lead.op = "restored" /\ Attached
  BY DEF RestoreRead, LeadIs
<1>2. Listed' = Listed /\ Active' = Active /\ Running' = Running /\ (Attached' <=> Attached)
      /\ SavingInv' /\ \A n, s : With(n, s)' = With(n, s)
  BY <1>1, LeadMoves
<1>3. m \in Active \ lead.todo /\ m \in Listed
  BY <1>1 DEF CalmInv, SawInv, Active
<1>4. lead' = [op |-> "restoreSave", name |-> m, saw |-> With(m, "idle"), todo |-> lead.todo,
               closing |-> lead.closing]
  BY <1>3 DEF RestoreRead, CalmInv, RosterShape, Put
<1>5. RosterShape'
  BY <1>1, <1>2, <1>4 DEF CalmInv, RosterShape, LeadOp
<1>6. RunInv'
  BY <1>1, <1>2, <1>4 DEF CalmInv, RunInv, Away, Restoring
<1>7. SawInv'
  BY <1>1, <1>2, <1>3, <1>4 DEF SawInv
<1>8. HandlesInv'
  BY <1>1, <1>2, <1>4 DEF CalmInv, HandlesInv
<1> QED BY <1>2, <1>5, <1>6, <1>7, <1>8 DEF CalmInv

LEMMA RestoreSaveKeeps ==
  ASSUME CalmInv, RestoreSave, calm'
  PROVE  CalmInv'
<1> DEFINE m == lead.name
<1>1. UNCHANGED <<runners, stopping, saving, team, registry, gone>>
      /\ lead.op = "restoreSave" /\ Attached /\ ~ MembersSaving /\ handles' = handles \cup {m}
  BY DEF RestoreSave, LeadSaves, LeadIs
<1>2. m \in Active \ lead.todo /\ m \in Listed /\ m \in Member /\ roster' = With(m, "idle")
  BY <1>1 DEF CalmInv, SawInv, RosterShape, RestoreSave, LeadSaves, Active
<1>3. /\ Listed' = Listed /\ roster' \in [Listed' -> MemberStatus] /\ Active' = Active
      /\ Cardinality(Listed') <= MaxMembers
  BY <1>2, WriteFacts DEF CalmInv, MemberStatus, Over
<1>4. Running' = Running /\ (Attached' <=> Attached)
  BY <1>1, SameRunners DEF Attached
<1>5. lead' = [op |-> "resume", name |-> "", saw |-> <<>>, todo |-> lead.todo,
               closing |-> FALSE]
  BY DEF RestoreSave, IdleLead
<1>6. RosterShape'
  BY <1>1, <1>3, <1>5 DEF CalmInv, RosterShape, LeadOp
<1>7. RunInv'
  BY <1>1, <1>3, <1>4, <1>5 DEF CalmInv, RunInv, Away, Restoring
<1>8. SawInv'
  BY <1>1, <1>4, <1>5 DEF SawInv
<1>9. SavingInv'
  BY <1>1, NobodySaves
<1>10. HandlesInv'
  BY <1>1, <1>2, <1>3, <1>4, <1>5 DEF CalmInv, HandlesInv
<1> QED BY <1>6, <1>7, <1>8, <1>9, <1>10 DEF CalmInv

-----------------------------------------------------------------------------
(* The members' threads *)

LEMMA StatusReadKeeps ==
  ASSUME CalmInv, NEW m \in Member, NEW s \in {"working", "idle"}, StatusRead(m, s)
  PROVE  CalmInv'
<1>1. UNCHANGED <<roster, runners, stopping, lead, team, registry, handles, gone>>
      /\ Attached /\ m \in Running /\ saving' = [saving EXCEPT ![m] = <<Put(m, s)>>]
  BY DEF StatusRead, Running
<1>2. m \in Listed
  BY <1>1 DEF CalmInv, RunInv, Active
<1>3. Listed' = Listed /\ Active' = Active /\ Running' = Running /\ (Attached' <=> Attached)
      /\ \A n, st : With(n, st)' = With(n, st)
  BY <1>1, SameRoster, SameRunners DEF Attached
<1>4. saving' = [n \in Member |-> IF n = m THEN <<With(m, s)>> ELSE saving[n]]
  BY <1>1, <1>2 DEF Put, CalmInv, RosterShape
<1>5. RosterShape'
  BY <1>1, <1>3, <1>4 DEF CalmInv, RosterShape
<1>6. RunInv' /\ HandlesInv'
  BY <1>1, <1>3 DEF CalmInv, RunInv, Away, HandlesInv
<1>7. SawInv'
  BY <1>1, <1>3 DEF CalmInv, SawInv
<1>8. SavingInv'
  BY <1>1, <1>3, <1>4 DEF CalmInv, SavingInv
<1> QED BY <1>5, <1>6, <1>7, <1>8 DEF CalmInv

LEMMA StatusSaveKeeps ==
  ASSUME CalmInv, NEW m \in Member, StatusSave(m), calm'
  PROVE  CalmInv'
<1>1. UNCHANGED <<runners, stopping, lead, team, registry, handles, gone>>
      /\ Attached /\ saving[m] # <<>> /\ lead.saw = <<>>
      /\ roster' = saving[m][1] /\ saving' = [saving EXCEPT ![m] = <<>>]
      /\ \A n \in Member \ {m} : saving[n] = <<>>
  BY DEF StatusSave
<1>2. PICK s \in {"working", "idle"} : saving[m] = <<With(m, s)>>
  BY <1>1 DEF CalmInv, SavingInv
<1>3. m \in Active /\ m \in Listed /\ s \in MemberStatus /\ s \notin Over
  BY <1>1 DEF CalmInv, SavingInv, RunInv, Active, MemberStatus, Over
<1>4. roster' = With(m, s)
  BY <1>1, <1>2
<1>5. /\ Listed' = Listed /\ roster' \in [Listed' -> MemberStatus] /\ Active' = Active
      /\ Cardinality(Listed') <= MaxMembers
  BY <1>3, <1>4, WriteFacts DEF CalmInv
<1>6. Running' = Running /\ (Attached' <=> Attached)
  BY <1>1, SameRunners DEF Attached
<1>7. saving' = [n \in Member |-> <<>>]
  BY <1>1 DEF CalmInv, RosterShape
<1>8. RosterShape'
  BY <1>1, <1>5, <1>7 DEF CalmInv, RosterShape
<1>9. RunInv' /\ HandlesInv'
  BY <1>1, <1>5, <1>6 DEF CalmInv, RunInv, Away, HandlesInv
<1>a. ASSUME NEW n \in Member, NEW st \in MemberStatus
      PROVE  With(n, st) # <<>>
  BY WithFacts DEF CalmInv
<1>b. lead.op \in {"launch", "launched"} => lead.saw # <<>>
  BY DEF CalmInv, SawInv, Listed
<1>10. lead.op \in {"idle", "close", "resume", "stop", "restored"}
  <2>1. lead.op \in {"spawn", "stopSave", "restoreSave"} => lead.name \in Member
    BY DEF CalmInv, SawInv, RosterShape, Active
  <2> QED BY <1>1, <1>a, <1>b, <2>1 DEF CalmInv, SawInv, RosterShape, LeadOp, MemberStatus
<1>11. SawInv'
  BY <1>1, <1>5, <1>6, <1>10 DEF CalmInv, SawInv
<1>12. SavingInv'
  BY <1>7 DEF SavingInv
<1> QED BY <1>8, <1>9, <1>11, <1>12 DEF CalmInv

\* A thread ends: of a member that the lead is stopping, or of one that goes by itself.
LEMMA ThreadEndsKeeps ==
  ASSUME CalmInv, NEW m \in Member, ThreadEnds(m),
         saving' \in {saving, [saving EXCEPT ![m] = <<>>]}, saving'[m] = <<>>,
         \/ gone' = gone /\ m \in stopping
         \/ gone' = gone \cup {m}
  PROVE  CalmInv'
<1>1. UNCHANGED <<roster, lead, team, registry, handles>>
      /\ m \in Running /\ stopping' = stopping \ {m}
      /\ runners' = [runners EXCEPT ![m] = @ - 1]
  BY DEF ThreadEnds, Running
<1>2. m \in Active /\ Attached
  BY <1>1 DEF CalmInv, RunInv
<1>3. m \in stopping => lead.op = "stop" /\ lead.name = m /\ stopping = {m}
  BY DEF CalmInv, RunInv
<1>4. runners[m] = 1
  BY <1>1 DEF Running, CalmInv, RosterShape
<1>5. runners' \in [Member -> 0..1] /\ Running' = Running \ {m}
  BY <1>1, <1>4 DEF Running, CalmInv, RosterShape
<1>6. Listed' = Listed /\ Active' = Active /\ (Attached' <=> Attached)
      /\ \A n, s : With(n, s)' = With(n, s)
  BY <1>1, SameRoster DEF Attached
<1>a. saving' = [n \in Member |-> IF n = m THEN <<>> ELSE saving[n]]
  BY DEF CalmInv, RosterShape
<1>7. RosterShape'
  BY <1>1, <1>5, <1>6, <1>a DEF CalmInv, RosterShape
<1>8. RunInv'
  <2>1. Away' = Away \cup (IF m \in stopping THEN {m} ELSE {})
    BY <1>1, <1>3 DEF Away, Restoring
  <2>2. Running' = (Active' \ Away') \ gone'
    BY <1>2, <1>5, <1>6, <2>1 DEF CalmInv, RunInv
  <2> QED BY <1>1, <1>2, <1>5, <1>6, <2>2 DEF CalmInv, RunInv
<1>9. SawInv'
  BY <1>1, <1>6 DEF CalmInv, SawInv
<1>10. SavingInv'
  BY <1>5, <1>6, <1>a DEF CalmInv, SavingInv
<1>11. HandlesInv'
  BY <1>1, <1>5, <1>6 DEF CalmInv, HandlesInv
<1> QED BY <1>7, <1>8, <1>9, <1>10, <1>11 DEF CalmInv

LEMMA RunnerKeeps ==
  ASSUME CalmInv, NEW m \in Member, RunnerEnds(m) \/ RunnerReadsStop(m) \/ RunnerFails(m)
  PROVE  CalmInv'
<1>1. CASE RunnerEnds(m)
  BY <1>1, ThreadEndsKeeps DEF RunnerEnds
<1>2. CASE RunnerReadsStop(m)
  BY <1>2, ThreadEndsKeeps DEF RunnerReadsStop
<1>3. CASE RunnerFails(m)
  <2>1. saving'[m] = <<>>
    BY <1>3 DEF RunnerFails, CalmInv, RosterShape
  <2> QED BY <1>3, <2>1, ThreadEndsKeeps DEF RunnerFails
<1> QED BY <1>1, <1>2, <1>3

-----------------------------------------------------------------------------
LEMMA RosterInitInv == RosterInit => RosterInv
<1> SUFFICES ASSUME RosterInit PROVE CalmInv
  BY DEF RosterInv
<1>1. Listed = {} /\ Active = {} /\ Running = {}
  BY DEF RosterInit, Listed, Active, Running
<1>a. IsFiniteSet(Listed) /\ Cardinality(Listed) <= MaxMembers
  BY <1>1, FS_EmptySet, RosterAssumption
<1>b. runners \in [Member -> 0..1] /\ saving = [m \in Member |-> saving[m]]
  BY DEF RosterInit
<1>c. roster \in [Listed -> MemberStatus]
  BY <1>1 DEF RosterInit
<1>d. lead = [op |-> lead.op, name |-> lead.name, saw |-> lead.saw, todo |-> lead.todo,
              closing |-> lead.closing] /\ lead.op = "idle"
  BY DEF RosterInit, IdleLead
<1>2. RosterShape
  BY <1>1, <1>a, <1>b, <1>c, <1>d DEF RosterInit, RosterShape, LeadOp
<1> QED BY <1>1, <1>2 DEF RosterInit, CalmInv, RunInv, Restoring, SawInv, SavingInv, HandlesInv,
        IdleLead, Attached

LEMMA RosterNextInv == RosterInv /\ [RosterNext]_rosterVars => RosterInv'
<1> SUFFICES ASSUME RosterInv, [RosterNext]_rosterVars, calm' PROVE CalmInv'
  BY DEF RosterInv
<1>1. CASE UNCHANGED rosterVars
  <2>1. Listed' = Listed /\ Active' = Active /\ Running' = Running /\ (Attached' <=> Attached)
        /\ \A n, s : With(n, s)' = With(n, s)
    BY <1>1, SameRoster, SameRunners DEF rosterVars, Attached
  <2>2. CalmInv
    BY <1>1 DEF rosterVars, RosterInv
  <2> QED BY <1>1, <2>1, <2>2 DEF rosterVars, CalmInv, RosterShape, RunInv, Away, SawInv,
          SavingInv, HandlesInv
<1>2. CASE RosterNext
  <2>1. calm
    BY <1>2 DEF RosterNext, SpawnBegin, SpawnSave, Launch, LaunchFails, SpawnEnd, StopBegin,
       StopWaited, StopFails, StopSave, CloseBegin, CloseEnd, Delete, Die, Resume,
       RestoreLaunch, RestoreRead, RestoreSave, ResumeEnd, StatusRead, StatusSave,
       RunnerEnds, RunnerReadsStop, RunnerFails, ThreadEnds, LeadSaveFails, StopUnsent, LeadSaves
  <2>2. /\ CalmInv /\ ~ StopFails /\ ~ LeadSaveFails
        /\ \A m \in Member : ~ StopUnsent(m)
    BY <2>1 DEF RosterInv, StopFails, LeadSaveFails, StopUnsent
  <2> QED BY <1>2, <2>2, SpawnBeginKeeps, SpawnSaveKeeps, LaunchKeeps, SpawnEndsKeep,
          StopBeginKeeps, StopWaitedKeeps, StopSaveKeeps, CloseStepsKeep, DeleteKeeps, DieKeeps,
          ResumeKeeps, RestoreLaunchKeeps, RestoreReadKeeps, RestoreSaveKeeps, StatusReadKeeps,
          StatusSaveKeeps, RunnerKeeps DEF RosterNext
<1> QED BY <1>1, <1>2

THEOREM RosterInvariant == RosterSpec => []RosterInv
BY RosterInitInv, RosterNextInv, PTL DEF RosterSpec

\* As long as no two writers overlapped, no stop and no write of the lead failed
\* and no team was resumed over its running members, the roster says who runs, but
\* for the members that a store, an old stop message or a resume that failed took
\* away since they were started (TeamManager).
THEOREM CalmRosterIsRightTheorem == RosterSpec => []CalmRosterIsRight
<1>1. RosterInv => CalmRosterIsRight
  <2> SUFFICES ASSUME CalmInv
               PROVE  /\ \A m \in Member : runners[m] <= 1
                      /\ Attached => handles \subseteq Listed /\ Running \subseteq Listed
                      /\ Cardinality(Running) <= MaxMembers
                      /\ LeadIs("idle") => Running = Active \ gone
                      /\ team = "deleted" => Running = {}
    BY DEF RosterInv, CalmRosterIsRight
  <2>1. \A m \in Member : runners[m] <= 1
    BY DEF CalmInv, RosterShape
  <2>2. Active \subseteq Listed
    BY DEF Active
  <2>3. Running \subseteq Listed /\ (Attached => handles \subseteq Listed)
    BY <2>2 DEF CalmInv, RunInv, HandlesInv, Attached
  <2>4. Cardinality(Running) <= Cardinality(Listed) /\ Cardinality(Running) \in Nat
        /\ Cardinality(Listed) \in Nat /\ Cardinality(Listed) <= MaxMembers
    BY <2>3, FS_Subset, FS_CardinalityType DEF CalmInv, RosterShape
  <2>5. Cardinality(Running) <= MaxMembers
    BY <2>4, RosterAssumption
  <2>6. LeadIs("idle") => Running = Active \ gone
    BY DEF LeadIs, CalmInv, RunInv, Away, Restoring
  <2>7. team = "deleted" => Running = {}
    BY DEF CalmInv, RunInv, Attached
  <2> QED BY <2>1, <2>3, <2>5, <2>6, <2>7
<1> QED BY <1>1, RosterInvariant, PTL

=============================================================================
