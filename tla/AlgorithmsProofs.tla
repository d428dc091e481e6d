-------------------------- MODULE AlgorithmsProofs --------------------------
(***************************************************************************)
(* What the operators of the models compute, for every input: the recovery *)
(* of an archive, the history a child run is given, what a subagent and an *)
(* agent of a team may run, what an answer leaves in a file of rules; and, *)
(* from that, the properties of MCAlgorithms.                              *)
(***************************************************************************)
EXTENDS MCAlgorithms, SequenceTheorems, WellFoundedInduction, TLAPS

-----------------------------------------------------------------------------
(* Induction along a sequence, forwards and backwards *)

LEMMA LeastNatural ==
  ASSUME NEW T \in SUBSET Nat, T # {}
  PROVE  \E x \in T : \A y \in T : x <= y
<1> DEFINE R == {p \in Nat \X Nat : p[1] < p[2]}
<1>1. IsWellFoundedOn(R, Nat)
  <2>1. OpToRel(<, Nat) = R
    BY DEF OpToRel
  <2> QED BY <2>1, NatLessThanWellFounded
<1>2. PICK x \in T : \A y \in T : <<y, x>> \notin R
  <2> HIDE DEF R
  <2> QED BY <1>1, WFMin
<1>3. \A y \in T : x <= y
  <2> SUFFICES ASSUME NEW y \in T PROVE x <= y
    OBVIOUS
  <2>1. x \in Nat /\ y \in Nat
    OBVIOUS
  <2>2. ~ (y < x)
    BY <1>2, <2>1
  <2> QED BY <2>1, <2>2
<1> QED BY <1>3

LEMMA Forwards ==
  ASSUME NEW n \in Nat, NEW Good,
         0 \in Good, \A k \in 0 .. n - 1 : k \in Good => k + 1 \in Good
  PROVE  0 .. n \subseteq Good
<1> SUFFICES ASSUME (0 .. n) \ Good # {} PROVE FALSE
  OBVIOUS
<1>1. PICK x \in (0 .. n) \ Good : \A y \in (0 .. n) \ Good : x <= y
  <2>1. (0 .. n) \ Good \in SUBSET Nat
    OBVIOUS
  <2> QED BY <2>1, LeastNatural
<1>2. x # 0
  OBVIOUS
<1>3. x - 1 \in 0 .. n - 1 /\ x = (x - 1) + 1 /\ ~ (x <= x - 1) /\ x - 1 \in 0 .. n
  BY <1>2
<1>4. x - 1 \in Good
  BY <1>1, <1>3
<1>5. (x - 1) + 1 \in Good
  BY <1>3, <1>4
<1> QED BY <1>3, <1>5

LEMMA Backwards ==
  ASSUME NEW n \in Nat, NEW Good,
         \A k \in 1 .. n : k + 1 .. n \subseteq Good => k \in Good
  PROVE  1 .. n \subseteq Good
<1> SUFFICES ASSUME (1 .. n) \ Good # {} PROVE FALSE
  OBVIOUS
<1> DEFINE Left == {n - k : k \in (1 .. n) \ Good}
<1>1. Left \in SUBSET Nat /\ Left # {}
  OBVIOUS
<1>2. PICK x \in Left : \A y \in Left : x <= y
  <2> HIDE DEF Left
  <2> QED BY <1>1, LeastNatural
<1>3. PICK k \in (1 .. n) \ Good : x = n - k
  BY <1>2
<1>4. k + 1 .. n \subseteq Good
  <2> SUFFICES ASSUME NEW j \in k + 1 .. n, j \notin Good PROVE FALSE
    OBVIOUS
  <2>1. j \in 1 .. n /\ ~ (n - k <= n - j)
    OBVIOUS
  <2>2. n - j \in Left
    BY <2>1
  <2> QED BY <1>2, <1>3, <2>1, <2>2
<1> QED BY <1>4

-----------------------------------------------------------------------------
(* The elements of a sequence that lie in a set *)

\* The sequence among[0], among[1], ... that defines Those.
Among(seq, set, among) ==
  \A i \in 0 .. Len(seq) :
    among[i] = IF i = 0 THEN <<>>
               ELSE IF seq[i] \in set THEN Append(among[i - 1], seq[i])
               ELSE among[i - 1]

(* The definition of Those is well-founded. *)
LEMMA ThoseIsDefined ==
  ASSUME NEW T, NEW seq \in Seq(T), NEW set
  PROVE  \E among \in [0 .. Len(seq) -> Seq(T \cap set)] :
           Among(seq, set, among) /\ Those(seq, set) = among[Len(seq)]
<1> DEFINE n == Len(seq)
           Next1(f, i) == IF i = 0 THEN <<>>
                          ELSE IF seq[i] \in set THEN Append(f[i - 1], seq[i])
                          ELSE f[i - 1]
           UpTo(f, k) == /\ f \in [0 .. k -> Seq(T \cap set)]
                         /\ \A i \in 0 .. k : f[i] = Next1(f, i)
           Good == {k \in 0 .. n : \E f : UpTo(f, k)}
           all == CHOOSE f : f = [i \in 0 .. n |-> Next1(f, i)]
<1>0. n \in Nat
  OBVIOUS
<1>1. 0 \in Good
  <2>1. UpTo([i \in 0 .. 0 |-> <<>>], 0)
    OBVIOUS
  <2>2. 0 \in 0 .. n
    BY <1>0
  <2> HIDE DEF UpTo, n
  <2> QED BY <2>1, <2>2
<1>2. ASSUME NEW k \in 0 .. n - 1, k \in Good PROVE k + 1 \in Good
  <2>1. PICK f : UpTo(f, k)
    BY <1>2
  <2>2. k \in Nat /\ k + 1 \in 0 .. n /\ k + 1 \in 1 .. n /\ k \in 0 .. k
        /\ k + 1 # 0 /\ (k + 1) - 1 = k /\ 0 .. k + 1 = (0 .. k) \cup {k + 1}
        /\ k + 1 \notin 0 .. k
    BY <1>0
  <2>3. seq[k + 1] \in T /\ f[k] \in Seq(T \cap set)
    BY <2>1, <2>2
  <2> DEFINE last == IF seq[k + 1] \in set THEN Append(f[k], seq[k + 1]) ELSE f[k]
             g == [i \in 0 .. k + 1 |-> IF i = k + 1 THEN last ELSE f[i]]
  <2>4. last \in Seq(T \cap set)
    BY <2>3
  <2>5. g \in [0 .. k + 1 -> Seq(T \cap set)]
    <3> HIDE DEF last
    <3> QED BY <2>1, <2>2, <2>4
  <2>6. \A i \in 0 .. k : g[i] = f[i]
    BY <2>2
  <2>7. ASSUME NEW i \in 0 .. k + 1 PROVE g[i] = Next1(g, i)
    <3>1. CASE i = k + 1
      <4>1. g[i] = last
        BY <3>1, <2>2
      <4>2. Next1(g, i) = IF seq[k + 1] \in set THEN Append(g[k], seq[k + 1]) ELSE g[k]
        BY <3>1, <2>2
      <4> QED BY <4>1, <4>2, <2>6, <2>2
    <3>2. CASE i \in 0 .. k
      <4>1. i = 0 \/ i - 1 \in 0 .. k
        BY <3>2, <2>2
      <4>2. Next1(g, i) = Next1(f, i)
        BY <4>1, <2>6
      <4> QED BY <4>2, <2>6, <2>1, <3>2
    <3> QED BY <3>1, <3>2, <2>2
  <2>8. UpTo(g, k + 1)
    BY <2>5, <2>7
  <2> QED BY <2>8, <2>2
<1>3. n \in Good
  <2> HIDE DEF Good
  <2> 0 .. n \subseteq Good
    BY <1>0, <1>1, <1>2, Forwards
  <2> QED BY <1>0
<1>4. PICK f : UpTo(f, n)
  BY <1>3
<1>5. f = [i \in 0 .. n |-> Next1(f, i)]
  BY <1>4
<1>6. all = [i \in 0 .. n |-> Next1(all, i)]
  <2> HIDE DEF Next1
  <2> QED BY <1>5
<1>7. \A i \in 0 .. n : all[i] = Next1(all, i)
  <2> HIDE DEF all, Next1
  <2> QED BY <1>6
<1>8. \A i \in 0 .. n : all[i] = f[i]
  <2> HIDE DEF all
  <2> DEFINE Same == {i \in 0 .. n : all[i] = f[i]}
  <2>1. 0 \in Same
    BY <1>0, <1>4, <1>7
  <2>2. ASSUME NEW k \in 0 .. n - 1, k \in Same PROVE k + 1 \in Same
    <3>1. k + 1 \in 0 .. n /\ k + 1 # 0 /\ (k + 1) - 1 = k
      BY <1>0
    <3>2. all[k] = f[k]
      BY <2>2
    <3>3. Next1(all, k + 1) = Next1(f, k + 1)
      BY <3>1, <3>2
    <3>4. all[k + 1] = f[k + 1]
      BY <1>4, <1>7, <3>1, <3>3
    <3> QED BY <3>1, <3>4
  <2> HIDE DEF Same
  <2>3. 0 .. n \subseteq Same
    BY <1>0, <2>1, <2>2, Forwards
  <2> QED BY <2>3 DEF Same
<1>9. Those(seq, set) = all[n]
  BY DEF Those
<1>10. all[n] = f[n]
  <2> HIDE DEF all
  <2> QED BY <1>0, <1>8
<1>11. Among(seq, set, f)
  BY <1>4 DEF Among
<1> HIDE DEF all
<1> QED BY <1>4, <1>9, <1>10, <1>11

LEMMA AppendAdds ==
  ASSUME NEW T, NEW seq \in Seq(T), NEW e \in T
  PROVE  ToSet(Append(seq, e)) = ToSet(seq) \cup {e} /\ Len(Append(seq, e)) = Len(seq) + 1
<1>1. Append(seq, e) \in Seq(T) /\ Len(Append(seq, e)) = Len(seq) + 1
      /\ DOMAIN seq = 1 .. Len(seq) /\ DOMAIN Append(seq, e) = 1 .. Len(seq) + 1
      /\ Len(seq) \in Nat
  OBVIOUS
<1>2. 1 .. Len(seq) + 1 = (1 .. Len(seq)) \cup {Len(seq) + 1}
  BY <1>1
<1>3. Append(seq, e)[Len(seq) + 1] = e /\ \A i \in 1 .. Len(seq) : Append(seq, e)[i] = seq[i]
  OBVIOUS
<1> QED BY <1>1, <1>2, <1>3 DEF ToSet

LEMMA ThoseType ==
  ASSUME NEW T, NEW seq \in Seq(T), NEW set
  PROVE  Those(seq, set) \in Seq(T \cap set)
BY ThoseIsDefined

LEMMA ThoseEmpty ==
  ASSUME NEW set
  PROVE  Those(<<>>, set) = <<>>
<1>1. <<>> \in Seq({}) /\ Len(<<>>) = 0 /\ 0 \in 0 .. 0
  BY EmptySeq
<1>2. PICK f : Among(<<>>, set, f) /\ Those(<<>>, set) = f[0]
  BY <1>1, ThoseIsDefined
<1> QED BY <1>1, <1>2 DEF Among

(* The start of a sequence gives the start of its elements. *)
LEMMA AmongAgree ==
  ASSUME NEW T, NEW s \in Seq(T), NEW t \in Seq(T), NEW set, NEW n \in 0 .. Len(s),
         n <= Len(t), \A i \in 1 .. n : s[i] = t[i],
         NEW f, Among(s, set, f), NEW g, Among(t, set, g)
  PROVE  f[n] = g[n]
<1> DEFINE Same == {i \in 0 .. n : f[i] = g[i]}
<1>0. n \in Nat /\ 0 .. n \subseteq 0 .. Len(s) /\ 0 .. n \subseteq 0 .. Len(t) /\ 0 \in 0 .. n
  OBVIOUS
<1>1. 0 \in Same
  BY <1>0 DEF Among
<1>2. ASSUME NEW k \in 0 .. n - 1, k \in Same PROVE k + 1 \in Same
  <2>1. k + 1 \in 0 .. n /\ k + 1 \in 1 .. n /\ k + 1 # 0 /\ (k + 1) - 1 = k
    BY <1>0
  <2>2. f[k] = g[k] /\ s[k + 1] = t[k + 1]
    BY <1>2, <2>1
  <2>3. f[k + 1] = IF s[k + 1] \in set THEN Append(f[k], s[k + 1]) ELSE f[k]
    BY <1>0, <2>1 DEF Among
  <2>4. g[k + 1] = IF t[k + 1] \in set THEN Append(g[k], t[k + 1]) ELSE g[k]
    BY <1>0, <2>1 DEF Among
  <2> QED BY <2>1, <2>2, <2>3, <2>4
<1> HIDE DEF Same
<1>3. 0 .. n \subseteq Same
  BY <1>0, <1>1, <1>2, Forwards
<1> QED BY <1>0, <1>3 DEF Same

LEMMA ThoseAppend ==
  ASSUME NEW T, NEW s \in Seq(T), NEW e \in T, NEW set
  PROVE  Those(Append(s, e), set) =
           IF e \in set THEN Append(Those(s, set), e) ELSE Those(s, set)
<1> DEFINE t == Append(s, e)
           n == Len(s)
<1>1. t \in Seq(T) /\ Len(t) = n + 1 /\ n \in Nat /\ t[n + 1] = e /\ \A i \in 1 .. n : s[i] = t[i]
  OBVIOUS
<1>2. PICK f : Among(s, set, f) /\ Those(s, set) = f[n]
  BY ThoseIsDefined
<1>3. PICK g : Among(t, set, g) /\ Those(t, set) = g[n + 1]
  <2> HIDE DEF t, n
  <2>1. \E g \in [0 .. Len(t) -> Seq(T \cap set)] :
          Among(t, set, g) /\ Those(t, set) = g[Len(t)]
    BY <1>1, ThoseIsDefined
  <2> QED BY <1>1, <2>1
<1>4. n \in 0 .. Len(s) /\ n <= Len(t) /\ n + 1 \in 0 .. Len(t) /\ n + 1 # 0 /\ (n + 1) - 1 = n
  BY <1>1
<1>5. f[n] = g[n]
  <2> HIDE DEF n, t
  <2> QED BY <1>1, <1>2, <1>3, <1>4, AmongAgree
<1>6. g[n + 1] = IF t[n + 1] \in set THEN Append(g[n], t[n + 1]) ELSE g[n]
  <2> HIDE DEF n, t
  <2> QED BY <1>3, <1>4 DEF Among
<1> HIDE DEF n
<1> QED BY <1>1, <1>2, <1>3, <1>5, <1>6

LEMMA ThosePrefix ==
  ASSUME NEW T, NEW s \in Seq(T), NEW t \in Seq(T), NEW set, IsPrefix(s, t)
  PROVE  IsPrefix(Those(s, set), Those(t, set))
<1> DEFINE n == Len(s)
           m == Len(t) - n
           S == Seq(T \cap set)
<1>1. n \in Nat /\ m \in Nat /\ n <= Len(t) /\ Len(t) = n + m
  BY DEF IsPrefix
<1>2. \A i \in 1 .. n : s[i] = t[i]
  BY DEF IsPrefix
<1>3. PICK f \in [0 .. n -> S] : Among(s, set, f) /\ Those(s, set) = f[n]
  BY ThoseIsDefined
<1>4. PICK g \in [0 .. Len(t) -> S] : Among(t, set, g) /\ Those(t, set) = g[Len(t)]
  BY ThoseIsDefined
<1>5. f[n] = g[n]
  <2>1. n \in 0 .. Len(s)
    BY <1>1
  <2> HIDE DEF n, m, S
  <2> QED BY <1>1, <1>2, <1>3, <1>4, <2>1, AmongAgree
<1> DEFINE Good == {k \in 0 .. m : IsPrefix(g[n], g[n + k])}
<1>6. 0 \in Good
  <2>1. n + 0 = n /\ 0 \in 0 .. m /\ n \in 0 .. Len(t)
    BY <1>1
  <2>2. g[n] \in S
    BY <1>4, <2>1
  <2> QED BY <2>1, <2>2 DEF IsPrefix
<1>7. ASSUME NEW k \in 0 .. m - 1, k \in Good PROVE k + 1 \in Good
  <2>1. /\ n + k \in 0 .. Len(t) /\ n + (k + 1) \in 0 .. Len(t) /\ n \in 0 .. Len(t)
        /\ n + (k + 1) # 0 /\ (n + (k + 1)) - 1 = n + k /\ k + 1 \in 0 .. m
        /\ n + (k + 1) \in 1 .. Len(t)
    BY <1>1
  <2> DEFINE e == t[n + (k + 1)]
  <2>2. g[n + (k + 1)] = IF e \in set THEN Append(g[n + k], e) ELSE g[n + k]
    BY <1>4, <2>1 DEF Among
  <2>3. g[n] \in S /\ g[n + k] \in S /\ e \in T
    <3>1. e \in T
      <4> HIDE DEF n
      <4> QED BY <2>1, ElementOfSeq
    <3>2. g[n] \in S /\ g[n + k] \in S
      <4> HIDE DEF n, S
      <4> QED BY <1>4, <2>1
    <3> QED BY <3>1, <3>2
  <2>4. IsPrefix(g[n], g[n + k])
    BY <1>7
  <2>5. ASSUME e \in set PROVE IsPrefix(g[n], Append(g[n + k], e))
    <3>1. e \in T \cap set
      BY <2>3, <2>5
    <3> HIDE DEF e, n, m
    <3> QED BY <2>3, <2>4, <3>1 DEF IsPrefix
  <2>6. IsPrefix(g[n], g[n + (k + 1)])
    <3> HIDE DEF e
    <3> QED BY <2>2, <2>4, <2>5
  <2> QED BY <2>1, <2>6
<1>8. m \in Good
  <2> HIDE DEF Good, m
  <2>1. 0 .. m \subseteq Good
    BY <1>1, <1>6, <1>7, Forwards
  <2> QED BY <1>1, <2>1
<1>9. IsPrefix(g[n], g[n + m])
  BY <1>8
<1> HIDE DEF n, m
<1> QED BY <1>1, <1>3, <1>4, <1>5, <1>9

(* What lies in a set and what lies in the rest together are all there is. *)
LEMMA ThoseSplit ==
  ASSUME NEW T, NEW s \in Seq(T), NEW A
  PROVE  /\ Len(Those(s, T \ A)) + Len(Those(s, A)) = Len(s)
         /\ ToSet(Those(s, T \ A)) \cup ToSet(Those(s, A)) = ToSet(s)
<1> DEFINE n == Len(s)
<1>0. n \in Nat
  OBVIOUS
<1>1. PICK f \in [0 .. n -> Seq(T \cap A)] : Among(s, A, f) /\ Those(s, A) = f[n]
  BY ThoseIsDefined
<1>2. PICK g \in [0 .. n -> Seq(T \cap (T \ A))] :
        Among(s, T \ A, g) /\ Those(s, T \ A) = g[n]
  BY ThoseIsDefined
<1> DEFINE Good == {k \in 0 .. n : /\ Len(g[k]) + Len(f[k]) = k
                                   /\ ToSet(g[k]) \cup ToSet(f[k]) = {s[j] : j \in 1 .. k}}
<1>3. 0 \in Good
  <2>1. 0 \in 0 .. n /\ g[0] = <<>> /\ f[0] = <<>>
    BY <1>0, <1>1, <1>2 DEF Among
  <2>2. 1 .. 0 = {}
    OBVIOUS
  <2> QED BY <2>1, <2>2 DEF ToSet
<1>4. ASSUME NEW k \in 0 .. n - 1, k \in Good PROVE k + 1 \in Good
  <2>1. /\ k \in 0 .. n /\ k + 1 \in 0 .. n /\ k + 1 # 0 /\ (k + 1) - 1 = k
        /\ k + 1 \in 1 .. n /\ 1 .. k + 1 = (1 .. k) \cup {k + 1}
    BY <1>0
  <2>2. s[k + 1] \in T /\ f[k] \in Seq(T \cap A) /\ g[k] \in Seq(T \cap (T \ A))
    BY <1>1, <1>2, <2>1
  <2>3. f[k + 1] = IF s[k + 1] \in A THEN Append(f[k], s[k + 1]) ELSE f[k]
    BY <1>1, <2>1 DEF Among
  <2>4. g[k + 1] = IF s[k + 1] \in T \ A THEN Append(g[k], s[k + 1]) ELSE g[k]
    BY <1>2, <2>1 DEF Among
  <2>5. Len(g[k]) + Len(f[k]) = k /\ ToSet(g[k]) \cup ToSet(f[k]) = {s[j] : j \in 1 .. k}
    BY <1>4
  <2>6. {s[j] : j \in 1 .. k + 1} = {s[j] : j \in 1 .. k} \cup {s[k + 1]}
    BY <2>1
  <2>7. CASE s[k + 1] \in A
    <3>1. g[k + 1] = g[k] /\ f[k + 1] = Append(f[k], s[k + 1])
      BY <2>3, <2>4, <2>7
    <3>2. ToSet(f[k + 1]) = ToSet(f[k]) \cup {s[k + 1]} /\ Len(f[k + 1]) = Len(f[k]) + 1
      <4>1. s[k + 1] \in T \cap A
        BY <2>2, <2>7
      <4> HIDE DEF n
      <4> QED BY <2>2, <3>1, <4>1, AppendAdds
    <3>3. Len(f[k]) \in Nat /\ Len(g[k]) \in Nat
      BY <2>2
    <3>4. Len(g[k + 1]) + Len(f[k + 1]) = k + 1
      BY <2>5, <3>1, <3>2, <3>3
    <3>5. ToSet(g[k + 1]) \cup ToSet(f[k + 1]) = {s[j] : j \in 1 .. k + 1}
      BY <2>5, <2>6, <3>1, <3>2
    <3> QED BY <2>1, <3>4, <3>5
  <2>8. CASE s[k + 1] \notin A
    <3>1. f[k + 1] = f[k] /\ g[k + 1] = Append(g[k], s[k + 1])
      BY <2>2, <2>3, <2>4, <2>8
    <3>2. ToSet(g[k + 1]) = ToSet(g[k]) \cup {s[k + 1]} /\ Len(g[k + 1]) = Len(g[k]) + 1
      <4> DEFINE U == T \cap (T \ A)
                 e == s[k + 1]
      <4>1. e \in U /\ g[k] \in Seq(U) /\ g[k + 1] = Append(g[k], e)
        BY <2>2, <2>8, <3>1
      <4> HIDE DEF U, e
      <4>2. ToSet(g[k + 1]) = ToSet(g[k]) \cup {e} /\ Len(g[k + 1]) = Len(g[k]) + 1
        BY <4>1, AppendAdds
      <4> QED BY <4>2 DEF e
    <3>3. Len(f[k]) \in Nat /\ Len(g[k]) \in Nat
      BY <2>2
    <3>4. Len(g[k + 1]) + Len(f[k + 1]) = k + 1
      BY <2>5, <3>1, <3>2, <3>3
    <3>5. ToSet(g[k + 1]) \cup ToSet(f[k + 1]) = {s[j] : j \in 1 .. k + 1}
      BY <2>5, <2>6, <3>1, <3>2
    <3> QED BY <2>1, <3>4, <3>5
  <2> QED BY <2>7, <2>8
<1>5. n \in Good
  <2> HIDE DEF Good, n
  <2>1. 0 .. n \subseteq Good
    BY <1>0, <1>3, <1>4, Forwards
  <2> QED BY <1>0, <2>1
<1>6. ToSet(s) = {s[j] : j \in 1 .. n}
  BY DEF ToSet
<1>7. Len(g[n]) + Len(f[n]) = n /\ ToSet(g[n]) \cup ToSet(f[n]) = {s[j] : j \in 1 .. n}
  <2> HIDE DEF n
  <2> QED BY <1>5
<1> HIDE DEF n, Good
<1>8. n = Len(s)
  BY DEF n
<1> QED BY <1>1, <1>2, <1>6, <1>7, <1>8

-----------------------------------------------------------------------------
(* What the scan of a recovery returns *)

\* The first e messages are whole groups, and none follows them.
SafeAt(m, e) ==
  /\ e \in 0 .. Len(m)
  /\ \A j \in 1 .. e : /\ Answered(m, j) /\ j + Len(m[j].calls) <= e
                       /\ m[j].role = "tool" => \E h \in 1 .. j - 1 : j \in Group(m, h)
  /\ e < Len(m) => m[e + 1].role = "tool" \/ ~ Answered(m, e + 1)

\* The same for what the scan finds from message i on.
SafeFrom(m, i, e) ==
  /\ e \in i - 1 .. Len(m)
  /\ \A j \in i .. e : /\ Answered(m, j) /\ j + Len(m[j].calls) <= e
                       /\ m[j].role = "tool" => \E h \in i .. j - 1 : j \in Group(m, h)
  /\ e < Len(m) => m[e + 1].role = "tool" \/ ~ Answered(m, e + 1)

LEMMA MessageFields ==
  ASSUME NEW m \in Seq(Message), NEW i \in 1 .. Len(m)
  PROVE  /\ m[i] \in Message /\ m[i].calls \in Seq(Call) /\ Len(m[i].calls) \in Nat
         /\ DOMAIN m[i].calls = 1 .. Len(m[i].calls)
<1>1. m[i] \in Message
  BY ElementOfSeq
<1>2. m[i].calls \in Seq(Call)
  BY <1>1 DEF Message
<1> QED BY <1>1, <1>2

LEMMA AnsweredFits ==
  ASSUME NEW m \in Seq(Message), NEW i \in 1 .. Len(m), Answered(m, i)
  PROVE  i + Len(m[i].calls) <= Len(m)
<1> DEFINE l == Len(m[i].calls)
<1>1. l \in Nat /\ DOMAIN m[i].calls = 1 .. l
  BY MessageFields
<1>2. CASE l = 0
  BY <1>2
<1>3. CASE l # 0
  <2>1. l \in 1 .. l
    BY <1>1, <1>3
  <2> QED BY <1>1, <2>1 DEF Answered
<1> QED BY <1>2, <1>3

\* One message and its group in front of what the scan finds behind them.
LEMMA SafeGroup ==
  ASSUME NEW m \in Seq(Message), NEW i \in 1 .. Len(m), NEW e,
         m[i].role # "tool", Answered(m, i),
         SafeFrom(m, i + 1 + Len(m[i].calls), e)
  PROVE  SafeFrom(m, i, e)
<1> DEFINE l == Len(m[i].calls)
           k == i + 1 + l
           n == Len(m)
<1>1. l \in Nat /\ DOMAIN m[i].calls = 1 .. l /\ n \in Nat /\ i \in Nat
  BY MessageFields
<1>2. i + l <= n
  BY AnsweredFits
<1>3. e \in k - 1 .. n
  BY DEF SafeFrom
<1>k. k \in Nat /\ i + l = k - 1 /\ i < k /\ e \in Nat
  <2> HIDE DEF l, n
  <2> QED BY <1>1, <1>3
<1>4. e \in i - 1 .. n
  <2> HIDE DEF k, l, n
  <2> QED BY <1>1, <1>3, <1>k
<1>5. ASSUME NEW j \in i .. e
      PROVE  /\ Answered(m, j) /\ j + Len(m[j].calls) <= e
             /\ m[j].role = "tool" => \E h \in i .. j - 1 : j \in Group(m, h)
  <2>1. CASE j = i
    BY <1>1, <1>3, <2>1
  <2>2. CASE j \in i + 1 .. i + l
    <3>1. j - i \in 1 .. l /\ i + (j - i) = j /\ i \in i .. j - 1 /\ j <= e
      <4> HIDE DEF k, l, n
      <4>1. j - i \in 1 .. l /\ i + (j - i) = j /\ i \in i .. j - 1
        BY <1>1, <2>2
      <4>2. j <= e
        BY <1>1, <1>k, <1>3, <2>2
      <4> QED BY <4>1, <4>2
    <3>2. m[j] = Result(m[i].calls[j - i])
      <4> HIDE DEF l
      <4>1. m[i + (j - i)] = Result(m[i].calls[j - i])
        BY <1>1, <3>1 DEF Answered
      <4> QED BY <3>1, <4>1
    <3>3. m[j].calls = <<>>
      BY <3>2 DEF Result
    <3>4. DOMAIN m[j].calls = {} /\ Len(m[j].calls) = 0
      BY <3>3, EmptySeq
    <3>5. Answered(m, j)
      BY <3>4 DEF Answered
    <3>6. j \in Group(m, i)
      BY <2>2 DEF Group
    <3> QED BY <3>1, <3>4, <3>5, <3>6
  <2>3. CASE j \in k .. e
    <3>1. /\ Answered(m, j) /\ j + Len(m[j].calls) <= e
          /\ m[j].role = "tool" => \E h \in k .. j - 1 : j \in Group(m, h)
      BY <2>3 DEF SafeFrom
    <3>2. k .. j - 1 \subseteq i .. j - 1
      <4> HIDE DEF k, l, n
      <4> QED BY <1>1, <1>k
    <3> HIDE DEF k
    <3> QED BY <3>1, <3>2
  <2>4. j = i \/ j \in i + 1 .. i + l \/ j \in k .. e
    <3> HIDE DEF k, l, n
    <3> QED BY <1>1, <1>k
  <2> QED BY <2>1, <2>2, <2>3, <2>4
<1>6. e < Len(m) => m[e + 1].role = "tool" \/ ~ Answered(m, e + 1)
  BY DEF SafeFrom
<1> QED BY <1>4, <1>5, <1>6 DEF SafeFrom

(* The scan is well-founded, and it returns the safe part. *)
LEMMA SafeMessagesIsSafe ==
  ASSUME NEW m \in Seq(Message)
  PROVE  \E e : SafeAt(m, e) /\ SafeMessages(m) = SubSeq(m, 1, e)
<1> DEFINE n == Len(m)
           Ends(i) == i > n \/ m[i].role = "tool" \/ ~ Answered(m, i)
           Behind(i) == i + 1 + Len(m[i].calls)
           Stop1(f, i) == IF Ends(i) THEN i - 1 ELSE f[Behind(i)]
           From(f, k) == /\ f = [i \in k .. n + 1 |-> f[i]]
                         /\ \A i \in k .. n + 1 : f[i] = Stop1(f, i)
           Good == {k \in 1 .. n + 1 : \E f : From(f, k)}
           stop == CHOOSE f : f = [i \in 1 .. n + 1 |-> Stop1(f, i)]
<1>0. n \in Nat /\ n + 1 \in Nat
  OBVIOUS
<1>1. ASSUME NEW i \in 1 .. n + 1, ~ Ends(i)
      PROVE  i \in 1 .. n /\ Behind(i) \in i + 1 .. n + 1
  <2>1. i \in 1 .. n
    BY <1>0, <1>1
  <2>2. Len(m[i].calls) \in Nat /\ i + Len(m[i].calls) <= n
    BY <2>1, <1>1, MessageFields, AnsweredFits
  <2> DEFINE l == Len(m[i].calls)
  <2>3. Behind(i) = i + 1 + l
    OBVIOUS
  <2> HIDE DEF Behind, l, n
  <2>4. l \in Nat /\ i + l <= n
    BY <2>2 DEF l, n
  <2> QED BY <1>0, <2>1, <2>3, <2>4
<1>2. ASSUME NEW k \in 1 .. n + 1, k + 1 .. n + 1 \subseteq Good PROVE k \in Good
  <2>1. \E f : f = [i \in k + 1 .. n + 1 |-> f[i]] /\ \A i \in k + 1 .. n + 1 : f[i] = Stop1(f, i)
    <3>1. CASE k = n + 1
      <4>1. k + 1 .. n + 1 = {}
        BY <1>0, <3>1
      <4> DEFINE none == [i \in {} |-> i]
      <4>2. none = [i \in {} |-> none[i]]
        OBVIOUS
      <4> HIDE DEF none
      <4> QED BY <4>1, <4>2
    <3>2. CASE k # n + 1
      <4>1. k + 1 \in k + 1 .. n + 1
        BY <1>0, <3>2
      <4> QED BY <1>2, <4>1
    <3> QED BY <3>1, <3>2
  <2>2. PICK f : f = [i \in k + 1 .. n + 1 |-> f[i]] /\ \A i \in k + 1 .. n + 1 : f[i] = Stop1(f, i)
    BY <2>1
  <2> DEFINE first == Stop1(f, k)
             g == [i \in k .. n + 1 |-> IF i = k THEN first ELSE f[i]]
  <2>3. k \in Nat /\ k \notin k + 1 .. n + 1 /\ k .. n + 1 = {k} \cup (k + 1 .. n + 1)
    BY <1>0
  <2>4. \A i \in k + 1 .. n + 1 : g[i] = f[i]
    <3> HIDE DEF first
    <3> QED BY <2>3
  <2>5. ASSUME NEW i \in k .. n + 1 PROVE Stop1(g, i) = Stop1(f, i)
    <3>1. CASE Ends(i)
      BY <3>1
    <3>2. CASE ~ Ends(i)
      <4>1. i \in 1 .. n + 1
        BY <1>0
      <4>2. Behind(i) \in i + 1 .. n + 1
        BY <1>1, <3>2, <4>1
      <4>3. i + 1 .. n + 1 \subseteq k + 1 .. n + 1
        BY <1>0, <4>1
      <4>4. g[Behind(i)] = f[Behind(i)]
        <5> HIDE DEF g, Behind
        <5> QED BY <2>4, <4>2, <4>3
      <4> HIDE DEF g, Behind, Ends
      <4> QED BY <3>2, <4>4
    <3> QED BY <3>1, <3>2
  <2>6. ASSUME NEW i \in k .. n + 1 PROVE g[i] = Stop1(g, i)
    <3>1. CASE i = k
      <4> HIDE DEF Stop1
      <4> QED BY <3>1, <2>5
    <3>2. CASE i \in k + 1 .. n + 1
      <4> HIDE DEF Stop1, g
      <4> QED BY <3>2, <2>2, <2>4, <2>5
    <3> QED BY <3>1, <3>2, <2>3
  <2>7. From(g, k)
    <3> HIDE DEF Stop1, first
    <3>1. g = [i \in k .. n + 1 |-> g[i]]
      OBVIOUS
    <3> HIDE DEF g
    <3> QED BY <2>6, <3>1
  <2> HIDE DEF From
  <2> QED BY <2>7
<1>3. 1 \in Good
  <2> HIDE DEF Good
  <2>1. 1 .. n + 1 \subseteq Good
    BY <1>0, <1>2, Backwards
  <2> QED BY <1>0, <2>1
<1>4. \E f : f = [i \in 1 .. n + 1 |-> Stop1(f, i)]
  <2>1. PICK f : From(f, 1)
    <3> HIDE DEF From
    <3> QED BY <1>3
  <2>2. f = [i \in 1 .. n + 1 |-> f[i]] /\ \A i \in 1 .. n + 1 : f[i] = Stop1(f, i)
    BY <2>1
  <2> HIDE DEF Stop1
  <2>3. f = [i \in 1 .. n + 1 |-> f[i]]
    BY <2>2
  <2>4. f = [i \in 1 .. n + 1 |-> Stop1(f, i)]
    BY <2>2, <2>3
  <2> QED BY <2>4
<1>5. stop = [i \in 1 .. n + 1 |-> Stop1(stop, i)]
  <2> HIDE DEF Stop1
  <2> QED BY <1>4
<1>6. \A i \in 1 .. n + 1 : stop[i] = Stop1(stop, i)
  <2> HIDE DEF stop, Stop1
  <2> QED BY <1>5
<1>7. SafeMessages(m) = SubSeq(m, 1, stop[1])
  BY DEF SafeMessages
<1> HIDE DEF stop
<1> DEFINE Safe == {i \in 1 .. n + 1 : SafeFrom(m, i, stop[i])}
<1>8. ASSUME NEW i \in 1 .. n + 1, i + 1 .. n + 1 \subseteq Safe PROVE i \in Safe
  <2>1. CASE Ends(i)
    <3>1. stop[i] = i - 1
      BY <1>6, <2>1
    <3>2. i - 1 \in i - 1 .. n /\ i .. i - 1 = {} /\ (i - 1) + 1 = i
      BY <1>0
    <3>3. i - 1 < n => m[i].role = "tool" \/ ~ Answered(m, i)
      BY <1>0, <2>1
    <3>4. SafeFrom(m, i, i - 1)
      <4> HIDE DEF Ends
      <4> QED BY <3>2, <3>3 DEF SafeFrom
    <3> QED BY <3>1, <3>4
  <2>2. CASE ~ Ends(i)
    <3>1. stop[i] = stop[Behind(i)]
      <4> HIDE DEF Ends, Behind
      <4> QED BY <1>6, <2>2
    <3>2. i \in 1 .. n /\ Behind(i) \in i + 1 .. n + 1
      BY <1>1, <2>2
    <3>3. SafeFrom(m, Behind(i), stop[Behind(i)])
      <4> HIDE DEF Behind, Ends
      <4> QED BY <1>8, <3>2
    <3>4. m[i].role # "tool" /\ Answered(m, i)
      BY <2>2 DEF Answered
    <3>5. SafeFrom(m, i, stop[Behind(i)])
      BY <3>2, <3>3, <3>4, SafeGroup
    <3> QED BY <3>1, <3>5
  <2> QED BY <2>1, <2>2
<1>9. SafeFrom(m, 1, stop[1])
  <2> HIDE DEF Safe
  <2>1. 1 .. n + 1 \subseteq Safe
    BY <1>0, <1>8, Backwards
  <2>2. 1 \in Safe
    BY <1>0, <2>1
  <2> QED BY <2>2 DEF Safe
<1>10. SafeAt(m, stop[1])
  <2>1. 1 - 1 = 0
    OBVIOUS
  <2> QED BY <1>9, <2>1 DEF SafeAt, SafeFrom
<1> QED BY <1>7, <1>10

\* Two lists of messages with the same start.
Agree(m, w, n) == n <= Len(m) /\ n <= Len(w) /\ \A j \in 1 .. n : m[j] = w[j]

LEMMA AnsweredInBoth ==
  ASSUME NEW m \in Seq(Message), NEW w \in Seq(Message), NEW n \in Nat, Agree(m, w, n),
         NEW i \in 1 .. n, Answered(m, i), i + Len(m[i].calls) <= n
  PROVE  Answered(w, i)
<1>1. i \in 1 .. Len(m) /\ m[i] = w[i] /\ i \in Nat
  BY DEF Agree
<1> DEFINE l == Len(m[i].calls)
<1>2. l \in Nat /\ DOMAIN m[i].calls = 1 .. l
  BY <1>1, MessageFields
<1>3. ASSUME NEW k \in 1 .. l PROVE i + k <= Len(w) /\ w[i + k] = Result(m[i].calls[k])
  <2>1. i + k \in 1 .. n
    <3>1. i + l <= n
      OBVIOUS
    <3> HIDE DEF l
    <3> QED BY <1>1, <1>2, <3>1
  <2>2. m[i + k] = Result(m[i].calls[k])
    <3> HIDE DEF l
    <3> QED BY <1>2 DEF Answered
  <2>3. i + k <= Len(w) /\ m[i + k] = w[i + k]
    <3>1. i + k <= n /\ n <= Len(w) /\ i + k \in Nat
      BY <2>1 DEF Agree
    <3>2. i + k <= Len(w)
      <4> HIDE DEF l
      <4> QED BY <3>1
    <3>3. m[i + k] = w[i + k]
      BY <2>1 DEF Agree
    <3> QED BY <3>2, <3>3
  <2> QED BY <2>2, <2>3
<1> HIDE DEF l
<1>4. DOMAIN w[i].calls = 1 .. l /\ w[i].calls = m[i].calls
  BY <1>1, <1>2
<1> QED BY <1>3, <1>4 DEF Answered

LEMMA SubSeqAgrees ==
  ASSUME NEW m \in Seq(Message), NEW e \in 0 .. Len(m)
  PROVE  /\ SubSeq(m, 1, e) \in Seq(Message) /\ Len(SubSeq(m, 1, e)) = e
         /\ Agree(m, SubSeq(m, 1, e), e) /\ Agree(SubSeq(m, 1, e), m, e)
<1>1. SubSeq(m, 1, e) \in Seq(Message)
  OBVIOUS
<1>2. Len(SubSeq(m, 1, e)) = e
  OBVIOUS
<1>3. \A j \in 1 .. e : SubSeq(m, 1, e)[j] = m[j]
  OBVIOUS
<1>4. e \in Nat /\ e <= Len(m)
  OBVIOUS
<1> QED BY <1>1, <1>2, <1>3, <1>4 DEF Agree

LEMMA PrefixAgrees ==
  ASSUME NEW T, NEW m \in Seq(T), NEW w \in Seq(T)
  PROVE  IsPrefix(m, w) <=> Agree(m, w, Len(m))
<1>1. ASSUME IsPrefix(m, w) PROVE Agree(m, w, Len(m))
  BY <1>1 DEF IsPrefix, Agree
<1>2. ASSUME Agree(m, w, Len(m)) PROVE IsPrefix(m, w)
  <2>1. Len(m) <= Len(w) /\ Len(m) \in Nat /\ \A j \in 1 .. Len(m) : m[j] = w[j]
    BY <1>2 DEF Agree
  <2>2. SubSeq(m, 1, Len(m)) = SubSeq(w, 1, Len(m))
    BY <2>1
  <2> QED BY <2>1, <2>2 DEF IsPrefix
<1> QED BY <1>1, <1>2

LEMMA SafeIsInOrder ==
  ASSUME NEW m \in Seq(Message), NEW e, SafeAt(m, e)
  PROVE  InOrder(SubSeq(m, 1, e))
<1> DEFINE s == SubSeq(m, 1, e)
<1>1. e \in 0 .. Len(m) /\ e \in Nat
  BY DEF SafeAt
<1>2. s \in Seq(Message) /\ Len(s) = e /\ Agree(m, s, e)
  BY <1>1, SubSeqAgrees
<1>3. DOMAIN s = 1 .. e /\ \A j \in 1 .. e : m[j] = s[j]
  BY <1>2 DEF Agree
<1>4. ASSUME NEW i \in 1 .. e PROVE Answered(s, i)
  <2>1. Answered(m, i) /\ i + Len(m[i].calls) <= e
    BY DEF SafeAt
  <2> HIDE DEF s
  <2> QED BY <1>1, <1>2, <2>1, AnsweredInBoth
<1>5. ASSUME NEW j \in 1 .. e, s[j].role = "tool" PROVE \E i \in 1 .. j - 1 : j \in Group(s, i)
  <2>1. PICK h \in 1 .. j - 1 : j \in Group(m, h)
    BY <1>3, <1>5 DEF SafeAt
  <2>2. h \in 1 .. e
    BY <1>1
  <2>3. j \in Group(s, h)
    <3> HIDE DEF s
    <3> QED BY <1>3, <2>1, <2>2 DEF Group
  <2> QED BY <2>3
<1> HIDE DEF s
<1>6. InOrder(s)
  BY <1>3, <1>4, <1>5 DEF InOrder
<1> QED BY <1>6 DEF s

\* A list that starts with the safe part and goes on is in order only if the
\* first list holds part of the group that the next message asks for.
LEMMA SafeIsLongest ==
  ASSUME NEW m \in Seq(Message), NEW e, SafeAt(m, e),
         NEW n \in Nat, e < n, n <= Len(m),
         NEW w \in Seq(Message), Agree(m, w, n), InOrder(w)
  PROVE  n < e + 1 + Len(m[e + 1].calls) /\ m[e + 1].role # "tool"
<1>1. e \in Nat /\ e + 1 \in 1 .. n /\ e + 1 \in 1 .. Len(m) /\ e + 1 \in 1 .. Len(w)
      /\ e < Len(m) /\ e + 1 \in Nat
  BY DEF SafeAt, Agree
<1>2. m[e + 1] = w[e + 1]
  BY <1>1 DEF Agree
<1>3. m[e + 1].role # "tool"
  <2> SUFFICES ASSUME m[e + 1].role = "tool" PROVE FALSE
    OBVIOUS
  <2>1. \E i \in 1 .. (e + 1) - 1 : e + 1 \in Group(w, i)
    <3>1. e + 1 \in DOMAIN w /\ w[e + 1].role = "tool"
      BY <1>1, <1>2
    <3> QED BY <3>1 DEF InOrder
  <2>2. PICK i \in 1 .. (e + 1) - 1 : e + 1 \in Group(w, i)
    BY <2>1
  <2>3. i \in 1 .. e /\ i \in 1 .. n
    BY <1>1
  <2>4. w[i] = m[i]
    BY <2>3 DEF Agree
  <2> DEFINE l == Len(m[i].calls)
  <2>5. i + l <= e
    BY <2>3 DEF SafeAt
  <2>6. e + 1 \in i + 1 .. i + l
    BY <2>2, <2>4 DEF Group
  <2>7. l \in Nat
    <3>1. i \in 1 .. Len(m)
      BY <1>1, <2>3
    <3> QED BY <3>1, MessageFields
  <2> HIDE DEF l
  <2> QED BY <1>1, <2>3, <2>5, <2>6, <2>7
<1>4. ~ Answered(m, e + 1)
  BY <1>1, <1>3 DEF SafeAt
<1> DEFINE l == Len(m[e + 1].calls)
<1>5. l \in Nat
  BY <1>1, MessageFields
<1>6. ASSUME e + 1 + l <= n PROVE FALSE
  <2>1. Answered(w, e + 1)
    <3>1. e + 1 \in DOMAIN w
      BY <1>1
    <3> QED BY <3>1 DEF InOrder
  <2>2. Agree(w, m, n)
    BY DEF Agree
  <2>3. (e + 1) + Len(w[e + 1].calls) <= n
    BY <1>2, <1>6
  <2>4. Answered(m, e + 1)
    BY <1>1, <2>1, <2>2, <2>3, AnsweredInBoth
  <2> QED BY <1>4, <2>4
<1>7. n < e + 1 + l
  <2> HIDE DEF l
  <2> QED BY <1>1, <1>5, <1>6
<1> QED BY <1>3, <1>7

(* The scan of a recovery returns the longest start of an archive that is in *)
(* order (recover_safe_messages, recovery.py:6-36).                          *)
THEOREM RecoveryScanIsLongest ==
  ASSUME NEW m \in Seq(Message)
  PROVE  \E e \in 0 .. Len(m) :
           /\ SafeMessages(m) = SubSeq(m, 1, e) /\ InOrder(SubSeq(m, 1, e))
           /\ \A n \in 0 .. Len(m) : InOrder(SubSeq(m, 1, n)) => n <= e
<1>1. PICK e : SafeAt(m, e) /\ SafeMessages(m) = SubSeq(m, 1, e)
  BY SafeMessagesIsSafe
<1>2. e \in 0 .. Len(m) /\ e \in Nat
  BY <1>1 DEF SafeAt
<1>3. InOrder(SubSeq(m, 1, e))
  BY <1>1, SafeIsInOrder
<1>4. ASSUME NEW n \in 0 .. Len(m), InOrder(SubSeq(m, 1, n)), ~ (n <= e) PROVE FALSE
  <2> DEFINE w == SubSeq(m, 1, n)
             l == Len(m[e + 1].calls)
  <2>1. w \in Seq(Message) /\ Len(w) = n /\ Agree(m, w, n)
    BY SubSeqAgrees
  <2>2. n \in Nat /\ e < n /\ n <= Len(m) /\ e + 1 \in 1 .. n /\ e + 1 \in 1 .. Len(m)
    BY <1>2, <1>4
  <2>3. n < e + 1 + l
    <3> HIDE DEF w
    <3>1. InOrder(w)
      BY <1>4 DEF w
    <3> QED BY <1>1, <2>1, <2>2, <3>1, SafeIsLongest
  <2>4. w[e + 1] = m[e + 1]
    BY <2>1, <2>2 DEF Agree
  <2>5. e + 1 + Len(w[e + 1].calls) <= Len(w)
    <3> HIDE DEF w
    <3>1. e + 1 \in DOMAIN w /\ e + 1 \in 1 .. Len(w)
      BY <2>1, <2>2
    <3>2. Answered(w, e + 1)
      BY <1>4, <3>1 DEF InOrder, w
    <3> QED BY <2>1, <3>1, <3>2, AnsweredFits
  <2>6. l \in Nat
    BY <2>2, MessageFields
  <2>7. e + 1 + l <= n
    <3> HIDE DEF w
    <3> QED BY <2>1, <2>4, <2>5
  <2> HIDE DEF l
  <2> QED BY <1>2, <2>2, <2>3, <2>6, <2>7
<1> QED BY <1>1, <1>2, <1>3, <1>4

LEMMA SafeOfInOrder ==
  ASSUME NEW m \in Seq(Message)
  PROVE  /\ InOrder(SafeMessages(m)) /\ SafeMessages(m) \in Seq(Message)
         /\ InOrder(m) => SafeMessages(m) = m
<1>1. PICK e \in 0 .. Len(m) :
           /\ SafeMessages(m) = SubSeq(m, 1, e) /\ InOrder(SubSeq(m, 1, e))
           /\ \A n \in 0 .. Len(m) : InOrder(SubSeq(m, 1, n)) => n <= e
  BY RecoveryScanIsLongest
<1>2. SubSeq(m, 1, Len(m)) = m /\ Len(m) \in 0 .. Len(m)
  OBVIOUS
<1>3. ASSUME InOrder(m) PROVE SafeMessages(m) = m
  <2>1. Len(m) <= e
    BY <1>1, <1>2, <1>3
  <2>2. e = Len(m)
    BY <2>1
  <2> QED BY <1>1, <1>2, <2>2
<1>4. SafeMessages(m) \in Seq(Message)
  BY <1>1, SubSeqAgrees
<1> QED BY <1>1, <1>3, <1>4

LEMMA SafeGrows ==
  ASSUME NEW m \in Seq(Message), NEW w \in Seq(Message), IsPrefix(m, w)
  PROVE  IsPrefix(SafeMessages(m), SafeMessages(w))
<1>1. PICK e \in 0 .. Len(m) :
           SafeMessages(m) = SubSeq(m, 1, e) /\ InOrder(SubSeq(m, 1, e))
  BY RecoveryScanIsLongest
<1>2. PICK d \in 0 .. Len(w) :
           /\ SafeMessages(w) = SubSeq(w, 1, d)
           /\ \A n \in 0 .. Len(w) : InOrder(SubSeq(w, 1, n)) => n <= d
  BY RecoveryScanIsLongest
<1>3. Agree(m, w, Len(m))
  BY PrefixAgrees
<1>4. e \in 0 .. Len(w) /\ e <= Len(m) /\ \A j \in 1 .. e : m[j] = w[j]
  BY <1>3 DEF Agree
<1>5. SubSeq(m, 1, e) = SubSeq(w, 1, e)
  BY <1>4
<1>6. e <= d
  BY <1>1, <1>2, <1>4, <1>5
<1>7. e \in Nat /\ d \in Nat /\ d <= Len(w)
  OBVIOUS
<1> DEFINE s == SubSeq(m, 1, e)
           t == SubSeq(w, 1, d)
<1>8. s \in Seq(Message) /\ t \in Seq(Message) /\ Len(s) = e /\ Len(t) = d
      /\ Agree(m, s, e) /\ Agree(w, t, d)
  BY SubSeqAgrees
<1> HIDE DEF s, t
<1>9. \A j \in 1 .. e : s[j] = t[j]
  <2> SUFFICES ASSUME NEW j \in 1 .. e PROVE s[j] = t[j]
    OBVIOUS
  <2>1. j \in 1 .. d
    BY <1>6, <1>7
  <2> QED BY <1>4, <1>8, <2>1 DEF Agree
<1>10. Agree(s, t, Len(s))
  BY <1>6, <1>7, <1>8, <1>9 DEF Agree
<1>11. IsPrefix(s, t)
  BY <1>8, <1>10, PrefixAgrees
<1> QED BY <1>1, <1>2, <1>11 DEF s, t

(* What is not in order when something else than a result is added is never *)
(* in order again.                                                          *)
LEMMA BrokenStays ==
  ASSUME NEW m \in Seq(Message), ~ InOrder(m),
         NEW u \in Message, u.role # "tool",
         NEW x \in Seq(Message)
  PROVE  ~ InOrder(Append(m, u) \o x)
<1> DEFINE n == Len(m)
           w == Append(m, u) \o x
<1> SUFFICES ASSUME InOrder(w) PROVE FALSE
  OBVIOUS
<1>1. w \in Seq(Message) /\ n + 1 <= Len(w) /\ w[n + 1] = u
      /\ (\A j \in 1 .. n : m[j] = w[j]) /\ n \in Nat /\ Len(w) \in Nat
  OBVIOUS
<1>2. PICK e : SafeAt(m, e) /\ SafeMessages(m) = SubSeq(m, 1, e)
  BY SafeMessagesIsSafe
<1>3. e \in 0 .. n /\ e \in Nat
  BY <1>2 DEF SafeAt
<1>4. e < n
  <2> SUFFICES ASSUME e = n PROVE FALSE
    BY <1>1, <1>3
  <2>1. SubSeq(m, 1, e) = m
    OBVIOUS
  <2>2. InOrder(m)
    BY <1>2, <2>1, SafeIsInOrder
  <2> QED BY <2>2
<1> HIDE DEF w
<1>5. Agree(m, w, n)
  BY <1>1 DEF Agree
<1> DEFINE c == m[e + 1].calls
           l == Len(c)
<1>6. n < e + 1 + l
  BY <1>1, <1>2, <1>4, <1>5, SafeIsLongest
<1>7. e + 1 \in 1 .. n /\ e + 1 \in 1 .. Len(w) /\ e + 1 \in DOMAIN w
  BY <1>1, <1>3, <1>4
<1>8. c \in Seq(Call) /\ l \in Nat /\ DOMAIN c = 1 .. l
  BY <1>7, MessageFields
<1>9. w[e + 1].calls = c
  BY <1>5, <1>7 DEF Agree
<1>10. Answered(w, e + 1)
  BY <1>7 DEF InOrder
<1>11. n - e \in 1 .. l /\ (e + 1) + (n - e) = n + 1
  <2> HIDE DEF l, n
  <2> QED BY <1>1, <1>3, <1>4, <1>6, <1>8
<1>12. w[n + 1] = Result(c[n - e])
  <2> HIDE DEF c, n
  <2>1. n - e \in DOMAIN w[e + 1].calls
    BY <1>8, <1>9, <1>11
  <2>2. w[(e + 1) + (n - e)] = Result(w[e + 1].calls[n - e])
    BY <1>10, <2>1 DEF Answered
  <2> QED BY <1>9, <1>11, <2>2
<1>13. u = Result(c[n - e])
  BY <1>1, <1>12
<1> QED BY <1>13 DEF Result

LEMMA InOrderIsPaired ==
  ASSUME NEW m \in Seq(Message), InOrder(m)
  PROVE  Paired(m)
<1>1. ASSUME NEW i \in DOMAIN m
      PROVE  /\ Group(m, i) \subseteq DOMAIN m
             /\ {m[j].answers : j \in Group(m, i)} = ToSet(m[i].calls)
  <2> DEFINE c == m[i].calls
             l == Len(c)
  <2>1. i \in 1 .. Len(m) /\ i \in Nat /\ Answered(m, i)
    BY DEF InOrder
  <2>2. l \in Nat /\ DOMAIN c = 1 .. l /\ i + l <= Len(m)
    BY <2>1, MessageFields, AnsweredFits
  <2>3. Group(m, i) = i + 1 .. i + l
    BY DEF Group
  <2> HIDE DEF l, c
  <2>4. Group(m, i) \subseteq DOMAIN m
    BY <2>1, <2>2, <2>3
  <2>5. ASSUME NEW k \in 1 .. l PROVE m[i + k].answers = c[k]
    <3>1. k \in DOMAIN m[i].calls
      BY <2>2 DEF c
    <3>2. m[i + k] = Result(c[k])
      BY <2>1, <3>1 DEF Answered, c
    <3> QED BY <3>2 DEF Result
  <2>6. \A j \in Group(m, i) : j - i \in 1 .. l /\ i + (j - i) = j
    BY <2>1, <2>2, <2>3
  <2>7. \A k \in 1 .. l : i + k \in Group(m, i)
    BY <2>1, <2>2, <2>3
  <2>8. {m[j].answers : j \in Group(m, i)} = {c[k] : k \in 1 .. l}
    <3>1. ASSUME NEW j \in Group(m, i) PROVE m[j].answers \in {c[k] : k \in 1 .. l}
      <4>1. j - i \in 1 .. l /\ i + (j - i) = j
        BY <2>6
      <4>2. m[i + (j - i)].answers = c[j - i]
        BY <2>5, <4>1
      <4> QED BY <4>1, <4>2
    <3>2. ASSUME NEW k \in 1 .. l PROVE c[k] \in {m[j].answers : j \in Group(m, i)}
      BY <2>5, <2>7
    <3> QED BY <3>1, <3>2
  <2> QED BY <2>2, <2>4, <2>8 DEF ToSet, c
<1>2. \A j \in DOMAIN m : m[j].role = "tool" => \E i \in 1 .. j - 1 : j \in Group(m, i)
  BY DEF InOrder
<1> QED BY <1>1, <1>2 DEF Paired

-----------------------------------------------------------------------------
(* Messages and lines that the program writes *)

Formed == {User} \cup {Assistant(calls) : calls \in Seq(Call)} \cup {Result(call) : call \in Call}
Line == Formed \cup {Torn, Bad, Event}

LEMMA FormedIsMessage == Formed \subseteq Message
<1>1. User \in Message
  BY EmptySeq DEF User, Message
<1>2. ASSUME NEW calls \in Seq(Call) PROVE Assistant(calls) \in Message
  BY DEF Assistant, Message
<1>3. ASSUME NEW call \in Call PROVE Result(call) \in Message
  BY EmptySeq DEF Result, Message
<1> QED BY <1>1, <1>2, <1>3 DEF Formed

LEMMA FormedFields ==
  ASSUME NEW u \in Formed
  PROVE  /\ u.role # "assistant" => u.calls = <<>>
         /\ u.role = "user" => u = User
         /\ u.role = "tool" => u.answers \in Call /\ u = Result(u.answers)
         /\ u.role # "tool" => u.answers = NoCall
         /\ u.role \in {"user", "assistant", "tool"} /\ u.calls \in Seq(Call)
<1>1. CASE u = User
  BY <1>1, EmptySeq DEF User
<1>2. CASE \E calls \in Seq(Call) : u = Assistant(calls)
  BY <1>2 DEF Assistant
<1>3. CASE \E call \in Call : u = Result(call)
  BY <1>3, EmptySeq DEF Result
<1> QED BY <1>1, <1>2, <1>3 DEF Formed

LEMMA LineIsMessage ==
  /\ Torn \notin Message /\ Bad \notin Message /\ Event \notin Message
  /\ Line \cap Message = Formed
<1>1. \A u \in Message : u.role \in {"user", "assistant", "tool"}
  BY DEF Message
<1>2. Torn.role = "torn" /\ Bad.role = "bad" /\ Event.role = "event"
  BY DEF Torn, Bad, Event
<1>3. Torn \notin Message /\ Bad \notin Message /\ Event \notin Message
  BY <1>1, <1>2
<1> QED BY <1>3, FormedIsMessage DEF Line

LEMMA ReadableType ==
  ASSUME NEW file \in Seq(Line)
  PROVE  Readable(file) \in Seq(Formed) /\ Readable(file) \in Seq(Message)
<1>1. Those(file, Message) \in Seq(Line \cap Message)
  BY ThoseType
<1>2. Readable(file) \in Seq(Formed)
  BY <1>1, LineIsMessage DEF Readable
<1> QED BY <1>2, FormedIsMessage, SeqMonotonic

LEMMA RecoveredType ==
  ASSUME NEW file \in Seq(Line)
  PROVE  Recovered(file) \in Seq(Formed) /\ Paired(Recovered(file))
<1> DEFINE r == Readable(file)
<1>1. r \in Seq(Formed) /\ r \in Seq(Message)
  BY ReadableType
<1> HIDE DEF r
<1>2. PICK e \in 0 .. Len(r) : SafeMessages(r) = SubSeq(r, 1, e)
  BY <1>1, RecoveryScanIsLongest
<1>3. SubSeq(r, 1, e) \in Seq(Formed)
  BY <1>1
<1>4. Paired(SafeMessages(r))
  BY <1>1, SafeOfInOrder, InOrderIsPaired
<1> QED BY <1>2, <1>3, <1>4 DEF Recovered, r

LEMMA ReadableOfAppend ==
  ASSUME NEW file \in Seq(Line), NEW line \in Line
  PROVE  /\ line \in Formed => Readable(Append(file, line)) = Append(Readable(file), line)
         /\ line \notin Formed => Readable(Append(file, line)) = Readable(file)
<1>1. line \in Message <=> line \in Formed
  BY LineIsMessage
<1> QED BY <1>1, ThoseAppend DEF Readable

LEMMA UnfinishedEnd ==
  ASSUME NEW file \in Seq(Line), file # <<>>, Last(file) = Torn
  PROVE  /\ Front(file) \in Seq(Line) /\ file = Append(Front(file), Torn)
         /\ Readable(Front(file)) = Readable(file) /\ Skipped(file)
<1>1. Len(file) \in Nat \ {0} /\ file[Len(file)] = Torn
  BY EmptySeq DEF Last
<1>2. Front(file) \in Seq(Line) /\ file = Append(Front(file), Torn)
  BY <1>1 DEF Front
<1>3. Torn \in Line /\ Torn \notin Formed
  BY LineIsMessage DEF Line
<1>4. Readable(Append(Front(file), Torn)) = Readable(Front(file))
  BY <1>2, <1>3, ReadableOfAppend
<1>5. Len(file) \in DOMAIN file /\ Broken(file[Len(file)])
  BY <1>1 DEF Broken, Torn
<1> QED BY <1>2, <1>4, <1>5 DEF Skipped

LEMMA LandedReads ==
  ASSUME NEW file \in Seq(Line), NEW line \in Line
  PROVE  /\ Landed(file, line) \in Seq(Line)
         /\ IsPrefix(Readable(file), Readable(Landed(file, line)))
         /\ Skipped(file) => Skipped(Landed(file, line))
         /\ ~ Skipped(file) => Landed(file, line) = Append(file, line)
<1>1. CASE file # <<>> /\ Last(file) = Torn
  <2> DEFINE front == Front(file)
             new == Append(front, Bad)
  <2>1. front \in Seq(Line) /\ Readable(front) = Readable(file) /\ Skipped(file)
    BY <1>1, UnfinishedEnd
  <2>2. Landed(file, line) = new
    BY <1>1 DEF Landed
  <2>3. Bad \in Line /\ Bad \notin Formed
    BY LineIsMessage DEF Line
  <2> HIDE DEF front
  <2>4. new \in Seq(Line) /\ Readable(new) = Readable(front)
    BY <2>1, <2>3, ReadableOfAppend
  <2>5. Skipped(new)
    <3>1. Len(front) + 1 \in DOMAIN new /\ new[Len(front) + 1] = Bad
      BY <2>1, <2>3
    <3>2. Broken(Bad)
      BY DEF Broken, Bad
    <3> HIDE DEF new
    <3> QED BY <3>1, <3>2 DEF Skipped
  <2>6. Readable(file) \in Seq(Formed)
    BY ReadableType
  <2>7. IsPrefix(Readable(file), Readable(file))
    BY <2>6 DEF IsPrefix
  <2> HIDE DEF new
  <2> QED BY <2>1, <2>2, <2>4, <2>5, <2>7
<1>2. CASE ~ (file # <<>> /\ Last(file) = Torn)
  <2> DEFINE new == Append(file, line)
  <2>1. Landed(file, line) = new
    BY <1>2 DEF Landed
  <2>2. new \in Seq(Line) /\ \A i \in DOMAIN file : i \in DOMAIN new /\ new[i] = file[i]
    OBVIOUS
  <2>3. Skipped(file) => Skipped(new)
    <3> HIDE DEF new
    <3> QED BY <2>2 DEF Skipped
  <2>4. IsPrefix(file, new)
    BY DEF IsPrefix
  <2>5. IsPrefix(Readable(file), Readable(new))
    <3> HIDE DEF new
    <3> QED BY <2>2, <2>4, ThosePrefix DEF Readable
  <2> HIDE DEF new
  <2> QED BY <2>1, <2>2, <2>3, <2>5 DEF new
<1> QED BY <1>1, <1>2

LEMMA PrefixChain ==
  ASSUME NEW T, NEW a \in Seq(T), NEW b \in Seq(T), NEW c \in Seq(T),
         IsPrefix(a, b), IsPrefix(b, c)
  PROVE  IsPrefix(a, c)
<1>1. Agree(a, b, Len(a)) /\ Agree(b, c, Len(b))
  BY PrefixAgrees
<1>2. Len(a) \in Nat /\ Len(b) \in Nat /\ Len(c) \in Nat
  OBVIOUS
<1>3. Len(a) <= Len(c) /\ \A j \in 1 .. Len(a) : j \in 1 .. Len(b)
  BY <1>1, <1>2 DEF Agree
<1>4. Agree(a, c, Len(a))
  BY <1>1, <1>2, <1>3 DEF Agree
<1> QED BY <1>4, PrefixAgrees

LEMMA RecoveredGrows ==
  ASSUME NEW file \in Seq(Line), NEW new \in Seq(Line),
         IsPrefix(Readable(file), Readable(new))
  PROVE  IsPrefix(Recovered(file), Recovered(new))
BY ReadableType, SafeGrows DEF Recovered

-----------------------------------------------------------------------------
(* Histories a provider accepts *)

LEMMA GroupFields ==
  ASSUME NEW m \in Seq(Formed), NEW i \in 1 .. Len(m)
  PROVE  /\ m[i] \in Formed /\ m[i].calls \in Seq(Call) /\ Len(m[i].calls) \in Nat
         /\ m[i].calls = <<>> => Group(m, i) = {} /\ ToSet(m[i].calls) = {}
<1>1. m[i] \in Formed
  BY ElementOfSeq
<1>2. m[i].calls \in Seq(Call)
  BY <1>1, FormedFields
<1>3. ASSUME m[i].calls = <<>> PROVE Group(m, i) = {} /\ ToSet(m[i].calls) = {}
  <2>1. Len(m[i].calls) = 0 /\ DOMAIN m[i].calls = {}
    BY <1>3
  <2>2. i + 1 .. i + 0 = {}
    OBVIOUS
  <2> QED BY <2>1, <2>2 DEF Group, ToSet
<1> QED BY <1>1, <1>2, <1>3

\* Adding a message that is no result and asks for nothing.
LEMMA PairedAppend ==
  ASSUME NEW m \in Seq(Formed), Paired(m),
         NEW u \in Formed, u.role # "tool", u.calls = <<>>
  PROVE  Paired(Append(m, u))
<1> DEFINE n == Len(m)
           w == Append(m, u)
<1>1. w \in Seq(Formed) /\ Len(w) = n + 1 /\ n \in Nat /\ w[n + 1] = u
      /\ (\A j \in 1 .. n : w[j] = m[j]) /\ DOMAIN w = 1 .. n + 1 /\ DOMAIN m = 1 .. n
      /\ 1 .. n + 1 = (1 .. n) \cup {n + 1} /\ n + 1 \in 1 .. n + 1
  OBVIOUS
<1> HIDE DEF w, n
<1>2. ASSUME NEW i \in 1 .. n
      PROVE  /\ Group(w, i) \subseteq DOMAIN w
             /\ {w[j].answers : j \in Group(w, i)} = ToSet(w[i].calls)
  <2>1. w[i] = m[i] /\ Group(w, i) = Group(m, i)
    BY <1>1 DEF Group
  <2>2. Group(m, i) \subseteq 1 .. n /\ {m[j].answers : j \in Group(m, i)} = ToSet(m[i].calls)
    BY <1>1 DEF Paired
  <2>3. {w[j].answers : j \in Group(m, i)} = {m[j].answers : j \in Group(m, i)}
    BY <1>1, <2>2
  <2> QED BY <1>1, <2>1, <2>2, <2>3
<1>3. Group(w, n + 1) = {} /\ ToSet(w[n + 1].calls) = {}
  <2>1. n + 1 \in 1 .. Len(w) /\ w[n + 1].calls = <<>>
    BY <1>1
  <2> QED BY <1>1, <2>1, GroupFields
<1>4. ASSUME NEW j \in 1 .. n, w[j].role = "tool" PROVE \E i \in 1 .. j - 1 : j \in Group(w, i)
  <2>1. m[j].role = "tool"
    BY <1>1, <1>4
  <2>2. PICK i \in 1 .. j - 1 : j \in Group(m, i)
    BY <1>1, <2>1 DEF Paired
  <2>3. i \in 1 .. n
    BY <1>1
  <2>4. Group(w, i) = Group(m, i)
    BY <1>1, <2>3 DEF Group
  <2> QED BY <2>2, <2>4
<1>5. w[n + 1].role # "tool"
  BY <1>1
<1>6. ASSUME NEW i \in DOMAIN w
      PROVE  /\ Group(w, i) \subseteq DOMAIN w
             /\ {w[j].answers : j \in Group(w, i)} = ToSet(w[i].calls)
  <2>1. CASE i = n + 1
    BY <1>3, <2>1
  <2>2. CASE i \in 1 .. n
    BY <1>2, <2>2
  <2> QED BY <1>1, <2>1, <2>2
<1>7. \A j \in DOMAIN w : w[j].role = "tool" => \E i \in 1 .. j - 1 : j \in Group(w, i)
  BY <1>1, <1>4, <1>5
<1>8. Paired(w)
  BY <1>6, <1>7 DEF Paired
<1> QED BY <1>8 DEF w

\* Taking back the message of the user.
LEMMA PairedFront ==
  ASSUME NEW m \in Seq(Formed), Paired(m), Len(m) > 0, Last(m).role = "user"
  PROVE  Front(m) \in Seq(Formed) /\ Paired(Front(m))
<1> DEFINE n == Len(m) - 1
           w == Front(m)
<1>1. w \in Seq(Formed) /\ Len(w) = n /\ n \in Nat /\ Len(m) = n + 1
      /\ (\A j \in 1 .. n : w[j] = m[j]) /\ DOMAIN w = 1 .. n /\ DOMAIN m = 1 .. n + 1
      /\ 1 .. n + 1 = (1 .. n) \cup {n + 1} /\ n + 1 \in 1 .. n + 1
  <2>1. n \in Nat /\ Len(m) = n + 1 /\ DOMAIN m = 1 .. n + 1 /\ n <= Len(m)
        /\ 1 .. n + 1 = (1 .. n) \cup {n + 1} /\ n + 1 \in 1 .. n + 1
    OBVIOUS
  <2>2. w = SubSeq(m, 1, n)
    BY DEF Front
  <2> HIDE DEF w, n
  <2>3. w \in Seq(Formed) /\ Len(w) = n /\ DOMAIN w = 1 .. n
    BY <2>1, <2>2
  <2>4. \A j \in 1 .. n : w[j] = m[j]
    BY <2>1, <2>2
  <2> QED BY <2>1, <2>3, <2>4
<1>2. m[n + 1].role = "user"
  BY DEF Last
<1> HIDE DEF w, n
<1>3. m[n + 1] \in Formed /\ m[n + 1].answers = NoCall
  BY <1>1, <1>2, ElementOfSeq, FormedFields
<1>4. ASSUME NEW i \in 1 .. n
      PROVE  /\ Group(w, i) \subseteq DOMAIN w
             /\ {w[j].answers : j \in Group(w, i)} = ToSet(w[i].calls)
  <2>1. w[i] = m[i] /\ Group(w, i) = Group(m, i) /\ i \in 1 .. Len(m)
    BY <1>1 DEF Group
  <2>2. Group(m, i) \subseteq 1 .. n + 1 /\ {m[j].answers : j \in Group(m, i)} = ToSet(m[i].calls)
    BY <1>1 DEF Paired
  <2>3. m[i].calls \in Seq(Call)
    BY <2>1, GroupFields
  <2>4. \A c \in ToSet(m[i].calls) : c \in Call
    BY <2>3 DEF ToSet
  <2>5. n + 1 \notin Group(m, i)
    BY <1>3, <2>2, <2>4, NoCallAssumption
  <2>6. Group(m, i) \subseteq 1 .. n
    BY <1>1, <2>2, <2>5
  <2>7. {w[j].answers : j \in Group(m, i)} = {m[j].answers : j \in Group(m, i)}
    BY <1>1, <2>6
  <2> QED BY <1>1, <2>1, <2>2, <2>6, <2>7
<1>5. ASSUME NEW j \in 1 .. n, w[j].role = "tool" PROVE \E i \in 1 .. j - 1 : j \in Group(w, i)
  <2>1. m[j].role = "tool" /\ j \in DOMAIN m
    BY <1>1, <1>5
  <2>2. PICK i \in 1 .. j - 1 : j \in Group(m, i)
    BY <2>1 DEF Paired
  <2>3. i \in 1 .. n
    BY <1>1
  <2>4. Group(w, i) = Group(m, i)
    BY <1>1, <2>3 DEF Group
  <2> QED BY <2>2, <2>4
<1>6. Paired(w)
  BY <1>1, <1>4, <1>5 DEF Paired
<1> QED BY <1>1, <1>6 DEF w

-----------------------------------------------------------------------------
(* What a forked subagent is given (ChildRuns)                               *)

\* The last of the results behind message i is e.
LastIs(m, i, e) ==
  /\ e \in i .. Len(m)
  /\ \A k \in i + 1 .. e : m[k].role = "tool"
  /\ e < Len(m) => m[e + 1].role # "tool"

LEMMA LastIsUnique ==
  ASSUME NEW m, NEW i, Len(m) \in Nat, i \in Nat,
         NEW d, LastIs(m, i, d), NEW e, LastIs(m, i, e)
  PROVE  d = e
<1> DEFINE n == Len(m)
<1>1. n \in Nat /\ d \in i .. n /\ e \in i .. n
  BY DEF LastIs
<1> HIDE DEF n
<1>2. CASE d < e
  <2>1. d + 1 \in i + 1 .. e /\ d < n
    BY <1>1, <1>2
  <2> QED BY <2>1 DEF LastIs, n
<1>3. CASE e < d
  <2>1. e + 1 \in i + 1 .. d /\ e < n
    BY <1>1, <1>3
  <2> QED BY <2>1 DEF LastIs, n
<1>4. d = e \/ d < e \/ e < d
  BY <1>1
<1> QED BY <1>2, <1>3, <1>4

LEMMA LastExists ==
  ASSUME NEW m, NEW i, Len(m) \in Nat, i \in 1 .. Len(m)
  PROVE  \E e : LastIs(m, i, e)
<1> DEFINE n == Len(m)
           Ends == {j \in i .. n : j < n => m[j + 1].role # "tool"}
<1>1. n \in Nat /\ i \in Nat /\ i \in 1 .. n
  OBVIOUS
<1>2. Ends \in SUBSET Nat /\ n \in Ends
  <2> HIDE DEF n
  <2> QED BY <1>1
<1>3. PICK e \in Ends : \A j \in Ends : e <= j
  <2> HIDE DEF Ends
  <2> QED BY <1>2, LeastNatural
<1> HIDE DEF n
<1>4. ASSUME NEW k \in i + 1 .. e PROVE m[k].role = "tool"
  <2>1. e \in i .. n
    BY <1>3
  <2>2. k - 1 \in i .. n /\ k - 1 < n /\ (k - 1) + 1 = k /\ ~ (e <= k - 1)
    BY <1>1, <2>1
  <2>3. k - 1 \notin Ends
    BY <1>3, <2>2
  <2> QED BY <2>2, <2>3
<1> QED BY <1>3, <1>4 DEF LastIs, n

LEMMA LastResultIs ==
  ASSUME NEW m, NEW i, Len(m) \in Nat, i \in 1 .. Len(m)
  PROVE  /\ LastIs(m, i, LastResult(m, i))
         /\ \A e : LastIs(m, i, e) => LastResult(m, i) = e
<1>1. \E e \in i .. Len(m) : /\ \A k \in i + 1 .. e : m[k].role = "tool"
                             /\ e < Len(m) => m[e + 1].role # "tool"
  BY LastExists DEF LastIs
<1>2. LastIs(m, i, LastResult(m, i))
  BY <1>1 DEF LastIs, LastResult
<1>3. i \in Nat
  OBVIOUS
<1> QED BY <1>2, <1>3, LastIsUnique

\* A scan that goes on behind every message it does not end at.
Scans(n, Ends, Left, kept, next, f) ==
  /\ f = [i \in 1 .. n + 1 |-> f[i]]
  /\ \A i \in 1 .. n + 1 : f[i] = IF i \in Ends THEN <<>>
                                 ELSE IF i \in Left THEN f[next[i]]
                                 ELSE kept[i] \o f[next[i]]

LEMMA ScanIsDefined ==
  ASSUME NEW n \in Nat, NEW Ends, NEW Left, NEW kept, NEW next,
         \A i \in 1 .. n + 1 : i \notin Ends => next[i] \in i + 1 .. n + 1
  PROVE  \E f : Scans(n, Ends, Left, kept, next, f)
<1> DEFINE Step(f, i) == IF i \in Ends THEN <<>>
                         ELSE IF i \in Left THEN f[next[i]]
                         ELSE kept[i] \o f[next[i]]
           From(f, k) == /\ f = [i \in k .. n + 1 |-> f[i]]
                         /\ \A i \in k .. n + 1 : f[i] = Step(f, i)
           Good == {k \in 1 .. n + 1 : \E f : From(f, k)}
<1>0. n \in Nat /\ n + 1 \in Nat
  OBVIOUS
<1>2. ASSUME NEW k \in 1 .. n + 1, k + 1 .. n + 1 \subseteq Good PROVE k \in Good
  <2>1. \E f : f = [i \in k + 1 .. n + 1 |-> f[i]] /\ \A i \in k + 1 .. n + 1 : f[i] = Step(f, i)
    <3> HIDE DEF Step
    <3>1. CASE k = n + 1
      <4>1. k + 1 .. n + 1 = {}
        BY <1>0, <3>1
      <4> DEFINE none == [i \in {} |-> i]
      <4>2. none = [i \in {} |-> none[i]]
        OBVIOUS
      <4> HIDE DEF none
      <4> QED BY <4>1, <4>2
    <3>2. CASE k # n + 1
      <4>1. k + 1 \in k + 1 .. n + 1
        BY <1>0, <3>2
      <4> QED BY <1>2, <4>1
    <3> QED BY <3>1, <3>2
  <2>2. PICK f : f = [i \in k + 1 .. n + 1 |-> f[i]] /\ \A i \in k + 1 .. n + 1 : f[i] = Step(f, i)
    BY <2>1
  <2> DEFINE first == Step(f, k)
             g == [i \in k .. n + 1 |-> IF i = k THEN first ELSE f[i]]
  <2>3. k \in Nat /\ k \notin k + 1 .. n + 1 /\ k .. n + 1 = {k} \cup (k + 1 .. n + 1)
    BY <1>0
  <2>4. \A i \in k + 1 .. n + 1 : g[i] = f[i]
    <3> HIDE DEF first
    <3> QED BY <2>3
  <2>5. ASSUME NEW i \in k .. n + 1 PROVE Step(g, i) = Step(f, i)
    <3>1. CASE i \in Ends
      <4> HIDE DEF g
      <4> QED BY <3>1
    <3>2. CASE i \notin Ends
      <4>1. i \in 1 .. n + 1
        BY <1>0
      <4>2. next[i] \in i + 1 .. n + 1
        BY <3>2, <4>1
      <4>3. i + 1 .. n + 1 \subseteq k + 1 .. n + 1
        BY <1>0, <4>1
      <4> HIDE DEF g
      <4>4. g[next[i]] = f[next[i]]
        BY <2>4, <4>2, <4>3
      <4> QED BY <3>2, <4>4
    <3> QED BY <3>1, <3>2
  <2>6. ASSUME NEW i \in k .. n + 1 PROVE g[i] = Step(g, i)
    <3> HIDE DEF Step
    <3>1. CASE i = k
      BY <3>1, <2>5
    <3>2. CASE i \in k + 1 .. n + 1
      <4> HIDE DEF g
      <4> QED BY <3>2, <2>2, <2>4, <2>5
    <3> QED BY <3>1, <3>2, <2>3
  <2>7. From(g, k)
    <3> HIDE DEF Step, first
    <3>1. g = [i \in k .. n + 1 |-> g[i]]
      OBVIOUS
    <3> HIDE DEF g
    <3> QED BY <2>6, <3>1
  <2> HIDE DEF From
  <2> QED BY <2>7
<1>3. 1 \in Good
  <2> HIDE DEF Good
  <2>1. 1 .. n + 1 \subseteq Good
    BY <1>0, <1>2, Backwards
  <2> QED BY <1>0, <2>1
<1> HIDE DEF Step
<1>4. PICK f : From(f, 1)
  <2> HIDE DEF From
  <2> QED BY <1>3
<1>5. f = [i \in 1 .. n + 1 |-> f[i]] /\ \A i \in 1 .. n + 1 : f[i] = Step(f, i)
  BY <1>4
<1> QED BY <1>5 DEF Scans, Step

\* A sequence all of whose elements lie in a set.
LEMMA ThoseAll ==
  ASSUME NEW T, NEW seq \in Seq(T), NEW set, \A i \in 1 .. Len(seq) : seq[i] \in set
  PROVE  Those(seq, set) = seq
<1> DEFINE n == Len(seq)
<1>0. n \in Nat
  OBVIOUS
<1>1. PICK f : f \in [0 .. n -> Seq(T \cap set)] /\ Among(seq, set, f) /\ Those(seq, set) = f[n]
  BY ThoseIsDefined
<1> DEFINE Good == {k \in 0 .. n : f[k] = SubSeq(seq, 1, k)}
<1>2. 0 \in Good
  <2>1. f[0] = <<>>
    BY <1>0, <1>1 DEF Among
  <2>2. SubSeq(seq, 1, 0) = <<>>
    OBVIOUS
  <2>3. 0 \in 0 .. n
    BY <1>0
  <2> HIDE DEF n
  <2> QED BY <2>1, <2>2, <2>3
<1>3. ASSUME NEW k \in 0 .. n - 1, k \in Good PROVE k + 1 \in Good
  <2>1. k + 1 \in 0 .. n /\ k + 1 \in 1 .. n /\ k + 1 # 0 /\ (k + 1) - 1 = k /\ k \in Nat
    BY <1>0
  <2>2. f[k + 1] = Append(f[k], seq[k + 1])
    BY <1>1, <2>1 DEF Among
  <2>3. f[k] = SubSeq(seq, 1, k)
    BY <1>3
  <2>4. SubSeq(seq, 1, k + 1) = Append(SubSeq(seq, 1, k), seq[k + 1])
    BY <2>1
  <2> QED BY <2>1, <2>2, <2>3, <2>4
<1>4. n \in Good
  <2> HIDE DEF Good
  <2>1. 0 .. n \subseteq Good
    BY <1>0, <1>2, <1>3, Forwards
  <2> QED BY <1>0, <2>1
<1>5. SubSeq(seq, 1, n) = seq
  OBVIOUS
<1> QED BY <1>1, <1>4, <1>5

\* What the scan for a fork keeps of the results behind message i, and whether
\* they answer all of its calls.
Kept(m, i) == Those(SubSeq(m, i + 1, LastResult(m, i)), {x \in Message : x.answers \in Calls(m[i])})
Whole(m, i) == AnswersIn(Kept(m, i)) = Calls(m[i])

\* The scan of ForkHistory, one message at a time.
Forks(m, f) ==
  /\ f[Len(m) + 1] = <<>>
  /\ \A i \in 1 .. Len(m) :
       /\ m[i].role = "tool" => f[i] = f[i + 1]
       /\ m[i].role # "tool" /\ ~ Asks(m[i]) => f[i] = <<m[i]>> \o f[i + 1]
       /\ Asks(m[i]) /\ ~ Whole(m, i) => f[i] = <<>>
       /\ Asks(m[i]) /\ Whole(m, i) => f[i] = (<<m[i]>> \o Kept(m, i)) \o f[LastResult(m, i) + 1]

LEMMA ForkScan ==
  ASSUME NEW m, Len(m) \in Nat
  PROVE  \E f : Forks(m, f) /\ ForkHistory(m) = f[1]
<1> DEFINE n == Len(m)
           Body(f, i) ==
             IF i > n THEN <<>>
             ELSE IF m[i].role = "tool" THEN f[i + 1]
             ELSE IF ~ Asks(m[i]) THEN <<m[i]>> \o f[i + 1]
             ELSE IF ~ Whole(m, i) THEN <<>>
             ELSE (<<m[i]>> \o Kept(m, i)) \o f[LastResult(m, i) + 1]
           Ends == {i \in 1 .. n + 1 : i > n \/ (Asks(m[i]) /\ ~ Whole(m, i))}
           Left == {i \in 1 .. n + 1 : m[i].role = "tool"}
           kept == [i \in 1 .. n + 1 |-> IF Asks(m[i]) THEN <<m[i]>> \o Kept(m, i) ELSE <<m[i]>>]
           next == [i \in 1 .. n + 1 |-> IF Asks(m[i]) THEN LastResult(m, i) + 1 ELSE i + 1]
           Step(f, i) == IF i \in Ends THEN <<>>
                         ELSE IF i \in Left THEN f[next[i]]
                         ELSE kept[i] \o f[next[i]]
           all == CHOOSE f : f = [i \in 1 .. n + 1 |-> Body(f, i)]
<1>0. /\ n \in Nat /\ n + 1 \in 1 .. n + 1 /\ n + 1 > n /\ 1 .. n \subseteq 1 .. n + 1
      /\ \A i \in 1 .. n + 1 : i > n \/ i \in 1 .. n
      /\ \A i \in 1 .. n : ~ (i > n)
  OBVIOUS
<1>1. ASSUME NEW i \in 1 .. n PROVE LastResult(m, i) \in i .. n
  BY LastResultIs DEF LastIs
<1>2. ASSUME NEW i \in 1 .. n + 1, i \notin Ends PROVE next[i] \in i + 1 .. n + 1
  <2>1. i \in 1 .. n
    BY <1>0, <1>2
  <2>2. i + 1 \in i + 1 .. n + 1
    BY <1>0, <2>1
  <2>3. LastResult(m, i) + 1 \in i + 1 .. n + 1
    <3>1. LastResult(m, i) \in i .. n
      BY <1>1, <2>1
    <3> HIDE DEF n
    <3> QED BY <1>0, <2>1, <3>1
  <2> HIDE DEF n
  <2> QED BY <2>2, <2>3
<1>3. ASSUME NEW f, NEW i \in 1 .. n + 1 PROVE Body(f, i) = Step(f, i)
  <2> HIDE DEF n
  <2>1. CASE i > n
    BY <2>1
  <2>2. CASE ~ (i > n)
    <3>1. Asks(m[i]) => m[i].role # "tool"
      BY DEF Asks
    <3> QED BY <2>2, <3>1
  <2> QED BY <2>1, <2>2
<1>4. \E f : f = [i \in 1 .. n + 1 |-> Body(f, i)]
  <2> HIDE DEF n, Ends, Left, kept, next, Body
  <2>1. n \in Nat /\ \A i \in 1 .. n + 1 : i \notin Ends => next[i] \in i + 1 .. n + 1
    BY <1>0, <1>2
  <2>2. PICK f : Scans(n, Ends, Left, kept, next, f)
    BY <2>1, ScanIsDefined, Zenon
  <2>3. f = [i \in 1 .. n + 1 |-> f[i]] /\ \A i \in 1 .. n + 1 : f[i] = Step(f, i)
    BY <2>2 DEF Scans
  <2> HIDE DEF Step
  <2>4. f = [i \in 1 .. n + 1 |-> Body(f, i)]
    BY <2>3, <1>3
  <2> QED BY <2>4
<1>5. all = [i \in 1 .. n + 1 |-> Body(all, i)]
  <2> HIDE DEF Body, n
  <2> QED BY <1>4
<1>6. \A i \in 1 .. n + 1 : all[i] = Body(all, i)
  <2> HIDE DEF Body, n, all
  <2> QED BY <1>5
<1>7. ForkHistory(m) = all[1]
  BY DEF ForkHistory, Whole, Kept
<1> HIDE DEF all
<1>8. Forks(m, all)
  <2>1. all[n + 1] = <<>>
    BY <1>0, <1>6
  <2>2. ASSUME NEW i \in 1 .. n
        PROVE  /\ m[i].role = "tool" => all[i] = all[i + 1]
               /\ m[i].role # "tool" /\ ~ Asks(m[i]) => all[i] = <<m[i]>> \o all[i + 1]
               /\ Asks(m[i]) /\ ~ Whole(m, i) => all[i] = <<>>
               /\ Asks(m[i]) /\ Whole(m, i) =>
                    all[i] = (<<m[i]>> \o Kept(m, i)) \o all[LastResult(m, i) + 1]
    <3>1. all[i] = Body(all, i) /\ ~ (i > n)
      BY <1>0, <1>6
    <3>2. Asks(m[i]) => m[i].role # "tool"
      BY DEF Asks
    <3> HIDE DEF n
    <3> QED BY <3>1, <3>2
  <2> QED BY <2>1, <2>2 DEF Forks
<1> QED BY <1>7, <1>8

\* The messages in front of message b, or all of them, are paired.
PairedUpTo(m, b) ==
  /\ b \in 1 .. Len(m) + 1 /\ Paired(SubSeq(m, 1, b - 1))
  /\ b <= Len(m) => m[b].role # "tool"

\* Then a group there is what follows its message, up to the next message that
\* is no result.
LEMMA GroupIsWhole ==
  ASSUME NEW m \in Seq(Formed), NEW b, PairedUpTo(m, b),
         NEW i \in 1 .. b - 1, m[i].role # "tool"
  PROVE  \E e \in i .. b - 1 :
           /\ LastIs(m, i, e) /\ e = i + Len(m[i].calls)
           /\ e + 1 <= Len(m) => m[e + 1].role # "tool"
           /\ {m[j].answers : j \in i + 1 .. e} = Calls(m[i])
<1> DEFINE n == Len(m)
           s == SubSeq(m, 1, b - 1)
           l == Len(m[i].calls)
           e == i + l
<1>1. /\ b \in 1 .. n + 1 /\ b \in Nat /\ n \in Nat /\ i \in Nat /\ b - 1 \in 0 .. n
      /\ Paired(s)
      /\ b <= n => m[b].role # "tool"
  BY DEF PairedUpTo
<1>2. s \in Seq(Formed) /\ Len(s) = b - 1 /\ DOMAIN s = 1 .. b - 1
      /\ \A j \in 1 .. b - 1 : s[j] = m[j]
  BY <1>1
<1> HIDE DEF n, s
<1>3. ASSUME NEW h \in 1 .. b - 1
      PROVE  /\ s[h].calls \in Seq(Call) /\ Len(s[h].calls) \in Nat
             /\ Group(s, h) \subseteq 1 .. b - 1
             /\ {s[j].answers : j \in Group(s, h)} = ToSet(s[h].calls)
  BY <1>2, <1>1, GroupFields DEF Paired
<1>4. ASSUME NEW h \in 1 .. b - 1, NEW j \in Group(s, h) PROVE s[j].role = "tool"
  <2>1. j \in 1 .. b - 1 /\ s[j].answers \in ToSet(s[h].calls)
    BY <1>3
  <2>2. ToSet(s[h].calls) \subseteq Call
    BY <1>3 DEF ToSet
  <2>3. s[j] \in Formed
    BY <1>2, <2>1, ElementOfSeq
  <2> QED BY <2>1, <2>2, <2>3, FormedFields, NoCallAssumption
<1>5. s[i] = m[i] /\ l \in Nat /\ Group(s, i) = i + 1 .. e
  BY <1>2, <1>3 DEF Group
<1> HIDE DEF l
<1>6. e \in i .. b - 1
  <2>1. CASE l = 0
    BY <1>1, <1>5, <2>1
  <2>2. CASE l # 0
    <3>1. e \in i + 1 .. e
      BY <1>1, <1>5, <2>2
    <3>2. e \in 1 .. b - 1
      BY <1>3, <1>5, <3>1
    <3> QED BY <1>1, <1>5, <3>2
  <2> QED BY <2>1, <2>2
<1>7. \A j \in i + 1 .. e : s[j] = m[j] /\ m[j].role = "tool"
  <2>1. i + 1 .. e \subseteq 1 .. b - 1
    BY <1>3, <1>5
  <2> QED BY <1>2, <1>4, <1>5, <2>1
<1>8. e + 1 <= n => m[e + 1].role # "tool"
  <2>1. CASE e + 1 = b
    BY <1>1, <2>1
  <2>2. CASE e + 1 # b
    <3> SUFFICES ASSUME e + 1 <= n, m[e + 1].role = "tool" PROVE FALSE
      OBVIOUS
    <3>1. e + 1 \in 1 .. b - 1 /\ (e + 1) - 1 = e /\ e \in Nat
      BY <1>1, <1>5, <1>6, <2>2
    <3>2. PICK h \in 1 .. e : e + 1 \in Group(s, h)
      BY <1>1, <1>2, <3>1 DEF Paired
    <3>3. h \in 1 .. b - 1 /\ h \in Nat
      BY <1>1, <1>6, <3>1
    <3>4. Len(s[h].calls) \in Nat /\ e + 1 \in h + 1 .. h + Len(s[h].calls)
      BY <1>3, <3>2, <3>3 DEF Group
    <3>5. CASE h < i
      <4>1. i \in h + 1 .. h + Len(s[h].calls)
        BY <1>1, <1>6, <3>3, <3>4, <3>5
      <4>2. s[i].role = "tool"
        BY <1>4, <3>3, <4>1 DEF Group
      <4> QED BY <1>5, <4>2
    <3>6. CASE h = i
      <4>1. e + 1 \in i + 1 .. e
        BY <1>5, <3>2, <3>6
      <4> QED BY <3>1, <4>1
    <3>7. CASE h \in i + 1 .. e
      <4>1. s[h] \in Formed /\ s[h].role = "tool" /\ h \in 1 .. Len(s)
        BY <1>2, <1>7, <3>3, <3>7, ElementOfSeq
      <4>2. Group(s, h) = {}
        BY <1>2, <4>1, FormedFields, GroupFields
      <4> QED BY <3>2, <4>2
    <3>8. h < i \/ h = i \/ h \in i + 1 .. e
      BY <1>1, <3>1, <3>3
    <3> QED BY <3>5, <3>6, <3>7, <3>8
  <2> QED BY <2>1, <2>2
<1>9. {m[j].answers : j \in i + 1 .. e} = Calls(m[i])
  <2>1. {s[j].answers : j \in i + 1 .. e} = Calls(m[i])
    BY <1>3, <1>5 DEF Calls
  <2> QED BY <1>7, <2>1
<1>10. LastIs(m, i, e)
  <2>1. e \in i .. n /\ (e < n => e + 1 <= n)
    BY <1>1, <1>6
  <2> QED BY <1>7, <1>8, <2>1 DEF LastIs, n
<1> QED BY <1>6, <1>8, <1>9, <1>10 DEF l, n

LEMMA KeptAnswers ==
  ASSUME NEW m \in Seq(Formed), NEW i \in 1 .. Len(m), NEW e \in i .. Len(m),
         LastResult(m, i) = e
  PROVE  /\ AnswersIn(Kept(m, i)) \subseteq {m[j].answers : j \in i + 1 .. e}
         /\ (\A j \in i + 1 .. e : m[j].answers \in Calls(m[i])) =>
              Kept(m, i) = SubSeq(m, i + 1, e)
<1> DEFINE T == {m[j] : j \in i + 1 .. e}
           s == SubSeq(m, i + 1, e)
           set == {x \in Message : x.answers \in Calls(m[i])}
           k == Those(s, set)
<1>1. i \in Nat /\ e \in Nat /\ i + 1 .. e \subseteq 1 .. Len(m)
  OBVIOUS
<1>2. s \in Seq(T) /\ Len(s) \in Nat
  <2>1. i + 1 \in Int /\ e \in Int /\ \A j \in i + 1 .. e : m[j] \in T
    BY <1>1
  <2> HIDE DEF T
  <2> QED BY <2>1, SubSeqProperties
<1>3. Kept(m, i) = k
  BY DEF Kept
<1>4. k \in Seq(T \cap set)
  <2> HIDE DEF T, s, set
  <2> QED BY <1>2, ThoseType
<1>5. ASSUME NEW x \in DOMAIN k PROVE k[x].answers \in {m[j].answers : j \in i + 1 .. e}
  <2>1. k[x] \in T
    <3> HIDE DEF k, T, set
    <3> QED BY <1>4
  <2> QED BY <2>1
<1>6. AnswersIn(Kept(m, i)) \subseteq {m[j].answers : j \in i + 1 .. e}
  <2> HIDE DEF k
  <2> QED BY <1>3, <1>5 DEF AnswersIn
<1>7. ASSUME \A j \in i + 1 .. e : m[j].answers \in Calls(m[i]) PROVE k = s
  <2>1. \A j \in i + 1 .. e : m[j] \in Message
    BY <1>1, FormedIsMessage, ElementOfSeq
  <2>2. T \subseteq set
    BY <1>7, <2>1
  <2>3. \A x \in 1 .. Len(s) : s[x] \in T
    <3> HIDE DEF s, T
    <3> QED BY <1>2
  <2> HIDE DEF s, T, set
  <2>4. \A x \in 1 .. Len(s) : s[x] \in set
    BY <2>2, <2>3
  <2> QED BY <1>2, <2>4, ThoseAll
<1> QED BY <1>3, <1>6, <1>7

\* The scan keeps what is paired, if it ends there.
LEMMA ForkOfPrefix ==
  ASSUME NEW m \in Seq(Formed), NEW b, PairedUpTo(m, b), NEW f, Forks(m, f), f[b] = <<>>
  PROVE  f[1] = SubSeq(m, 1, b - 1)
<1> DEFINE n == Len(m)
<1>1. b \in 1 .. n + 1 /\ b \in Nat /\ n \in Nat
  BY DEF PairedUpTo
<1> DEFINE Good == {i \in 1 .. b : (i < b /\ m[i].role = "tool") \/ f[i] = SubSeq(m, i, b - 1)}
<1>2. b \in Good
  <2>1. SubSeq(m, b, b - 1) = <<>>
    BY <1>1, SubSeqEmpty
  <2>2. b \in 1 .. b
    BY <1>1
  <2> QED BY <2>1, <2>2
<1>3. ASSUME NEW i \in 1 .. b, i + 1 .. b \subseteq Good PROVE i \in Good
  <2>1. CASE i = b
    BY <1>2, <2>1
  <2>2. CASE i # b
    <3>1. i \in 1 .. b - 1 /\ i \in 1 .. n /\ i \in Nat /\ i < b
      BY <1>1, <2>2
    <3> SUFFICES ASSUME m[i].role # "tool" PROVE f[i] = SubSeq(m, i, b - 1)
      BY <3>1
    <3>2. PICK e \in i .. b - 1 :
            /\ LastIs(m, i, e) /\ e = i + Len(m[i].calls)
            /\ e + 1 <= Len(m) => m[e + 1].role # "tool"
            /\ {m[j].answers : j \in i + 1 .. e} = Calls(m[i])
      BY <3>1, GroupIsWhole
    <3>3. /\ e \in Nat /\ e \in i .. n /\ e + 1 \in i + 1 .. b /\ e <= b - 1
          /\ i + 1 \in i + 1 .. b
      <4>1. e \in i .. b - 1
        BY <3>2
      <4> HIDE DEF n
      <4> QED BY <1>1, <3>1, <4>1
    <3>4. f[e + 1] = SubSeq(m, e + 1, b - 1)
      <4>1. e + 1 \in Good
        BY <1>3, <3>3
      <4>2. e + 1 < b => e + 1 <= Len(m)
        BY <1>1, <3>3
      <4> QED BY <3>2, <4>1, <4>2
    <3>5. SubSeq(m, i, b - 1) = <<m[i]>> \o SubSeq(m, i + 1, b - 1)
      <4>1. b - 1 \in i .. n
        BY <1>1, <3>1
      <4> QED BY <3>1, <4>1, SubSeqRecursiveFirst
    <3>6. CASE ~ Asks(m[i])
      <4>1. m[i] \in Formed
        BY <3>1, GroupFields
      <4>2. m[i].calls = <<>>
        BY <3>6, <4>1, FormedFields DEF Asks
      <4>3. e = i
        BY <3>1, <3>2, <4>2, EmptySeq
      <4>4. f[i] = <<m[i]>> \o f[i + 1]
        BY <3>1, <3>6 DEF Forks
      <4> QED BY <3>4, <3>5, <4>3, <4>4
    <3>7. CASE Asks(m[i])
      <4>1. LastResult(m, i) = e
        BY <1>1, <3>1, <3>2, LastResultIs
      <4> DEFINE s == SubSeq(m, i + 1, e)
      <4>2. Kept(m, i) = s
        BY <3>1, <3>2, <3>3, <4>1, KeptAnswers
      <4>3. Len(s) = e - i /\ DOMAIN s = 1 .. e - i
            /\ \A x \in 1 .. e - i : s[x] = m[i + x] /\ i + x \in i + 1 .. e
        <5>1. i + 1 \in 1 .. n + 1 /\ e \in (i + 1) - 1 .. n
          <6> HIDE DEF n, s
          <6> QED BY <1>1, <3>1, <3>3
        <5>2. /\ Len(s) = e - (i + 1) + 1
              /\ s \in [1 .. e - (i + 1) + 1 -> Formed]
              /\ \A x \in 1 .. e - (i + 1) + 1 : s[x] = m[i + 1 + x - 1]
          <6>1. \A x \in i + 1 .. e : x \in 1 .. n /\ m[x] \in Formed
            BY <5>1, ElementOfSeq
          <6>2. i + 1 \in Int /\ e \in Int /\ (i + 1 <= e \/ e - (i + 1) + 1 = 0)
            <7> HIDE DEF n, s
            <7> QED BY <3>1, <3>3
          <6>3. /\ s \in Seq(Formed)
                /\ Len(s) = IF i + 1 <= e THEN e - (i + 1) + 1 ELSE 0
                /\ \A x \in 1 .. e - (i + 1) + 1 : s[x] = m[i + 1 + x - 1]
            <7> HIDE DEF n
            <7> QED BY <6>1, <6>2, SubSeqProperties
          <6> HIDE DEF s, n
          <6>4. Len(s) = e - (i + 1) + 1
            BY <6>2, <6>3
          <6> QED BY <6>3, <6>4, LenProperties
        <5>3. e - (i + 1) + 1 = e - i /\ \A x \in 1 .. e - i : i + 1 + x - 1 = i + x /\ i + x \in i + 1 .. e
          <6> HIDE DEF n, s
          <6> QED BY <3>1, <3>3
        <5> HIDE DEF n, s
        <5>4. Len(s) = e - i /\ s \in [1 .. e - i -> Formed]
          BY <5>2, <5>3
        <5> QED BY <5>2, <5>3, <5>4
      <4>4. \A j \in i + 1 .. e : j - i \in 1 .. e - i /\ s[j - i] = m[j]
        BY <3>1, <3>3, <4>3
      <4> HIDE DEF s
      <4>5. AnswersIn(s) = {m[j].answers : j \in i + 1 .. e}
        <5>1. ASSUME NEW x \in 1 .. e - i PROVE s[x].answers \in {m[j].answers : j \in i + 1 .. e}
          BY <4>3
        <5>2. ASSUME NEW j \in i + 1 .. e PROVE m[j].answers \in {s[x].answers : x \in 1 .. e - i}
          BY <4>4
        <5> QED BY <4>3, <5>1, <5>2 DEF AnswersIn
      <4>6. Whole(m, i)
        BY <3>2, <4>2, <4>5 DEF Whole
      <4>7. f[i] = (<<m[i]>> \o s) \o SubSeq(m, e + 1, b - 1)
        BY <3>1, <3>4, <3>7, <4>1, <4>2, <4>6 DEF Forks
      <4>8. s \o SubSeq(m, e + 1, b - 1) = SubSeq(m, i + 1, b - 1)
        <5>1. i + 1 \in 1 .. n + 1 /\ e \in (i + 1) - 1 .. n /\ b - 1 \in e .. n
          BY <1>1, <3>1, <3>3
        <5> QED BY <5>1, ConcatAdjacentSubSeq DEF s
      <4>9. <<m[i]>> \in Seq(Formed) /\ s \in Seq(Formed) /\ SubSeq(m, e + 1, b - 1) \in Seq(Formed)
        <5>1. m[i] \in Formed
          BY <3>1, GroupFields
        <5>2. /\ \A j \in i + 1 .. e : j \in 1 .. n
              /\ \A j \in e + 1 .. b - 1 : j \in 1 .. n
              /\ i + 1 \in Int /\ e \in Int /\ e + 1 \in Int /\ b - 1 \in Int
          BY <1>1, <3>1, <3>3
        <5>3. /\ \A j \in i + 1 .. e : m[j] \in Formed
              /\ \A j \in e + 1 .. b - 1 : m[j] \in Formed
          BY <5>2, ElementOfSeq
        <5>4. s \in Seq(Formed) /\ SubSeq(m, e + 1, b - 1) \in Seq(Formed)
          BY <5>2, <5>3, SubSeqProperties DEF s
        <5> QED BY <5>1, <5>4
      <4>10. (<<m[i]>> \o s) \o SubSeq(m, e + 1, b - 1) = <<m[i]>> \o (s \o SubSeq(m, e + 1, b - 1))
        <5> DEFINE first == <<m[i]>>
                   rest == SubSeq(m, e + 1, b - 1)
        <5>1. first \in Seq(Formed) /\ rest \in Seq(Formed)
          BY <4>9
        <5> HIDE DEF first, rest
        <5>2. s \in Seq(Formed)
          BY <4>9
        <5>3. (first \o s) \o rest = first \o (s \o rest)
          BY <5>1, <5>2
        <5> QED BY <5>3 DEF first, rest
      <4> QED BY <3>5, <4>7, <4>8, <4>10
    <3> QED BY <3>6, <3>7
  <2> QED BY <2>1, <2>2
<1>4. 1 \in Good
  <2> HIDE DEF Good
  <2>1. 1 .. b \subseteq Good
    BY <1>1, <1>3, Backwards
  <2> QED BY <1>1, <2>1
<1>5. ASSUME 1 < b, m[1].role = "tool" PROVE FALSE
  <2> DEFINE s == SubSeq(m, 1, b - 1)
  <2>1. DOMAIN s = 1 .. b - 1 /\ 1 \in 1 .. b - 1 /\ s[1] = m[1] /\ 1 .. 1 - 1 = {}
    BY <1>1, <1>5
  <2>2. Paired(s)
    BY DEF PairedUpTo
  <2> HIDE DEF s
  <2> QED BY <1>5, <2>1, <2>2 DEF Paired
<1> QED BY <1>4, <1>5

-----------------------------------------------------------------------------
(* What subagents and the agents of a team may do (Permissions, ToolAccess,  *)
(* TeamScope)                                                                *)

\* A context as the program makes them, over any rules.
ContextOf(Rule) ==
  [mode : Modes, rules : Seq(Rule), sessionRules : Seq(Rule), confirmer : BOOLEAN]

\* The parent with nobody to ask: what it may do without an answer.
Alone(starter) == IF starter = NoContext THEN NoContext ELSE [starter EXCEPT !.confirmer = FALSE]

\* Registries as create_default_registry makes them: system tools are tools of
\* it, and no alias is the name of a tool.
RegistryInOrder(registry) ==
  /\ registry.system \subseteq ToolNames(registry)
  /\ DOMAIN registry.aliases \cap ToolNames(registry) = {}
  /\ None \notin ToolNames(registry)

\* What a context allows a call without an answer.
AllowedAlone(call, tool, context) ==
  LET rules == context.sessionRules \o context.rules
      matching == Matching(rules, call) IN
  /\ ~ Forbidden(call)
  /\ IF matching # {} THEN rules[First(matching)].action = "allow"
     ELSE \/ context.mode = "permissive"
          \/ context.mode = "default" /\ Risk(call, tool) = "low"

\* With nobody to ask the answer does not matter.
LEMMA NobodyAsked ==
  ASSUME NEW context, context # NoContext, context.confirmer = FALSE,
         NEW call, NEW tool, NEW answer
  PROVE  Evaluate(call, tool, context, answer).allowed <=> AllowedAlone(call, tool, context)
<1> DEFINE rules == context.sessionRules \o context.rules
           matching == Matching(rules, call)
           decision == Evaluate(call, tool, context, answer)
<1>1. \A a, s : Decision(a, s).allowed = a
  BY DEF Decision
<1>2. CASE Forbidden(call)
  <2>1. decision = Decision(FALSE, "limit")
    BY <1>2 DEF Evaluate, LimitsFirst
  <2> QED BY <1>1, <1>2, <2>1 DEF AllowedAlone
<1>3. CASE ~ Forbidden(call) /\ matching # {}
  <2>1. decision = Decision(rules[First(matching)].action = "allow", "rule")
    BY <1>3 DEF Evaluate
  <2> QED BY <1>1, <1>3, <2>1 DEF AllowedAlone
<1>4. CASE ~ Forbidden(call) /\ matching = {} /\ context.mode # "default"
  <2>1. decision = Decision(context.mode = "permissive", "mode")
    BY <1>4 DEF Evaluate
  <2> QED BY <1>1, <1>4, <2>1 DEF AllowedAlone
<1>5. CASE ~ Forbidden(call) /\ matching = {} /\ context.mode = "default"
  <2>1. CASE Risk(call, tool) = "low"
    <3>1. decision = Decision(TRUE, "mode")
      BY <1>5, <2>1 DEF Evaluate
    <3> QED BY <1>1, <1>5, <2>1, <3>1 DEF AllowedAlone
  <2>2. CASE Risk(call, tool) # "low"
    <3>1. decision = Decision(FALSE, "confirmation")
      BY <1>5, <2>2 DEF Evaluate
    <3> QED BY <1>1, <1>5, <2>2, <3>1 DEF AllowedAlone
  <2> QED BY <2>1, <2>2
<1> QED BY <1>2, <1>3, <1>4, <1>5

\* What a subagent inherits allows nothing that its parent would not be allowed
\* without being asked (clone_permission_context, permissions/snapshot.py:15-42).
LEMMA CloneNarrows ==
  ASSUME NEW Rule, NEW starter \in ContextOf(Rule) \cup {NoContext},
         NEW requested \in Modes \cup {"none"}, NEW call, NEW tool, NEW answer,
         Evaluate(call, tool, Clone(starter, requested), answer).allowed
  PROVE  Evaluate(call, tool, Alone(starter), "deny").allowed
<1> DEFINE child == Clone(starter, requested)
<1>1. NoContext.mode \notin Modes
  BY DEF NoContext, Modes
<1>2. CASE starter = NoContext
  BY <1>2 DEF Alone, Evaluate, Decision
<1>3. CASE starter \in ContextOf(Rule)
  <2>1. starter.mode \in Modes /\ starter # NoContext
    BY <1>1, <1>3 DEF ContextOf
  <2>2. /\ child.rules = starter.rules /\ child.sessionRules = starter.sessionRules
        /\ child.confirmer = FALSE
        /\ child.mode = IF requested = "none" THEN starter.mode
                        ELSE StricterMode(starter.mode, requested)
    BY <2>1 DEF Clone
  <2>3. /\ child.mode \in Modes
        /\ child.mode = "permissive" => starter.mode = "permissive"
        /\ child.mode = "default" => starter.mode # "strict"
    BY <2>1, <2>2 DEF StricterMode, Strictness, Modes
  <2>4. child # NoContext
    BY <1>1, <2>3
  <2>5. Alone(starter) = [starter EXCEPT !.confirmer = FALSE]
    BY <2>1 DEF Alone
  <2>6. /\ Alone(starter).rules = starter.rules /\ Alone(starter).sessionRules = starter.sessionRules
        /\ Alone(starter).confirmer = FALSE /\ Alone(starter).mode = starter.mode
    BY <1>3, <2>5 DEF ContextOf
  <2>7. Alone(starter) # NoContext
    BY <1>1, <2>1, <2>6
  <2>8. AllowedAlone(call, tool, child)
    <3> HIDE DEF child
    <3> QED BY <2>2, <2>4, NobodyAsked DEF child
  <2>9. AllowedAlone(call, tool, Alone(starter))
    <3> HIDE DEF child
    <3> QED BY <2>1, <2>2, <2>3, <2>6, <2>8 DEF AllowedAlone, Modes
  <2> QED BY <2>6, <2>7, <2>9, NobodyAsked
<1> QED BY <1>2, <1>3

\* A registry cut down to some of its own tools knows a call's tool by the same
\* name, keeps its record and its standing (ToolRegistry.clone, resolve_name).
LEMMA CloneResolves ==
  ASSUME NEW registry, RegistryInOrder(registry), NEW names, NEW name,
         ResolveName(CloneRegistry(registry, names), name) # None
  PROVE  LET clone == CloneRegistry(registry, names)
             tool == ResolveName(registry, name) IN
         /\ ResolveName(clone, name) = tool /\ tool # None
         /\ tool \in ToolNames(registry) \cap names
         /\ clone.tools[tool] = registry.tools[tool]
         /\ tool \in clone.system <=> tool \in registry.system
<1> DEFINE clone == CloneRegistry(registry, names)
           kept == ToolNames(registry) \cap names
<1>1. /\ clone.tools = [n \in kept |-> registry.tools[n]]
      /\ clone.aliases = [a \in {b \in DOMAIN registry.aliases : registry.aliases[b] \in kept} |->
                           registry.aliases[a]]
      /\ clone.system = registry.system \cap kept
  BY DEF CloneRegistry
<1>2. ToolNames(clone) = kept /\ \A n \in kept : clone.tools[n] = registry.tools[n]
  BY <1>1 DEF ToolNames
<1>3. /\ DOMAIN clone.aliases = {b \in DOMAIN registry.aliases : registry.aliases[b] \in kept}
      /\ \A a \in DOMAIN clone.aliases : clone.aliases[a] = registry.aliases[a]
  BY <1>1
<1> HIDE DEF clone
<1>4. ResolveName(clone, name) = ResolveName(registry, name) /\ ResolveName(clone, name) \in kept
  <2>1. ResolveName(clone, name) # None
    BY DEF clone
  <2>2. CASE name \in kept
    BY <1>2, <2>2 DEF ResolveName
  <2>3. CASE name \notin kept
    <3>1. /\ name \in DOMAIN clone.aliases /\ clone.aliases[name] \in kept
          /\ ResolveName(clone, name) = clone.aliases[name]
      BY <1>2, <2>1, <2>3 DEF ResolveName
    <3>2. name \in DOMAIN registry.aliases /\ registry.aliases[name] \in kept
          /\ clone.aliases[name] = registry.aliases[name]
      BY <1>3, <3>1
    <3>3. name \notin ToolNames(registry)
      BY <3>2 DEF RegistryInOrder
    <3> QED BY <3>1, <3>2, <3>3 DEF ResolveName
  <2> QED BY <2>2, <2>3
<1>5. None \notin kept
  BY DEF RegistryInOrder
<1> QED BY <1>1, <1>2, <1>4, <1>5 DEF clone

\* A call that a subagent runs: with the tools and the permissions it is left.
RunsAsChild(registry, visible, definition, inBackground, backgroundAllowed, mode, starter,
            call, answer) ==
  LET names == SubagentTools(registry, visible, definition, inBackground, backgroundAllowed, mode)
  IN CallOutcome(ChildRegistry(registry, names), call, Clone(starter, definition.permission),
                 mode, FALSE, answer) = "ran"

\* Its tool is one its parent was shown, not forbidden, one its role allows
\* and, in the background, one allowed there; and the parent would run it too,
\* without asking.
RunsNoMore(registry, visible, definition, inBackground, backgroundAllowed, mode, starter, call) ==
  LET tool == ResolveName(registry, call.name) IN
  /\ tool \in NormalizeNames(registry, visible)
  /\ tool \notin NormalizeNames(registry, GlobalForbidden)
  /\ definition # NoDefinition =>
       /\ tool \in NormalizeNames(registry, ToSet(definition.allowed))
       /\ tool \notin NormalizeNames(registry, ToSet(definition.denied))
  /\ inBackground => tool \in NormalizeNames(registry, backgroundAllowed)
  /\ CallOutcome(registry, call, Alone(starter), mode, FALSE, "deny") = "ran"

(* A subagent runs no call whose tool its parent was not shown, no subagent  *)
(* may be given, or its role does not allow or denies, and none that the     *)
(* parent itself would have had to ask about or been refused, in any         *)
(* registry, under any rules and whatever its role asks for                  *)
(* (subagents/filtering.py:21-45, permissions/snapshot.py:15-42).            *)
THEOREM SubagentsAreNarrower ==
  ASSUME NEW registry, RegistryInOrder(registry),
         NEW visible, NEW definition, NEW inBackground, NEW backgroundAllowed, NEW mode,
         definition.permission \in Modes \cup {"none"},
         NEW Rule, NEW starter \in ContextOf(Rule) \cup {NoContext}, NEW call, NEW answer,
         RunsAsChild(registry, visible, definition, inBackground, backgroundAllowed, mode,
                     starter, call, answer)
  PROVE  RunsNoMore(registry, visible, definition, inBackground, backgroundAllowed, mode,
                    starter, call)
<1> DEFINE names == SubagentTools(registry, visible, definition, inBackground,
                                  backgroundAllowed, mode)
           child == ChildRegistry(registry, names)
           context == Clone(starter, definition.permission)
           tool == ResolveName(registry, call.name)
<1>1. ~ PlanDenies(child, call, mode) /\ Execute(child, call, context, answer) = "ran"
  BY DEF CallOutcome, RunsAsChild
<1> HIDE DEF context, names
<1>2. /\ ResolveName(child, call.name) # None /\ call.isObject
      /\ \/ ResolveName(child, call.name) \in child.system
         \/ Evaluate(call, child.tools[ResolveName(child, call.name)], context, answer).allowed
  BY <1>1 DEF Execute
<1>3. /\ ResolveName(child, call.name) = tool /\ tool # None
      /\ tool \in ToolNames(registry) \cap names
      /\ child.tools[tool] = registry.tools[tool]
      /\ tool \in child.system <=> tool \in registry.system
  BY <1>2, CloneResolves DEF ChildRegistry
<1> HIDE DEF child
<1>4. tool \in registry.system \/ Evaluate(call, registry.tools[tool], Alone(starter), "deny").allowed
  BY <1>2, <1>3, CloneNarrows DEF context
<1>5. ~ PlanDenies(registry, call, mode)
  BY <1>1, <1>3 DEF PlanDenies
<1>6. Execute(registry, call, Alone(starter), "deny") = "ran"
  BY <1>2, <1>3, <1>4 DEF Execute
<1>7. CallOutcome(registry, call, Alone(starter), mode, FALSE, "deny") = "ran"
  BY <1>5, <1>6 DEF CallOutcome
<1> QED BY <1>3, <1>7 DEF names, SubagentTools, AllButForbidden, RunsNoMore

\* A call that is in the place of an agent.  One it makes itself has a tool its
\* scope and its role leave it, and has side effects only when its last plan
\* allows; one through a skill is no member's and starts no agent.  Either is
\* one that the permissions allow.
InItsPlace(registry, identity, through, call, context, answer) ==
  LET tool == ResolveName(registry, call.name) IN
  /\ tool \in ToolNames(registry)
  /\ identity.scope = "member" =>
       /\ through = "itself"
       /\ tool \notin {"Agent", "Skill", "Team", "TeamPlanDecision", "TeamIntegrate"}
       /\ tool = "TeamTask" => call.action \in MemberActions
  /\ through = "itself" =>
       /\ identity.gated /\ tool \notin MemberTools /\ registry.tools[tool].sideEffect =>
            identity.plans # <<>> /\ Last(identity.plans) = "allowed"
       /\ tool \notin MemberTools =>
            /\ \A wanted \in identity.role.allowed : tool \in NormalizeNames(registry, wanted)
            /\ tool \notin NormalizeNames(registry, identity.role.denied)
       /\ identity.coordinator =>
            /\ tool \notin {"Write", "Edit"}
            /\ tool = "Bash" =>
                 ~ call.command.chained /\ (call.command.git \in GitReads \/ call.command.abort)
       /\ identity.scope = "main" => tool \notin TeamTools \ {"Team"}
  /\ identity.scope = "lead" \/ through # "itself" => tool # "Agent"
  /\ tool \in registry.system \cup {"Skill"}
     \/ Evaluate(call, registry.tools[tool], context, answer).allowed

LEMMA OwnCallsAreInPlace ==
  ASSUME NEW registry, RegistryInOrder(registry), NEW identity, NEW call, NEW context,
         NEW mode, NEW answer,
         ScopedOutcome(registry, identity, call, context, mode, answer) = "ran"
  PROVE  InItsPlace(registry, identity, "itself", call, context, answer)
<1> DEFINE names == Visible(registry, identity)
           scoped == ScopedRegistry(registry, identity)
           tool == ResolveName(registry, call.name)
<1>1. /\ CallOutcome(scoped, call, context, mode, FALSE, answer) = "ran"
      /\ RunScoped(identity, tool, call) = "ran"
  BY DEF ScopedOutcome
<1> HIDE DEF names
<1>2. Execute(scoped, call, context, answer) = "ran"
  BY <1>1 DEF CallOutcome
<1>3. /\ ResolveName(scoped, call.name) # None
      /\ \/ ResolveName(scoped, call.name) \in scoped.system
         \/ Evaluate(call, scoped.tools[ResolveName(scoped, call.name)], context, answer).allowed
  BY <1>2 DEF Execute
<1>4. /\ ResolveName(scoped, call.name) = tool
      /\ tool \in ToolNames(registry) \cap names
      /\ scoped.tools[tool] = registry.tools[tool]
      /\ tool \in scoped.system <=> tool \in registry.system
  BY <1>3, CloneResolves DEF ScopedRegistry, names
<1> HIDE DEF scoped, tool
<1>5. /\ tool \in ScopeNames(registry, identity)
      /\ AllowsSideEffect(identity) \/ tool \in MemberTools \/ ~ HasSideEffect(registry, tool)
      /\ ~ (identity.coordinator /\ tool \in {"Write", "Edit"})
      /\ tool \in MemberTools \/
           /\ \A wanted \in identity.role.allowed : tool \in NormalizeNames(registry, wanted)
           /\ tool \notin NormalizeNames(registry, identity.role.denied)
  BY <1>4 DEF names, Visible, RoleLeaves
<1>6. identity.scope = "member" =>
        tool \notin {"Agent", "Skill", "Team", "TeamPlanDecision", "TeamIntegrate"}
  BY <1>5 DEF ScopeNames, TeamTools, MemberTools
<1>7. identity.scope = "lead" => tool # "Agent"
  BY <1>5 DEF ScopeNames, LeadTools, TeamTools
<1>8. identity.scope = "main" => tool \notin TeamTools \ {"Team"}
  BY <1>5 DEF ScopeNames
<1>9. identity.gated /\ tool \notin MemberTools /\ registry.tools[tool].sideEffect =>
        identity.plans # <<>> /\ Last(identity.plans) = "allowed"
  BY <1>5 DEF AllowsSideEffect, HasSideEffect
<1>10. identity.scope = "member" /\ tool = "TeamTask" => call.action \in MemberActions
  BY <1>1 DEF RunScoped
<1>11. identity.coordinator /\ tool = "Bash" =>
         ~ call.command.chained /\ (call.command.git \in GitReads \/ call.command.abort)
  BY <1>1 DEF RunScoped, CoordinatorMayRun
<1>12. tool \in registry.system \/ Evaluate(call, registry.tools[tool], context, answer).allowed
  BY <1>3, <1>4
<1> QED BY <1>4, <1>5, <1>6, <1>7, <1>8, <1>9, <1>10, <1>11, <1>12 DEF tool, InItsPlace

\* The registry of a skill's run: the tools behind the scope but for Agent.
LEMMA SkillRegistryResolves ==
  ASSUME NEW registry, RegistryInOrder(registry), "Skill" \in ToolNames(registry), NEW name,
         ResolveName(SkillRegistry(registry), name) # None
  PROVE  LET run == SkillRegistry(registry)
             tool == ResolveName(registry, name) IN
         /\ ResolveName(run, name) = tool /\ tool \in ToolNames(registry) \ {"Agent"}
         /\ tool # "Skill" => run.tools[tool] = registry.tools[tool]
         /\ tool # "Skill" /\ tool \in run.system => tool \in registry.system
<1> DEFINE names == ToolNames(registry) \ {"Skill", "Agent"}
           clone == CloneRegistry(registry, names)
           run == SkillRegistry(registry)
<1>1. run = [clone EXCEPT
               !.tools = [n \in ToolNames(clone) \cup {"Skill"} |->
                            IF n = "Skill" THEN OwnSkill ELSE clone.tools[n]],
               !.system = @ \cup {"Skill"}]
  BY DEF SkillRegistry, Register
<1>2. clone = [tools |-> clone.tools, aliases |-> clone.aliases, system |-> clone.system]
  BY DEF CloneRegistry
<1>3. ToolNames(clone) = names /\ DOMAIN clone.aliases \subseteq DOMAIN registry.aliases
      /\ clone.system \subseteq registry.system
      /\ \A n \in names : clone.tools[n] = registry.tools[n]
  BY DEF CloneRegistry, ToolNames
<1> HIDE DEF clone, run, names
<1>4. /\ run.tools = [n \in ToolNames(clone) \cup {"Skill"} |->
                         IF n = "Skill" THEN OwnSkill ELSE clone.tools[n]]
      /\ run.aliases = clone.aliases /\ run.system = clone.system \cup {"Skill"}
  BY <1>1, <1>2
<1>5. /\ ToolNames(run) = names \cup {"Skill"}
      /\ \A n \in names : run.tools[n] = registry.tools[n]
  <2>1. "Skill" \notin names
    BY DEF names
  <2> QED BY <1>3, <1>4, <2>1 DEF ToolNames
<1>6. CASE name \in ToolNames(run)
  <2>1. ResolveName(run, name) = name /\ name \in ToolNames(registry) \ {"Agent"}
    BY <1>5, <1>6 DEF ResolveName, names
  <2>2. ResolveName(registry, name) = name
    BY <2>1 DEF ResolveName
  <2>3. name # "Skill" => name \in names /\ (name \in run.system => name \in registry.system)
    BY <1>3, <1>4, <1>5, <1>6
  <2> QED BY <1>5, <2>1, <2>2, <2>3 DEF run
<1>7. CASE name \notin ToolNames(run)
  <2>1. /\ name \in DOMAIN clone.aliases /\ ResolveName(run, name) = clone.aliases[name]
        /\ clone.aliases[name] \in names \cup {"Skill"}
    <3>1. ResolveName(run, name) # None
      BY DEF run
    <3> QED BY <1>4, <1>5, <1>7, <3>1 DEF ResolveName
  <2>2. ResolveName(clone, name) = clone.aliases[name] /\ clone.aliases[name] \in names
    <3>1. clone.aliases[name] \in names
      BY <2>1 DEF clone, CloneRegistry, names
    <3> QED BY <1>3, <1>5, <1>7, <2>1, <3>1 DEF ResolveName
  <2>3. ResolveName(clone, name) # None
    BY <2>2 DEF RegistryInOrder, names
  <2>4. ResolveName(clone, name) = ResolveName(registry, name)
    BY <2>3, CloneResolves DEF clone
  <2>5. ResolveName(registry, name) \in names /\ ResolveName(run, name) = ResolveName(registry, name)
    BY <2>1, <2>2, <2>4
  <2>6. ResolveName(registry, name) \in ToolNames(registry) \ {"Agent", "Skill"}
    BY <2>5 DEF names
  <2> QED BY <1>3, <1>4, <1>5, <2>5, <2>6 DEF run
<1> QED BY <1>6, <1>7

(* Every agent of a team keeps to its place, in any registry, under any       *)
(* permissions, and by any way to a call.  A member starts no agent and no    *)
(* skill, so that nothing runs outside its scope for it; it leads nothing,    *)
(* uses beyond talking to the team only what its role leaves it, and what     *)
(* has side effects only while its last plan is allowed.  A coordinator comes *)
(* to no agent, and itself neither writes nor chains commands or runs one     *)
(* that is not of git; only an isolated skill does that for it.  Who has no   *)
(* team uses none itself, and what the permissions refuse runs in no way      *)
(* (teams/scoping.py:17-141, skills/runner.py:84-108).                        *)
THEOREM TeamAgentsKeepTheirPlaces ==
  ASSUME NEW registry, RegistryInOrder(registry), NEW identity, NEW through, NEW call,
         NEW context, NEW mode, NEW answer,
         Outcome(registry, identity, through, call, context, mode, answer) = "ran"
  PROVE  InItsPlace(registry, identity, through, call, context, answer)
<1>1. CASE through = "itself"
  BY <1>1, OwnCallsAreInPlace DEF Outcome
<1>2. CASE through # "itself"
  <2> DEFINE run == SkillRegistry(registry)
             tool == ResolveName(registry, call.name)
  <2>1. /\ "Skill" \in Visible(registry, identity)
        /\ SkillRunOutcome(registry, call, context, mode, answer) = "ran"
    BY <1>2 DEF Outcome
  <2>2. "Skill" \in ScopeNames(registry, identity)
    BY <2>1 DEF Visible, RoleLeaves
  <2>3. identity.scope # "member"
    BY <2>2 DEF ScopeNames, MemberTools
  <2>4. "Skill" \in ToolNames(registry)
    BY <2>2 DEF ScopeNames, LeadTools, MemberTools, TeamTools
  <2>5. Execute(run, call, context, answer) = "ran"
    <3>1. CallOutcome(run, call, context, mode, FALSE, answer) = "ran"
      BY <2>1 DEF SkillRunOutcome, TeamToolRuns
    <3> QED BY <3>1 DEF CallOutcome
  <2> HIDE DEF run
  <2>6. /\ ResolveName(run, call.name) # None
        /\ \/ ResolveName(run, call.name) \in run.system
           \/ Evaluate(call, run.tools[ResolveName(run, call.name)], context, answer).allowed
    BY <2>5 DEF Execute
  <2>7. /\ ResolveName(run, call.name) = tool /\ tool \in ToolNames(registry) \ {"Agent"}
        /\ tool # "Skill" => run.tools[tool] = registry.tools[tool]
        /\ tool # "Skill" /\ tool \in run.system => tool \in registry.system
    BY <2>4, <2>6, SkillRegistryResolves DEF run
  <2> QED BY <1>2, <2>3, <2>6, <2>7 DEF InItsPlace
<1> QED BY <1>1, <1>2

-----------------------------------------------------------------------------
(* The recovery, in MCAlgorithms *)

LEMMA MaxIs ==
  ASSUME NEW S \in SUBSET Int, NEW e \in S, \A n \in S : e >= n
  PROVE  Max(S) = e
<1>1. Max(S) \in S /\ \A n \in S : Max(S) >= n
  <2>1. \E x : x \in S /\ \A n \in S : x >= n
    OBVIOUS
  <2>2. Max(S) = CHOOSE x : x \in S /\ \A n \in S : x >= n
    BY DEF Max
  <2> QED BY <2>1, <2>2
<1>2. Max(S) \in Int /\ e \in Int /\ Max(S) >= e /\ e >= Max(S)
  BY <1>1
<1> QED BY <1>2

LEMMA LinesAreMessages == ReadableLines \subseteq Message
<1>1. CallLists \subseteq Seq(Call)
  <2>1. \A c \in Call : <<c>> \in Seq(Call)
    OBVIOUS
  <2>2. \A c, d \in Call : <<c, d>> \in Seq(Call)
    OBVIOUS
  <2>3. <<>> \in Seq(Call)
    BY EmptySeq
  <2>4. ASSUME NEW s \in CallLists
        PROVE  s = <<>> \/ (\E c \in Call : s = <<c>>) \/ (\E c, d \in Call : s = <<c, d>>)
    BY DEF CallLists
  <2> QED BY <2>1, <2>2, <2>3, <2>4
<1>2. ReadableLines \subseteq Formed
  BY <1>1 DEF ReadableLines, Formed
<1> QED BY <1>2, FormedIsMessage

ArchiveType == archive \in Seq(ReadableLines)

LEMMA ArchiveTypeInvariant == AlgorithmsSpec => []ArchiveType
<1>1. AlgorithmsInit => ArchiveType
  BY EmptySeq DEF AlgorithmsInit, RecoveryInit, ArchiveType
<1>2. ArchiveType /\ [AlgorithmsNext]_algorithmVars => ArchiveType'
  <2> SUFFICES ASSUME ArchiveType, [AlgorithmsNext]_algorithmVars PROVE ArchiveType'
    OBVIOUS
  <2>1. CASE RecoveryNext
    BY <2>1 DEF RecoveryNext, ArchiveType
  <2>2. CASE UNCHANGED archive
    BY <2>2 DEF ArchiveType
  <2> QED BY <2>1, <2>2 DEF AlgorithmsNext, algorithmVars
<1> QED BY <1>1, <1>2, PTL DEF AlgorithmsSpec

(* What a resume restores is the longest part of the archive that is in     *)
(* order, for archives of any length (recover_safe_messages,                *)
(* recovery.py:6-36).                                                       *)
THEOREM RecoveryIsLongestTheorem == AlgorithmsSpec => []RecoveryIsLongest
<1>1. ArchiveType => RecoveryIsLongest
  <2> SUFFICES ASSUME ArchiveType
               PROVE  SafeMessages(archive) =
                        SubSeq(archive, 1, Max({n \in 0 .. Len(archive) : InOrder(SubSeq(archive, 1, n))}))
    BY DEF RecoveryIsLongest
  <2> DEFINE safe == {n \in 0 .. Len(archive) : InOrder(SubSeq(archive, 1, n))}
  <2>1. archive \in Seq(Message)
    BY LinesAreMessages, SeqMonotonic DEF ArchiveType
  <2>2. PICK e \in 0 .. Len(archive) :
           /\ SafeMessages(archive) = SubSeq(archive, 1, e) /\ InOrder(SubSeq(archive, 1, e))
           /\ \A n \in 0 .. Len(archive) : InOrder(SubSeq(archive, 1, n)) => n <= e
    BY <2>1, RecoveryScanIsLongest
  <2>3. e \in safe /\ \A n \in safe : e >= n
    BY <2>2
  <2>4. safe \subseteq Int
    OBVIOUS
  <2> HIDE DEF safe
  <2>5. Max(safe) = e
    BY <2>3, <2>4, MaxIs
  <2> QED BY <2>2, <2>5 DEF safe
<1> QED BY <1>1, ArchiveTypeInvariant, PTL

-----------------------------------------------------------------------------
(* Subagents, in MCAlgorithms *)

InputType ==
  /\ topic = "access" => input \in AccessInputs
  /\ topic = "team" => input \in TeamInputs
  /\ topic = "files" => input \in FileInputs
  /\ topic = "history" => input \in HistoryInputs

LEMMA InputTypeInvariant == AlgorithmsSpec => []InputType
<1>1. AlgorithmsInit => InputType
  BY DEF AlgorithmsInit, InputType
<1>2. InputType /\ [AlgorithmsNext]_algorithmVars => InputType'
  BY DEF InputType, AlgorithmsNext, algorithmVars
<1> QED BY <1>1, <1>2, PTL DEF AlgorithmsSpec

\* Of several definitions of one name the latest layer's is used
\* (AgentCatalog.initialize, subagents/catalog.py).
LEMMA LatestLayerWins ==
  ASSUME NEW layers, NEW n \in DOMAIN layers, DOMAIN layers \subseteq Nat,
         LayerAccepted(layers[n]), NEW i \in ReadableIn(layers[n]),
         \A j \in DOMAIN layers : layers[n][i].name \in DOMAIN LayerFunction(layers[j]) => j <= n
  PROVE  MergeLayers(layers)[layers[n][i].name] = layers[n][i]
<1> DEFINE name == layers[n][i].name
           read == [j \in DOMAIN layers |-> LayerFunction(layers[j])]
           Having(w) == {j \in DOMAIN layers : w \in DOMAIN read[j]}
           latest == CHOOSE j \in Having(name) : \A k \in Having(name) : k <= j
<1>1. /\ name \in DOMAIN LayerFunction(layers[n])
      /\ LayerFunction(layers[n])[name] = layers[n][i]
  <2> DEFINE layer == layers[n]
             R == ReadableIn(layer)
             at == CHOOSE k \in R : layer[k].name = name
  <2>1. i \in R /\ layer[i].name = name
    OBVIOUS
  <2>2. at \in R /\ layer[at].name = name
    <3> HIDE DEF R, layer, name
    <3> QED BY <2>1
  <2>3. at = i
    BY <2>1, <2>2 DEF LayerAccepted
  <2>4. name \in {layer[k].name : k \in R}
    BY <2>1
  <2>5. LayerFunction(layer) = [m \in {layer[k].name : k \in R} |->
                                  layer[CHOOSE k \in R : layer[k].name = m]]
    BY DEF LayerFunction
  <2>6. LayerFunction(layer)[name] = layer[at]
    <3> HIDE DEF R, layer, name
    <3> QED BY <2>4, <2>5
  <2>7. name \in DOMAIN LayerFunction(layer)
    <3> HIDE DEF R, layer, name
    <3> QED BY <2>4, <2>5
  <2> QED BY <2>3, <2>6, <2>7
<1> HIDE DEF name
<1>2. n \in Having(name) /\ \A k \in Having(name) : k <= n
  BY <1>1 DEF name
<1>3. latest = n
  <2>1. Having(name) \subseteq Nat
    OBVIOUS
  <2> HIDE DEF Having
  <2>2. latest \in Having(name) /\ \A k \in Having(name) : k <= latest
    BY <1>2
  <2>3. latest \in Nat /\ n \in Nat /\ latest <= n /\ n <= latest
    BY <1>2, <2>1, <2>2
  <2> HIDE DEF latest
  <2> QED BY <2>3
<1>4. name \in UNION {DOMAIN read[j] : j \in DOMAIN layers}
  BY <1>1
<1>5. MergeLayers(layers) = [w \in UNION {DOMAIN read[j] : j \in DOMAIN layers} |->
                               read[CHOOSE j \in Having(w) : \A k \in Having(w) : k <= j][w]]
  BY DEF MergeLayers
<1>6. MergeLayers(layers)[name] = read[latest][name]
  <2> HIDE DEF read, Having
  <2> QED BY <1>4, <1>5
<1> QED BY <1>1, <1>3, <1>6 DEF name

LEMMA TheLayersMerge ==
  ASSUME NEW layers \in Layers, layers # <<>>, LayerAccepted(layers[2])
  PROVE  /\ MergeLayers(layers)["role"] = Last(layers)[1]
         /\ Last(layers)[1].permission \in Modes
<1>1. PICK permission \in Modes, denied \in {<<>>, <<"Bash">>}, iterations \in {50, 51} :
        layers = <<BuiltinLayer, <<Role(permission, denied, iterations)>>>>
  BY DEF Layers
<1> DEFINE role == Role(permission, denied, iterations)
           top == <<role>>
<1>2. role.name = "role" /\ role.readable = TRUE /\ role.permission = permission
  BY DEF Role
<1>3. layers = <<BuiltinLayer, top>>
  BY <1>1
<1> HIDE DEF role
<1>4. DOMAIN top = {1} /\ top[1] = role
  OBVIOUS
<1> HIDE DEF top
<1>5. DOMAIN layers = 1 .. 2 /\ layers[2] = top /\ Last(layers) = top /\ 2 \in DOMAIN layers
  BY <1>3 DEF Last
<1>6. 1 \in ReadableIn(layers[2]) /\ layers[2][1] = role
  BY <1>2, <1>4, <1>5 DEF ReadableIn
<1>7. MergeLayers(layers)["role"] = role
  <2>1. \A j \in DOMAIN layers : layers[2][1].name \in DOMAIN LayerFunction(layers[j]) => j <= 2
    BY <1>5
  <2>2. DOMAIN layers \subseteq Nat
    BY <1>5
  <2>3. MergeLayers(layers)[layers[2][1].name] = layers[2][1]
    BY <1>5, <1>6, <2>1, <2>2, LatestLayerWins
  <2> QED BY <1>2, <1>6, <2>3
<1> QED BY <1>2, <1>4, <1>5, <1>7

LEMMA NormalizedAreTools ==
  ASSUME NEW registry, NEW names
  PROVE  /\ NormalizeNames(registry, names) \subseteq ToolNames(registry)
         /\ \A n \in names : n \in ToolNames(registry) /\ n # None =>
              n \in NormalizeNames(registry, names)
BY DEF NormalizeNames, ResolveName

LEMMA TheRegistryInOrder == RegistryInOrder(TheRegistry)
<1>1. /\ DOMAIN TheRegistry.tools = {"Find", "Write", "Bash", "Agent"}
      /\ DOMAIN TheRegistry.aliases = {"Glob"} /\ TheRegistry.system = {"Agent"}
  BY DEF TheRegistry
<1> HIDE DEF TheRegistry
<1> QED BY <1>1 DEF RegistryInOrder, ToolNames, None

TheRule1 == {TheRule(t, p, a) : t \in {"Write", "Bash", "Glob", "Find"}, p \in {Plain, Star},
                                a \in {"allow", "deny"}}

LEMMA TheRulesAreRules == TheRules \subseteq Seq(TheRule1)
<1>1. \A r \in TheRule1 : <<r>> \in Seq(TheRule1)
  OBVIOUS
<1>2. \A r, s \in TheRule1 : <<r, s>> \in Seq(TheRule1)
  OBVIOUS
<1>3. /\ TheRule("Write", Plain, "allow") \in TheRule1 /\ TheRule("Bash", Star, "deny") \in TheRule1
      /\ TheRule("Glob", Plain, "deny") \in TheRule1 /\ TheRule("Find", Star, "allow") \in TheRule1
  BY DEF TheRule1
<1>4. <<>> \in Seq(TheRule1)
  BY EmptySeq
<1> QED BY <1>1, <1>2, <1>3, <1>4 DEF TheRules

(* What a subagent inherits only narrows, for every role, context and call  *)
(* of the bounded family, at whatever moment it is asked                     *)
(* (subagents/filtering.py:21-45, permissions/snapshot.py:15-42).            *)
THEOREM ChildRunsLessThanParentTheorem == AlgorithmsSpec => []ChildRunsLessThanParent
<1>1. InputType => ChildRunsLessThanParent
  <2> DEFINE call == input.call
             definition == IF input.layers = <<>> THEN NoDefinition
                           ELSE MergeLayers(input.layers)["role"]
             names == SubagentTools(TheRegistry, input.visible, definition,
                                    input.background, {"Find", "Bash"}, input.mode)
             registry == ChildRegistry(TheRegistry, names)
             child == Clone(input.parent, definition.permission)
             parent == IF input.parent = NoContext THEN NoContext
                       ELSE [input.parent EXCEPT !.confirmer = FALSE]
             tool == ResolveName(TheRegistry, call.name)
  <2> SUFFICES ASSUME input \in AccessInputs,
                      CatalogAccepted(input.layers, TheRegistry, {"Find", "Bash"}, {}),
                      CallOutcome(registry, call, child, input.mode, FALSE, "once") = "ran"
               PROVE  /\ tool \in NormalizeNames(TheRegistry, input.visible) \ GlobalForbidden
                      /\ input.layers # <<>> => tool \notin ToSet(Last(input.layers)[1].denied)
                      /\ CallOutcome(TheRegistry, call, parent, input.mode, FALSE, "deny") = "ran"
    BY DEF InputType, ChildRunsLessThanParent
  <2>1. input.layers \in Layers /\ input.parent \in Contexts
    BY DEF AccessInputs
  <2>2. input.parent \in ContextOf(TheRule1) \cup {NoContext}
    BY <2>1, TheRulesAreRules DEF Contexts, ContextOf
  <2>3. input.layers # <<>> =>
          /\ definition = Last(input.layers)[1] /\ definition.permission \in Modes
    <3> SUFFICES ASSUME input.layers # <<>>
                 PROVE  definition = Last(input.layers)[1] /\ definition.permission \in Modes
      OBVIOUS
    <3>1. 2 \in DOMAIN input.layers
      BY <2>1 DEF Layers
    <3>2. LayerAccepted(input.layers[2])
      BY <3>1 DEF CatalogAccepted
    <3> QED BY <2>1, <3>2, TheLayersMerge
  <2>4. input.layers = <<>> => definition = NoDefinition /\ definition.permission = "none"
    BY DEF NoDefinition
  <2>5. parent = Alone(input.parent)
    BY DEF Alone
  <2>6. RunsAsChild(TheRegistry, input.visible, definition, input.background, {"Find", "Bash"},
                    input.mode, input.parent, call, "once")
    BY DEF RunsAsChild
  <2>7. definition.permission \in Modes \cup {"none"}
    BY <2>3, <2>4
  <2> HIDE DEF call, definition, names, registry, child, parent, tool
  <2>8. /\ tool \in NormalizeNames(TheRegistry, input.visible)
        /\ tool \notin NormalizeNames(TheRegistry, GlobalForbidden)
        /\ definition # NoDefinition => tool \notin NormalizeNames(TheRegistry, ToSet(definition.denied))
        /\ CallOutcome(TheRegistry, call, Alone(input.parent), input.mode, FALSE, "deny") = "ran"
    <3>1. RunsNoMore(TheRegistry, input.visible, definition, input.background, {"Find", "Bash"},
                     input.mode, input.parent, call)
      BY <2>2, <2>6, <2>7, TheRegistryInOrder, SubagentsAreNarrower
    <3> QED BY <3>1 DEF tool, RunsNoMore
  <2>9. tool \in ToolNames(TheRegistry) /\ tool # None
    BY <2>8, NormalizedAreTools, TheRegistryInOrder DEF RegistryInOrder
  <2>10. tool \notin GlobalForbidden
    BY <2>8, <2>9, NormalizedAreTools
  <2>11. input.layers # <<>> => tool \notin ToSet(Last(input.layers)[1].denied)
    <3> SUFFICES ASSUME input.layers # <<>>, tool \in ToSet(definition.denied) PROVE FALSE
      BY <2>3
    <3>1. definition # NoDefinition
      <4>1. NoDefinition.permission \notin Modes
        BY DEF NoDefinition, Modes
      <4> QED BY <2>3, <4>1
    <3> QED BY <2>8, <2>9, <3>1, NormalizedAreTools
  <2> QED BY <2>5, <2>8, <2>10, <2>11
<1> QED BY <1>1, InputTypeInvariant, PTL

-----------------------------------------------------------------------------
(* What the files of rules hold (Permissions)                                *)

\* A recursion along 1 .. n whose step stays in S.
Recurs(n, base, step, f) == f[0] = base /\ \A i \in 1 .. n : f[i] = step[<<f[i - 1], i>>]

LEMMA ForwardRecursion ==
  ASSUME NEW n \in Nat, NEW S, NEW base \in S, NEW step \in [S \X (1 .. n) -> S]
  PROVE  \E f \in [0 .. n -> S] : Recurs(n, base, step, f)
<1> DEFINE UpTo(f, k) == /\ f \in [0 .. k -> S] /\ f[0] = base
                         /\ \A i \in 1 .. k : f[i] = step[<<f[i - 1], i>>]
           Good == {k \in 0 .. n : \E f : UpTo(f, k)}
<1>1. 0 \in Good
  <2>1. UpTo([i \in 0 .. 0 |-> base], 0)
    OBVIOUS
  <2> HIDE DEF UpTo
  <2> QED BY <2>1
<1>2. ASSUME NEW k \in 0 .. n - 1, k \in Good PROVE k + 1 \in Good
  <2>1. PICK f : UpTo(f, k)
    BY <1>2
  <2>2. /\ k \in Nat /\ k + 1 \in 0 .. n /\ k + 1 \in 1 .. n /\ k \in 0 .. k /\ 0 \in 0 .. k
        /\ k + 1 # 0 /\ (k + 1) - 1 = k /\ 0 .. k + 1 = (0 .. k) \cup {k + 1}
        /\ k + 1 \notin 0 .. k /\ 1 .. k + 1 = (1 .. k) \cup {k + 1}
    OBVIOUS
  <2> DEFINE last == step[<<f[k], k + 1>>]
             g == [i \in 0 .. k + 1 |-> IF i = k + 1 THEN last ELSE f[i]]
  <2>3. last \in S
    BY <2>1, <2>2
  <2>4. /\ g \in [0 .. k + 1 -> S] /\ g[k + 1] = last
        /\ \A i \in 0 .. k : g[i] = f[i]
    <3> HIDE DEF last
    <3> QED BY <2>1, <2>2, <2>3
  <2> HIDE DEF g
  <2>5. ASSUME NEW i \in 1 .. k + 1 PROVE g[i] = step[<<g[i - 1], i>>]
    <3>1. CASE i = k + 1
      BY <2>2, <2>4, <3>1
    <3>2. CASE i \in 1 .. k
      <4>1. i \in 0 .. k /\ i - 1 \in 0 .. k
        BY <2>2, <3>2
      <4>2. g[i] = f[i] /\ g[i - 1] = f[i - 1]
        BY <2>4, <4>1
      <4> QED BY <2>1, <3>2, <4>2
    <3> QED BY <2>2, <3>1, <3>2
  <2>6. UpTo(g, k + 1)
    BY <2>1, <2>2, <2>4, <2>5
  <2> HIDE DEF UpTo
  <2> QED BY <2>2, <2>6
<1>3. n \in Good
  <2> HIDE DEF Good
  <2>1. 0 .. n \subseteq Good
    BY <1>1, <1>2, Forwards
  <2> QED BY <2>1
<1> QED BY <1>3 DEF Recurs

\* Lines and what is read from them, over any rules.
LineOf(Rule) == {ModeLine(mode) : mode \in Modes} \cup {Header, Comment, OtherMap}
                  \cup {RuleLine(rule) : rule \in Rule}
FileOf(Rule) == [mode : Modes, rules : Seq(Rule), open : {"none", "rules", "other"},
                 refused : BOOLEAN]

LEMMA PutRuleKeeps ==
  ASSUME NEW Rule, NEW rules \in Seq(Rule), NEW rule \in Rule
  PROVE  /\ PutRule(rules, rule) \in Seq(Rule)
         /\ rule \in ToSet(PutRule(rules, rule))
         /\ ToSet(PutRule(rules, rule)) \subseteq ToSet(rules) \cup {rule}
<1>1. CASE \E i \in DOMAIN rules : SameKey(rules[i], rule)
  <2> DEFINE put == [i \in DOMAIN rules |-> IF SameKey(rules[i], rule) THEN rule ELSE rules[i]]
  <2>1. PutRule(rules, rule) = put
    BY <1>1 DEF PutRule
  <2>2. DOMAIN rules = 1 .. Len(rules) /\ Len(rules) \in Nat
    OBVIOUS
  <2>3. put \in [1 .. Len(rules) -> Rule]
    BY <2>2
  <2>4. put \in Seq(Rule)
    BY <2>2, <2>3
  <2>5. DOMAIN put = DOMAIN rules
    OBVIOUS
  <2>6. PICK i \in DOMAIN rules : SameKey(rules[i], rule)
    BY <1>1
  <2>7. put[i] = rule
    BY <2>6
  <2>8. \A j \in DOMAIN put : put[j] = rule \/ put[j] = rules[j]
    OBVIOUS
  <2> HIDE DEF put
  <2> QED BY <2>1, <2>4, <2>5, <2>6, <2>7, <2>8 DEF ToSet
<1>2. CASE ~ \E i \in DOMAIN rules : SameKey(rules[i], rule)
  <2>1. PutRule(rules, rule) = Append(rules, rule)
    BY <1>2 DEF PutRule
  <2> QED BY <2>1, AppendAdds
<1> QED BY <1>1, <1>2

LEMMA ReadLineType ==
  ASSUME NEW Rule, NEW file \in FileOf(Rule), NEW line \in LineOf(Rule)
  PROVE  ReadLine(file, line) \in FileOf(Rule)
<1>1. CASE line \in {ModeLine(mode) : mode \in Modes}
  <2>1. PICK mode \in Modes : line = ModeLine(mode)
    BY <1>1
  <2>2. line.kind = "mode" /\ line.mode = mode
    BY <2>1 DEF ModeLine
  <2> QED BY <2>2 DEF ReadLine, FileOf
<1>2. CASE line = Header
  <2>1. line.kind = "header"
    BY <1>2 DEF Header
  <2>2. <<>> \in Seq(Rule)
    BY EmptySeq
  <2> QED BY <2>1, <2>2 DEF ReadLine, FileOf
<1>3. CASE line = Comment
  BY <1>3 DEF Comment, ReadLine
<1>4. CASE line = OtherMap
  BY <1>4 DEF OtherMap, ReadLine, FileOf
<1>5. CASE line \in {RuleLine(rule) : rule \in Rule}
  <2>1. PICK rule \in Rule : line = RuleLine(rule)
    BY <1>5
  <2>2. line.kind = "rule" /\ line.rule = rule
    BY <2>1 DEF RuleLine
  <2>3. PutRule(file.rules, rule) \in Seq(Rule)
    BY PutRuleKeeps DEF FileOf
  <2>4. ReadRule(file, rule) \in FileOf(Rule)
    BY <2>3 DEF ReadRule, FileOf
  <2> QED BY <2>2, <2>4 DEF ReadLine
<1> QED BY <1>1, <1>2, <1>3, <1>4, <1>5 DEF LineOf

\* The file after every line, as ReadFile reads it.
Reads(lines, file) ==
  \A i \in 0 .. Len(lines) :
    file[i] = IF i = 0 THEN Empty ELSE ReadLine(file[i - 1], lines[i])

LEMMA ReadFileIsDefined ==
  ASSUME NEW Rule, NEW lines \in Seq(LineOf(Rule))
  PROVE  \E file : /\ Reads(lines, file) /\ ReadFile(lines) = file[Len(lines)]
                   /\ \A i \in 0 .. Len(lines) : file[i] \in FileOf(Rule)
<1> DEFINE n == Len(lines)
           F == FileOf(Rule)
           Next1(f, i) == IF i = 0 THEN Empty ELSE ReadLine(f[i - 1], lines[i])
           all == CHOOSE f : f = [i \in 0 .. n |-> Next1(f, i)]
           step == [p \in F \X (1 .. n) |-> ReadLine(p[1], lines[p[2]])]
<1>0. n \in Nat
  OBVIOUS
<1>1. Empty \in F
  BY EmptySeq DEF Empty, FileOf, Modes
<1>2. step \in [F \X (1 .. n) -> F]
  <2>1. ASSUME NEW p \in F \X (1 .. n) PROVE ReadLine(p[1], lines[p[2]]) \in F
    <3>1. p[1] \in F /\ lines[p[2]] \in LineOf(Rule)
      OBVIOUS
    <3> QED BY <3>1, ReadLineType
  <2> HIDE DEF F, n
  <2> QED BY <2>1
<1>3. \E f : f = [i \in 0 .. n |-> Next1(f, i)]
  <2>0. PICK f \in [0 .. n -> F] : Recurs(n, Empty, step, f)
    <3> HIDE DEF F, step, n
    <3> QED BY <1>0, <1>1, <1>2, ForwardRecursion
  <2>1. f[0] = Empty /\ \A i \in 1 .. n : f[i] = step[<<f[i - 1], i>>]
    BY <2>0 DEF Recurs
  <2>2. ASSUME NEW i \in 0 .. n PROVE f[i] = Next1(f, i)
    <3>1. CASE i = 0
      BY <2>1, <3>1
    <3>2. CASE i # 0
      <4>1. i \in 1 .. n /\ i - 1 \in 0 .. n
        BY <1>0, <3>2
      <4>2. <<f[i - 1], i>> \in F \X (1 .. n)
        <5> HIDE DEF F
        <5> QED BY <2>0, <4>1
      <4>3. step[<<f[i - 1], i>>] = ReadLine(f[i - 1], lines[i])
        <5> HIDE DEF F, n
        <5> QED BY <4>2
      <4> HIDE DEF step
      <4> QED BY <2>1, <3>2, <4>1, <4>3
    <3> QED BY <3>1, <3>2
  <2> HIDE DEF Next1, F
  <2>3. f = [i \in 0 .. n |-> Next1(f, i)]
    BY <2>0, <2>2
  <2> QED BY <2>3
<1>4. all = [i \in 0 .. n |-> Next1(all, i)]
  <2> HIDE DEF Next1
  <2> QED BY <1>3
<1>5. \A i \in 0 .. n : all[i] = Next1(all, i)
  <2> HIDE DEF all, Next1
  <2> QED BY <1>4
<1>6. ReadFile(lines) = all[n]
  BY DEF ReadFile
<1> HIDE DEF all, step
<1> DEFINE Good == {i \in 0 .. n : all[i] \in F}
<1>7. 0 \in Good
  BY <1>0, <1>1, <1>5
<1>8. ASSUME NEW k \in 0 .. n - 1, k \in Good PROVE k + 1 \in Good
  <2>1. k + 1 \in 0 .. n /\ k + 1 # 0 /\ (k + 1) - 1 = k /\ k + 1 \in 1 .. n
    BY <1>0
  <2>2. all[k + 1] = ReadLine(all[k], lines[k + 1])
    BY <1>5, <2>1
  <2>3. lines[k + 1] \in LineOf(Rule)
    BY <2>1
  <2>4. all[k] \in F
    BY <1>8
  <2>5. ReadLine(all[k], lines[k + 1]) \in F
    BY <2>3, <2>4, ReadLineType
  <2> QED BY <2>1, <2>2, <2>5
<1>9. \A i \in 0 .. n : all[i] \in F
  <2> HIDE DEF Good
  <2>1. 0 .. n \subseteq Good
    BY <1>0, <1>7, <1>8, Forwards
  <2> QED BY <2>1 DEF Good
<1>10. Reads(lines, all)
  BY <1>5 DEF Reads
<1> QED BY <1>6, <1>9, <1>10

LEMMA ReadFileAppend ==
  ASSUME NEW Rule, NEW lines \in Seq(LineOf(Rule)), NEW line \in LineOf(Rule)
  PROVE  ReadFile(Append(lines, line)) = ReadLine(ReadFile(lines), line)
<1> DEFINE n == Len(lines)
           more == Append(lines, line)
<1>1. /\ n \in Nat /\ more \in Seq(LineOf(Rule)) /\ Len(more) = n + 1
      /\ more[n + 1] = line /\ \A i \in 1 .. n : more[i] = lines[i]
  OBVIOUS
<1>2. PICK f : Reads(lines, f) /\ ReadFile(lines) = f[n]
  BY ReadFileIsDefined
<1>3. PICK g : Reads(more, g) /\ ReadFile(more) = g[n + 1]
  <2> HIDE DEF more, n
  <2> QED BY <1>1, ReadFileIsDefined
<1> HIDE DEF more
<1>4. \A i \in 0 .. n : f[i] = IF i = 0 THEN Empty ELSE ReadLine(f[i - 1], lines[i])
  BY <1>2 DEF Reads
<1>5. \A i \in 0 .. n + 1 : g[i] = IF i = 0 THEN Empty ELSE ReadLine(g[i - 1], more[i])
  BY <1>1, <1>3 DEF Reads
<1> DEFINE Same == {i \in 0 .. n : f[i] = g[i]}
<1> HIDE DEF n
<1>6. 0 \in Same
  <2>1. 0 \in 0 .. n /\ 0 \in 0 .. n + 1
    BY <1>1
  <2> QED BY <1>4, <1>5, <2>1
<1>7. ASSUME NEW k \in 0 .. n - 1, k \in Same PROVE k + 1 \in Same
  <2>1. k + 1 \in 0 .. n /\ k + 1 \in 0 .. n + 1 /\ k + 1 # 0 /\ (k + 1) - 1 = k /\ k + 1 \in 1 .. n
    BY <1>1
  <2>2. f[k] = g[k]
    BY <1>7
  <2> QED BY <1>1, <1>4, <1>5, <2>1, <2>2
<1>8. f[n] = g[n]
  <2> HIDE DEF Same
  <2>1. 0 .. n \subseteq Same
    BY <1>1, <1>6, <1>7, Forwards
  <2>2. n \in 0 .. n
    BY <1>1
  <2> QED BY <2>1, <2>2 DEF Same
<1>9. g[n + 1] = ReadLine(g[n], line)
  <2>1. n + 1 \in 0 .. n + 1 /\ n + 1 # 0 /\ (n + 1) - 1 = n
    BY <1>1
  <2> QED BY <1>1, <1>5, <2>1
<1> QED BY <1>2, <1>3, <1>8, <1>9 DEF more

LEMMA ReadFileEmpty == ReadFile(<<>>) = Empty
<1>1. <<>> \in Seq(LineOf({})) /\ Len(<<>>) = 0 /\ 0 \in 0 .. 0
  BY EmptySeq
<1>2. PICK f : Reads(<<>>, f) /\ ReadFile(<<>>) = f[0]
  BY <1>1, ReadFileIsDefined
<1> QED BY <1>1, <1>2 DEF Reads

LEMMA ReadFileType ==
  ASSUME NEW Rule, NEW lines \in Seq(LineOf(Rule))
  PROVE  ReadFile(lines) \in FileOf(Rule)
<1>1. PICK file : /\ ReadFile(lines) = file[Len(lines)]
                  /\ \A i \in 0 .. Len(lines) : file[i] \in FileOf(Rule)
  BY ReadFileIsDefined
<1>2. Len(lines) \in 0 .. Len(lines)
  OBVIOUS
<1> QED BY <1>1, <1>2

\* The rules as they are parsed.
ParsedOf(Rule) == {Parsed(rule) : rule \in Rule}

LEMMA LoadElements ==
  ASSUME NEW Rule, NEW lines \in Seq(LineOf(Rule))
  PROVE  /\ Load(lines).rules \in Seq(ParsedOf(Rule)) /\ Load(lines).mode \in Modes
         /\ ToSet(Load(lines).rules) = {Parsed(rule) : rule \in ToSet(ReadFile(lines).rules)}
         /\ Load(lines).refused <=>
              \/ ReadFile(lines).refused
              \/ \E rule \in ToSet(ReadFile(lines).rules) : Stripped(rule.pattern) = <<>>
<1> DEFINE file == ReadFile(lines)
           parsed == [i \in DOMAIN file.rules |-> Parsed(file.rules[i])]
<1>1. file \in FileOf(Rule)
  BY ReadFileType
<1>2. /\ Load(lines).rules = parsed /\ Load(lines).mode = file.mode
      /\ Load(lines).refused = (file.refused \/
           \E i \in DOMAIN file.rules : Stripped(file.rules[i].pattern) = <<>>)
  BY DEF Load
<1> HIDE DEF file
<1>3. file.rules \in Seq(Rule) /\ file.mode \in Modes /\ file.refused \in BOOLEAN
  BY <1>1 DEF FileOf
<1>4. DOMAIN file.rules = 1 .. Len(file.rules) /\ Len(file.rules) \in Nat
      /\ \A i \in DOMAIN file.rules : file.rules[i] \in Rule
  BY <1>3
<1>5. parsed \in Seq(ParsedOf(Rule))
  <2>1. \A i \in DOMAIN file.rules : Parsed(file.rules[i]) \in ParsedOf(Rule)
    BY <1>4 DEF ParsedOf
  <2>2. parsed \in [1 .. Len(file.rules) -> ParsedOf(Rule)]
    BY <1>4, <2>1
  <2> QED BY <1>4, <2>2
<1>6. ToSet(parsed) = {Parsed(rule) : rule \in ToSet(file.rules)}
  BY DEF ToSet
<1>7. (\E i \in DOMAIN file.rules : Stripped(file.rules[i].pattern) = <<>>) <=>
        \E rule \in ToSet(file.rules) : Stripped(rule.pattern) = <<>>
  BY DEF ToSet
<1> QED BY <1>2, <1>3, <1>5, <1>6, <1>7 DEF file

LEMMA LinesMonotonic ==
  ASSUME NEW R, NEW S, R \subseteq S, NEW lines \in Seq(LineOf(R))
  PROVE  lines \in Seq(LineOf(S))
<1>1. LineOf(R) \subseteq LineOf(S)
  BY DEF LineOf
<1> QED BY <1>1, SeqMonotonic

LEMMA ConcatElements ==
  ASSUME NEW T, NEW a \in Seq(T), NEW b \in Seq(T)
  PROVE  a \o b \in Seq(T) /\ ToSet(a \o b) = ToSet(a) \cup ToSet(b)
<1> DEFINE n == Len(a)
           m == Len(b)
           c == a \o b
<1>1. /\ c \in Seq(T) /\ Len(c) = n + m /\ n \in Nat /\ m \in Nat
      /\ DOMAIN a = 1 .. n /\ DOMAIN b = 1 .. m /\ DOMAIN c = 1 .. n + m
  OBVIOUS
<1>2. /\ \A i \in 1 .. n : c[i] = a[i]
      /\ \A i \in 1 .. m : c[n + i] = b[i]
  OBVIOUS
<1>3. \A i \in 1 .. n + m : i \in 1 .. n \/ (i - n \in 1 .. m /\ n + (i - n) = i)
  <2> HIDE DEF n, m
  <2> QED BY <1>1
<1>4. \A i \in 1 .. m : n + i \in 1 .. n + m
  <2> HIDE DEF n, m
  <2> QED BY <1>1
<1>5. \A i \in 1 .. n : i \in 1 .. n + m
  <2> HIDE DEF n, m
  <2> QED BY <1>1
<1> HIDE DEF c, n, m
<1>6. ASSUME NEW e \in ToSet(c) PROVE e \in ToSet(a) \cup ToSet(b)
  <2>1. PICK i \in 1 .. n + m : e = c[i]
    BY <1>1 DEF ToSet
  <2>2. CASE i \in 1 .. n
    BY <1>1, <1>2, <2>1, <2>2 DEF ToSet
  <2>3. CASE i - n \in 1 .. m /\ n + (i - n) = i
    <3>1. e = b[i - n]
      BY <1>2, <2>1, <2>3
    <3> QED BY <1>1, <2>3, <3>1 DEF ToSet
  <2> QED BY <1>3, <2>2, <2>3
<1>7. ASSUME NEW e \in ToSet(a) PROVE e \in ToSet(c)
  <2>1. PICK i \in 1 .. n : e = a[i]
    BY <1>1 DEF ToSet
  <2> QED BY <1>1, <1>2, <1>5, <2>1 DEF ToSet
<1>8. ASSUME NEW e \in ToSet(b) PROVE e \in ToSet(c)
  <2>1. PICK i \in 1 .. m : e = b[i]
    BY <1>1 DEF ToSet
  <2>2. n + i \in DOMAIN c /\ c[n + i] = e
    BY <1>1, <1>2, <1>4, <2>1
  <2> QED BY <2>2 DEF ToSet
<1>9. c \in Seq(T) /\ ToSet(c) = ToSet(a) \cup ToSet(b)
  BY <1>1, <1>6, <1>7, <1>8
<1> QED BY <1>9 DEF c

\* The rules of three files, the nearest first.
LEMMA LoadAllElements ==
  ASSUME NEW Rule, NEW user \in Seq(LineOf(Rule)), NEW project \in Seq(LineOf(Rule)),
         NEW local \in Seq(LineOf(Rule))
  PROVE  LET loaded == LoadAll(user, project, local) IN
         /\ loaded.rules \in Seq(ParsedOf(Rule)) /\ loaded.mode \in Modes
         /\ ToSet(loaded.rules) =
              ToSet(Load(local).rules) \cup ToSet(Load(project).rules) \cup ToSet(Load(user).rules)
         /\ loaded.refused <=> Load(user).refused \/ Load(project).refused \/ Load(local).refused
<1> DEFINE P == ParsedOf(Rule)
           far == Load(user)
           middle == Load(project)
           near == Load(local)
           loaded == LoadAll(user, project, local)
<1>1. /\ far.rules \in Seq(P) /\ middle.rules \in Seq(P) /\ near.rules \in Seq(P)
      /\ far.mode \in Modes /\ middle.mode \in Modes /\ near.mode \in Modes
  BY LoadElements
<1>2. /\ loaded.refused <=> far.refused \/ middle.refused \/ near.refused
      /\ loaded.mode = IF near.mode # "default" THEN near.mode
                       ELSE IF middle.mode # "default" THEN middle.mode ELSE far.mode
      /\ loaded.rules = near.rules \o middle.rules \o far.rules
  BY DEF LoadAll
<1> HIDE DEF far, middle, near, loaded, P
<1>4. /\ near.rules \o middle.rules \in Seq(P)
      /\ ToSet(near.rules \o middle.rules) = ToSet(near.rules) \cup ToSet(middle.rules)
  BY <1>1, ConcatElements
<1>5. /\ loaded.rules \in Seq(P)
      /\ ToSet(loaded.rules) = ToSet(near.rules) \cup ToSet(middle.rules) \cup ToSet(far.rules)
  <2> DEFINE nearer == near.rules \o middle.rules
  <2>1. loaded.rules = nearer \o far.rules
    BY <1>2
  <2>2. nearer \in Seq(P) /\ ToSet(nearer) = ToSet(near.rules) \cup ToSet(middle.rules)
    BY <1>4
  <2> HIDE DEF nearer
  <2>3. nearer \o far.rules \in Seq(P)
        /\ ToSet(nearer \o far.rules) = ToSet(nearer) \cup ToSet(far.rules)
    BY <1>1, <2>2, ConcatElements
  <2> QED BY <2>1, <2>2, <2>3
<1>6. loaded.mode \in Modes
  BY <1>1, <1>2
<1> QED BY <1>2, <1>5, <1>6 DEF far, middle, near, loaded, P

\* The first of the rules that match is one that matches.
LEMMA FirstMatches ==
  ASSUME NEW Rule, NEW rules \in Seq(Rule), NEW call, Matching(rules, call) # {}
  PROVE  /\ rules[First(Matching(rules, call))] \in ToSet(rules)
         /\ MatchRule(rules[First(Matching(rules, call))], call)
<1> DEFINE places == Matching(rules, call)
<1>1. places \in SUBSET Nat /\ places # {} /\ places \subseteq DOMAIN rules
  BY DEF Matching
<1>2. \A i \in places : MatchRule(rules[i], call)
  BY DEF Matching
<1> HIDE DEF places
<1>3. \E i \in places : \A j \in places : i <= j
  BY <1>1, LeastNatural
<1>4. First(places) \in places
  BY <1>3 DEF First
<1>5. rules[First(places)] \in ToSet(rules) /\ MatchRule(rules[First(places)], call)
  BY <1>1, <1>2, <1>4 DEF ToSet
<1> QED BY <1>5 DEF places

LEMMA MatchingElements ==
  ASSUME NEW Rule, NEW rules \in Seq(Rule), NEW call
  PROVE  Matching(rules, call) # {} <=> \E rule \in ToSet(rules) : MatchRule(rule, call)
BY DEF Matching, ToSet

\* What append_persistent_rule leaves in the file when it can be read again.
LEMMA AppendedRule ==
  ASSUME NEW Rule, NEW lines \in Seq(LineOf(Rule)), NEW rule \in Rule,
         ~ ReadFile(lines).refused, LineStands(rule.pattern),
         MentionsRules(lines) => ReadFile(lines).open = "rules"
  PROVE  LET after == ReadFile(AppendRule(lines, rule)) IN
         /\ AppendRule(lines, rule) \in Seq(LineOf(Rule))
         /\ ~ after.refused
         /\ rule \in ToSet(after.rules)
         /\ ToSet(after.rules) \subseteq ToSet(ReadFile(lines).rules) \cup {rule}
<1> DEFINE L == LineOf(Rule)
<1>1. Header \in L /\ RuleLine(rule) \in L /\ ModeLine("default") \in L
  BY DEF LineOf, Modes
<1> HIDE DEF L
<1>2. Header.kind = "header" /\ RuleLine(rule).kind = "rule" /\ RuleLine(rule).rule = rule
      /\ ModeLine("default").kind = "mode" /\ ModeLine("default").mode = "default"
  BY DEF Header, RuleLine, ModeLine
\* The rule in a file whose map of rules is open.
<1>3. ASSUME NEW headed \in Seq(L), ReadFile(headed).open = "rules", ~ ReadFile(headed).refused,
             ToSet(ReadFile(headed).rules) \subseteq ToSet(ReadFile(lines).rules),
             AppendRule(lines, rule) = Append(headed, RuleLine(rule))
      PROVE  LET after == ReadFile(AppendRule(lines, rule)) IN
             /\ AppendRule(lines, rule) \in Seq(L)
             /\ ~ after.refused
             /\ rule \in ToSet(after.rules)
             /\ ToSet(after.rules) \subseteq ToSet(ReadFile(lines).rules) \cup {rule}
  <2>1. ReadFile(headed) \in FileOf(Rule)
    BY ReadFileType DEF L
  <2>2. ReadFile(AppendRule(lines, rule)) = ReadLine(ReadFile(headed), RuleLine(rule))
    BY <1>1, <1>3, ReadFileAppend DEF L
  <2> DEFINE file == ReadFile(headed)
             after == ReadFile(AppendRule(lines, rule))
  <2>3. after = [file EXCEPT !.rules = PutRule(@, rule)]
    BY <1>2, <1>3, <2>2 DEF ReadLine, ReadRule
  <2>4. AppendRule(lines, rule) \in Seq(L)
    BY <1>1, <1>3
  <2>5. file \in FileOf(Rule) /\ ~ file.refused /\ ToSet(file.rules) \subseteq ToSet(ReadFile(lines).rules)
    BY <1>3, <2>1
  <2> HIDE DEF file, after
  <2>6. after.rules = PutRule(file.rules, rule) /\ ~ after.refused /\ file.rules \in Seq(Rule)
    BY <2>3, <2>5 DEF FileOf
  <2>7. /\ rule \in ToSet(after.rules)
        /\ ToSet(after.rules) \subseteq ToSet(ReadFile(lines).rules) \cup {rule}
    BY <2>5, <2>6, PutRuleKeeps
  <2> QED BY <2>4, <2>6, <2>7 DEF after
\* A header behind what is there.
<1>4. ASSUME NEW before \in Seq(L), ~ ReadFile(before).refused
      PROVE  /\ Append(before, Header) \in Seq(L)
             /\ ReadFile(Append(before, Header)).open = "rules" /\ ~ ReadFile(Append(before, Header)).refused
             /\ ReadFile(Append(before, Header)).rules = <<>>
  <2>1. ReadFile(Append(before, Header)) = ReadLine(ReadFile(before), Header)
    BY <1>1, ReadFileAppend DEF L
  <2>2. ReadFile(before) \in FileOf(Rule)
    BY ReadFileType DEF L
  <2>3. ReadLine(ReadFile(before), Header) = [ReadFile(before) EXCEPT !.open = "rules", !.rules = <<>>]
    BY <1>2 DEF ReadLine
  <2> DEFINE b == ReadFile(before)
  <2> HIDE DEF b
  <2>4. /\ [b EXCEPT !.open = "rules", !.rules = <<>>].open = "rules"
        /\ ([b EXCEPT !.open = "rules", !.rules = <<>>].refused <=> b.refused)
        /\ [b EXCEPT !.open = "rules", !.rules = <<>>].rules = <<>>
    BY <2>2 DEF FileOf, b
  <2> QED BY <1>1, <1>4, <2>1, <2>3, <2>4 DEF b
<1>5. ToSet(<<>>) = {}
  BY DEF ToSet
<1>6. CASE lines = <<>>
  <2> DEFINE mode == <<ModeLine("default")>>
  <2>1. mode \in Seq(L) /\ mode = Append(<<>>, ModeLine("default"))
    BY <1>1
  <2>2. ReadFile(mode) = ReadLine(Empty, ModeLine("default"))
    <3>1. <<>> \in Seq(L)
      BY EmptySeq
    <3> QED BY <1>1, <2>1, <3>1, ReadFileAppend, ReadFileEmpty DEF L
  <2>3. ~ ReadFile(mode).refused
    BY <1>2, <2>2 DEF ReadLine, Empty
  <2>4. AppendRule(lines, rule) = Append(<<ModeLine("default"), Header>>, RuleLine(rule))
    BY <1>6 DEF AppendRule
  <2>5. <<ModeLine("default"), Header>> = Append(mode, Header)
    OBVIOUS
  <2> HIDE DEF mode
  <2> QED BY <1>3, <1>4, <1>5, <2>1, <2>3, <2>4, <2>5 DEF L
<1>7. CASE lines # <<>> /\ MentionsRules(lines)
  <2>1. AppendRule(lines, rule) = Append(lines, RuleLine(rule))
    BY <1>7 DEF AppendRule
  <2>2. ReadFile(lines).open = "rules"
    BY <1>7
  <2>3. lines \in Seq(L)
    BY DEF L
  <2> QED BY <1>3, <2>1, <2>2, <2>3 DEF L
<1>8. CASE lines # <<>> /\ ~ MentionsRules(lines)
  <2>1. AppendRule(lines, rule) = Append(Append(lines, Header), RuleLine(rule))
    BY <1>8 DEF AppendRule
  <2>2. lines \in Seq(L)
    BY DEF L
  <2> QED BY <1>3, <1>4, <1>5, <2>1, <2>2 DEF L
<1> QED BY <1>6, <1>7, <1>8

\* And what the program takes from it when it starts, if the text survives.
LEMMA AppendedRuleIsLoaded ==
  ASSUME NEW Rule, NEW lines \in Seq(LineOf(Rule)), NEW rule \in Rule,
         ~ Load(lines).refused, Survives(rule.pattern), Parsed(rule) = rule,
         MentionsRules(lines) => ReadFile(lines).open = "rules"
  PROVE  LET after == Load(AppendRule(lines, rule)) IN
         /\ AppendRule(lines, rule) \in Seq(LineOf(Rule))
         /\ ~ after.refused
         /\ rule \in ToSet(after.rules)
         /\ ToSet(after.rules) \subseteq ToSet(Load(lines).rules) \cup {rule}
<1> DEFINE new == AppendRule(lines, rule)
           old == ToSet(ReadFile(lines).rules)
           read == ToSet(ReadFile(new).rules)
<1>1. /\ ToSet(Load(lines).rules) = {Parsed(r) : r \in old} /\ ~ ReadFile(lines).refused
      /\ \A r \in old : Stripped(r.pattern) # <<>>
  BY LoadElements
<1>2. LineStands(rule.pattern) /\ Stripped(rule.pattern) # <<>>
  BY DEF Survives
<1>3. new \in Seq(LineOf(Rule)) /\ ~ ReadFile(new).refused /\ rule \in read /\ read \subseteq old \cup {rule}
  BY <1>1, <1>2, AppendedRule
<1>4. /\ ToSet(Load(new).rules) = {Parsed(r) : r \in read}
      /\ Load(new).refused <=>
           ReadFile(new).refused \/ \E r \in read : Stripped(r.pattern) = <<>>
  BY <1>3, LoadElements
<1> HIDE DEF old, read, new
<1>5. ~ Load(new).refused
  BY <1>1, <1>2, <1>3, <1>4
<1>6. rule \in ToSet(Load(new).rules)
  BY <1>3, <1>4
<1>7. ToSet(Load(new).rules) \subseteq ToSet(Load(lines).rules) \cup {rule}
  BY <1>1, <1>3, <1>4
<1> QED BY <1>3, <1>5, <1>6, <1>7 DEF new

(* The answer "always" is still in force after a restart, whatever the files *)
(* hold and whichever call it was given for, if the call's text survives the *)
(* file (no '#' of it is taken for a comment, and nothing of it is stripped) *)
(* and the map of the rules, where the local file mentions it, is the last   *)
(* one in it: the rule that was appended to that file is read again, it      *)
(* matches, and no rule that was there before does                           *)
(* (_decision_from_confirmation and append_persistent_rule,                  *)
(* permissions/engine.py and permissions/config.py:50-59,90-129).            *)
THEOREM AlwaysIsStillInForce ==
  ASSUME NEW Rule, NEW user \in Seq(LineOf(Rule)), NEW project \in Seq(LineOf(Rule)),
         NEW local \in Seq(LineOf(Rule)), NEW call, NEW tool, NEW asks, NEW answer,
         ~ LoadAll(user, project, local).refused,
         Survives(RuleFor(call).pattern),
         MentionsRules(local) => ReadFile(local).open = "rules",
         Evaluate(call, tool, AtStart(LoadAll(user, project, local), TRUE), "always").source
           = "confirmation"
  PROVE  LET after == LoadAll(user, project, AppendRule(local, RuleFor(call))) IN
         /\ ~ after.refused
         /\ Evaluate(call, tool, AtStart(after, asks), answer).allowed
<1> DEFINE rule == RuleFor(call)
           All == Rule \cup {rule}
           P == ParsedOf(All)
           before == LoadAll(user, project, local)
           new == AppendRule(local, rule)
           after == LoadAll(user, project, new)
<1>1. user \in Seq(LineOf(All)) /\ project \in Seq(LineOf(All)) /\ local \in Seq(LineOf(All))
      /\ rule \in All
  BY LinesMonotonic
<1>2. MatchRule(rule, call) /\ rule.action = "allow" /\ Survives(rule.pattern) /\ Parsed(rule) = rule
  <2>1. MatchRule(rule, call) /\ rule.action = "allow"
    BY DEF RuleFor, MatchRule
  <2>2. [rule EXCEPT !.pattern = rule.pattern] = rule
    BY DEF RuleFor
  <2>3. Stripped(rule.pattern) = rule.pattern
    BY DEF Survives
  <2> HIDE DEF rule
  <2>4. Parsed(rule) = [rule EXCEPT !.pattern = Stripped(rule.pattern)]
    BY DEF Parsed
  <2>5. Parsed(rule) = rule
    BY <2>2, <2>3, <2>4
  <2> QED BY <2>1, <2>5 DEF rule
<1> HIDE DEF rule, All, P
<1>3. /\ before.rules \in Seq(P)
      /\ ToSet(before.rules) =
           ToSet(Load(local).rules) \cup ToSet(Load(project).rules) \cup ToSet(Load(user).rules)
      /\ ~ Load(user).refused /\ ~ Load(project).refused /\ ~ Load(local).refused
      /\ before.mode \in Modes
  BY <1>1, LoadAllElements DEF P
<1>4. /\ new \in Seq(LineOf(All)) /\ ~ Load(new).refused /\ rule \in ToSet(Load(new).rules)
      /\ ToSet(Load(new).rules) \subseteq ToSet(Load(local).rules) \cup {rule}
  BY <1>1, <1>2, <1>3, AppendedRuleIsLoaded
<1> HIDE DEF new
<1>5. /\ after.rules \in Seq(P) /\ ~ after.refused /\ after.mode \in Modes
      /\ ToSet(after.rules) =
           ToSet(Load(new).rules) \cup ToSet(Load(project).rules) \cup ToSet(Load(user).rules)
  BY <1>1, <1>3, <1>4, LoadAllElements DEF P
<1> DEFINE then == AtStart(before, TRUE)
           now == AtStart(after, asks)
<1>6. /\ then.sessionRules \o then.rules = before.rules /\ now.sessionRules \o now.rules = after.rules
      /\ then # NoContext /\ now # NoContext
  <2>1. <<>> \o before.rules = before.rules /\ <<>> \o after.rules = after.rules
    <3> HIDE DEF before, after
    <3> QED BY <1>3, <1>5
  <2>2. /\ then.sessionRules = <<>> /\ then.rules = before.rules /\ then.mode = before.mode
        /\ now.sessionRules = <<>> /\ now.rules = after.rules /\ now.mode = after.mode
    BY DEF AtStart
  <2>3. NoContext.mode \notin Modes
    BY DEF NoContext, Modes
  <2> HIDE DEF then, now, before, after
  <2> QED BY <1>3, <1>5, <2>1, <2>2, <2>3
<1> HIDE DEF then, now, before, after
<1>7. \A a, s : Decision(a, s).allowed = a /\ Decision(a, s).source = s
  BY DEF Decision
<1>8. ~ Forbidden(call) /\ Matching(before.rules, call) = {}
  <2>1. Evaluate(call, tool, then, "always").source = "confirmation"
    BY DEF then, before
  <2>2. CASE Forbidden(call)
    <3>1. Evaluate(call, tool, then, "always") = Decision(FALSE, "limit")
      BY <1>6, <2>2 DEF Evaluate, LimitsFirst
    <3>2. Decision(FALSE, "limit").source = "limit"
      BY DEF Decision
    <3> QED BY <2>1, <3>1, <3>2
  <2>3. CASE ~ Forbidden(call) /\ Matching(before.rules, call) # {}
    <3> DEFINE ok == before.rules[First(Matching(before.rules, call))].action = "allow"
    <3>1. Evaluate(call, tool, then, "always") = Decision(ok, "rule")
      BY <1>6, <2>3 DEF Evaluate
    <3> HIDE DEF ok
    <3> QED BY <1>7, <2>1, <3>1
  <2> QED BY <2>2, <2>3
<1>9. \A r \in ToSet(before.rules) : ~ MatchRule(r, call)
  BY <1>3, <1>8, MatchingElements
<1>10. \A r \in ToSet(after.rules) : MatchRule(r, call) => r = rule
  BY <1>3, <1>4, <1>5, <1>9
<1>11. Matching(after.rules, call) # {}
  BY <1>2, <1>4, <1>5, MatchingElements
<1>12. after.rules[First(Matching(after.rules, call))].action = "allow"
  BY <1>2, <1>5, <1>10, <1>11, FirstMatches
<1>13. Evaluate(call, tool, now, answer) = Decision(TRUE, "rule")
  BY <1>6, <1>8, <1>11, <1>12 DEF Evaluate
<1>14. Evaluate(call, tool, now, answer).allowed
  BY <1>7, <1>13
<1> QED BY <1>5, <1>14 DEF now, after, new, rule

-----------------------------------------------------------------------------
(* The files of rules, in MCAlgorithms *)

DenyRule ==
  {TheRule(tool, pattern, "deny") : tool \in {"Write", "TeamTask"}, pattern \in {Plain, Star}}

LEMMA TheDenyRules ==
  /\ \A rule \in DenyRule : rule.action = "deny"
  /\ \A tool \in {"Write", "TeamTask"}, pattern \in {Plain, Star} :
        TheRule(tool, pattern, "deny") \in DenyRule
BY DEF TheRule, DenyRule

LEMMA StrippedOne ==
  ASSUME NEW char, char \notin Space
  PROVE  Stripped(<<char>>) = <<char>>
<1> DEFINE text == <<char>>
           inked == {i \in DOMAIN text : text[i] \notin Space}
<1>1. text \in Seq({char}) /\ Len(text) = 1 /\ inked = {1}
  OBVIOUS
<1> HIDE DEF text
<1>2. SubSeq(text, 1, 1) = text
  BY <1>1
<1> HIDE DEF inked
<1>3. First(inked) = 1
  BY <1>1 DEF First
<1>4. (CHOOSE i \in inked : \A j \in inked : j <= i) = 1
  BY <1>1
<1>5. Stripped(text) = SubSeq(text, First(inked), CHOOSE i \in inked : \A j \in inked : j <= i)
  BY <1>1 DEF Stripped, inked
<1> QED BY <1>2, <1>3, <1>4, <1>5 DEF text

LEMMA TheDenyRulesParse == ParsedOf(DenyRule) \subseteq DenyRule
<1>1. Stripped(Plain) = Plain /\ Stripped(Star) = Star
  BY StrippedOne DEF Plain, Star, Space
<1>2. ASSUME NEW tool \in {"Write", "TeamTask"}, NEW pattern \in {Plain, Star}
      PROVE  Parsed(TheRule(tool, pattern, "deny")) = TheRule(tool, pattern, "deny")
  <2> DEFINE rule == TheRule(tool, pattern, "deny")
  <2>1. rule.pattern = pattern /\ [rule EXCEPT !.pattern = pattern] = rule
    BY DEF TheRule
  <2> HIDE DEF rule
  <2>2. Parsed(rule) = [rule EXCEPT !.pattern = Stripped(rule.pattern)]
    BY DEF Parsed
  <2>3. Stripped(rule.pattern) = pattern
    BY <1>1, <2>1
  <2> QED BY <2>1, <2>2, <2>3 DEF rule
<1> QED BY <1>2 DEF ParsedOf, DenyRule

LEMMA TheFilesAreFiles ==
  ASSUME NEW in \in FileInputs
  PROVE  /\ in.user \in Seq(LineOf(DenyRule)) /\ in.project \in Seq(LineOf(DenyRule))
         /\ in.local \in Seq(LineOf(DenyRule))
         /\ in.target = Plain \/ in.target \in Seq(Characters)
<1> DEFINE L == LineOf(DenyRule)
<1>1. TheLines \subseteq L /\ Header \in L
  <2>1. ModeLine("strict") \in L /\ Header \in L /\ Comment \in L /\ OtherMap \in L
    BY DEF LineOf, Modes
  <2>2. RuleLine(TheRule("Write", Plain, "deny")) \in L /\ RuleLine(TheRule("Write", Star, "deny")) \in L
    <3>1. TheRule("Write", Plain, "deny") \in DenyRule /\ TheRule("Write", Star, "deny") \in DenyRule
      BY TheDenyRules
    <3> QED BY <3>1 DEF LineOf
  <2> QED BY <2>1, <2>2 DEF TheLines
<1>2. ModeLine("strict") \in L
  BY DEF LineOf, Modes
<1> HIDE DEF L
<1>3. \A most \in Nat : FilesOf(most) \subseteq Seq(L)
  <2> SUFFICES ASSUME NEW most \in Nat, NEW n \in 0 .. most, NEW file \in [1 .. n -> TheLines]
               PROVE  file \in Seq(L)
    BY DEF FilesOf
  <2>1. n \in Nat /\ file \in [1 .. n -> L]
    BY <1>1
  <2> QED BY <2>1
<1>4. <<>> \in Seq(L) /\ <<ModeLine("strict")>> \in Seq(L) /\ <<Header>> \in Seq(L)
  BY <1>1, <1>2, EmptySeq
<1>5. Texts \subseteq Seq(Characters)
  <2> SUFFICES ASSUME NEW n \in 0 .. 4, NEW text \in [1 .. n -> Characters]
               PROVE  text \in Seq(Characters)
    BY DEF Texts
  <2>1. n \in Nat
    OBVIOUS
  <2> HIDE DEF Characters
  <2> QED BY <2>1
<1>6. \/ /\ in.user \in {<<>>, <<ModeLine("strict")>>}
         /\ in.project \in FilesOf(2) /\ in.local \in FilesOf(3) /\ in.target = Plain
      \/ in.user = <<>> /\ in.project = <<>> /\ in.local \in {<<>>, <<Header>>} /\ in.target \in Texts
  BY DEF FileInputs
<1> QED BY <1>3, <1>4, <1>5, <1>6 DEF L

\* The quote after every character, as _strip_comment tracks it.
LEMMA QuoteIsDefined ==
  ASSUME NEW C, NEW text \in Seq(C)
  PROVE  \A i \in 0 .. Len(text) :
           QuoteAfter(text)[i] = IF i = 0 THEN "single"
                                 ELSE AfterChar(QuoteAfter(text)[i - 1], text[i])
<1> DEFINE n == Len(text)
           Q == {"none", "single", "double"}
           Next1(f, i) == IF i = 0 THEN "single" ELSE AfterChar(f[i - 1], text[i])
           all == CHOOSE f : f = [i \in 0 .. n |-> Next1(f, i)]
           step == [p \in Q \X (1 .. n) |-> AfterChar(p[1], text[p[2]])]
<1>0. n \in Nat
  OBVIOUS
<1>1. step \in [Q \X (1 .. n) -> Q]
  <2>1. ASSUME NEW p \in Q \X (1 .. n) PROVE AfterChar(p[1], text[p[2]]) \in Q
    BY DEF AfterChar, Toggle
  <2> HIDE DEF Q, n
  <2> QED BY <2>1
<1>2. \E f : f = [i \in 0 .. n |-> Next1(f, i)]
  <2>0. PICK f \in [0 .. n -> Q] : Recurs(n, "single", step, f)
    <3>1. "single" \in Q
      OBVIOUS
    <3> HIDE DEF Q, step, n
    <3> QED BY <1>0, <1>1, <3>1, ForwardRecursion
  <2>1. f[0] = "single" /\ \A i \in 1 .. n : f[i] = step[<<f[i - 1], i>>]
    BY <2>0 DEF Recurs
  <2>2. ASSUME NEW i \in 0 .. n PROVE f[i] = Next1(f, i)
    <3>1. CASE i = 0
      BY <2>1, <3>1
    <3>2. CASE i # 0
      <4>1. i \in 1 .. n /\ i - 1 \in 0 .. n
        BY <1>0, <3>2
      <4>2. <<f[i - 1], i>> \in Q \X (1 .. n)
        <5> HIDE DEF Q
        <5> QED BY <2>0, <4>1
      <4>3. step[<<f[i - 1], i>>] = AfterChar(f[i - 1], text[i])
        <5> HIDE DEF Q, n
        <5> QED BY <4>2
      <4> HIDE DEF step
      <4> QED BY <2>1, <3>2, <4>1, <4>3
    <3> QED BY <3>1, <3>2
  <2> HIDE DEF Next1, Q
  <2>3. f = [i \in 0 .. n |-> Next1(f, i)]
    BY <2>0, <2>2
  <2> QED BY <2>3
<1>3. all = [i \in 0 .. n |-> Next1(all, i)]
  <2> HIDE DEF Next1
  <2> QED BY <1>2
<1>4. \A i \in 0 .. n : all[i] = Next1(all, i)
  <2> HIDE DEF all, Next1
  <2> QED BY <1>3
<1>5. QuoteAfter(text) = all
  BY DEF QuoteAfter
<1> HIDE DEF all
<1> QED BY <1>4, <1>5

(* A plain text survives the file, however long it is: before its first       *)
(* double quote the comment stripper is always between the two single quotes  *)
(* of the rule (permissions/config.py:121-129).                               *)
LEMMA PlainTextSurvives ==
  ASSUME NEW text \in Seq(Characters), PlainText(text), text # <<>>
  PROVE  Survives(text)
<1> DEFINE n == Len(text)
           quote == QuoteAfter(text)
<1>1. n \in Nat /\ DOMAIN text = 1 .. n /\ n # 0 /\ Last(text) = text[n]
  BY DEF Last
<1>2. ASSUME NEW k \in DOMAIN text, text[k] = "#",
             \A i, j \in DOMAIN text : i < j => ~ (text[i] = "double" /\ text[j] = "#")
      PROVE  quote[k - 1] = "single"
  <2> DEFINE Good == {i \in 0 .. k - 1 : quote[i] = "single"}
  <2>1. \A i \in 0 .. n : quote[i] = IF i = 0 THEN "single" ELSE AfterChar(quote[i - 1], text[i])
    BY QuoteIsDefined
  <2> HIDE DEF quote, n
  <2>2. k \in 1 .. n /\ k - 1 \in Nat
    BY <1>1
  <2>3. 0 \in Good
    BY <1>1, <2>1, <2>2
  <2>4. ASSUME NEW m \in 0 .. (k - 1) - 1, m \in Good PROVE m + 1 \in Good
    <3>1. m + 1 \in 0 .. n /\ m + 1 # 0 /\ (m + 1) - 1 = m /\ m + 1 \in 1 .. n /\ m + 1 < k
          /\ m + 1 \in 0 .. k - 1
      BY <1>1, <2>2
    <3>2. text[m + 1] # "double"
      BY <1>1, <1>2, <3>1
    <3>3. quote[m + 1] = AfterChar("single", text[m + 1])
      BY <2>1, <2>4, <3>1
    <3>4. AfterChar("single", text[m + 1]) = "single"
      BY <3>2 DEF AfterChar, Toggle
    <3> QED BY <3>1, <3>3, <3>4
  <2>5. k - 1 \in Good
    <3> HIDE DEF Good
    <3>1. 0 .. k - 1 \subseteq Good
      BY <2>2, <2>3, <2>4, Forwards
    <3> QED BY <2>2, <3>1
  <2> QED BY <2>5
<1>3. LineStands(text)
  <2>1. CASE Encoded(text)
    BY <2>1 DEF LineStands
  <2>2. CASE ~ Encoded(text)
    <3>1. /\ "break" \notin ToSet(text)
          /\ \A i, j \in DOMAIN text : i < j => ~ (text[i] = "double" /\ text[j] = "#")
      BY <2>2 DEF PlainText
    <3> HIDE DEF quote
    <3>2. \A k \in DOMAIN text : text[k] = "#" => quote[k - 1] # "none"
      BY <1>2, <3>1
    <3> QED BY <3>1, <3>2 DEF LineStands, CutAsComment, quote
  <2> QED BY <2>1, <2>2
<1>4. Stripped(text) = text
  <2> DEFINE inked == {i \in DOMAIN text : text[i] \notin Space}
  <2>1. text[1] \notin Space /\ text[n] \notin Space
    BY <1>1 DEF PlainText
  <2> HIDE DEF n
  <2>2. 1 \in inked /\ n \in inked /\ \A i \in inked : i \in Int /\ 1 <= i /\ i <= n
    BY <1>1, <2>1
  <2> HIDE DEF inked
  <2>3. First(inked) = 1
    BY <2>2 DEF First
  <2>4. (CHOOSE i \in inked : \A j \in inked : j <= i) = n
    BY <2>2
  <2>5. SubSeq(text, 1, n) = text
    BY <1>1 DEF n
  <2> QED BY <2>2, <2>3, <2>4, <2>5 DEF Stripped, inked
<1> QED BY <1>3, <1>4 DEF Survives

(* The answer "always" is still in force after a restart, on the files and    *)
(* the texts of MCAlgorithms (append_persistent_rule,                         *)
(* permissions/config.py:50-59,90-129).                                       *)
THEOREM AlwaysSurvivesRestartTheorem == AlgorithmsSpec => []AlwaysSurvivesRestart
<1>1. InputType => AlwaysSurvivesRestart
  <2> DEFINE write == AskedFor(input)
             tool == TheRegistry.tools["Write"]
  <2> SUFFICES ASSUME input \in FileInputs, AlwaysIsAnswered(input), PlainText(input.target),
                      MentionsRules(input.local) => ReadFile(input.local).open = "rules"
               PROVE  InForceAfter(input)
    BY DEF InputType, AlwaysSurvivesRestart
  <2>1. /\ input.user \in Seq(LineOf(DenyRule)) /\ input.project \in Seq(LineOf(DenyRule))
        /\ input.local \in Seq(LineOf(DenyRule))
        /\ input.target = Plain \/ input.target \in Seq(Characters)
    BY TheFilesAreFiles
  <2>2. RuleFor(write).pattern = IF input.target = <<>> THEN Star ELSE input.target
    BY DEF RuleFor, AskedFor, ToolCall
  <2>3. Survives(Star)
    <3>1. Star \in Seq({"*"}) /\ Len(Star) = 1 /\ Star[1] = "*" /\ DOMAIN Star = {1} /\ Star # <<>>
      BY DEF Star
    <3>2. Stripped(Star) = Star
      BY StrippedOne DEF Star, Space
    <3>3. LineStands(Star)
      BY <3>1 DEF LineStands, CutAsComment, ToSet
    <3> QED BY <3>1, <3>2, <3>3 DEF Survives
  <2>4. input.target \in Seq(Characters)
    <3>1. "t" \in Characters
      BY DEF Characters
    <3>2. Plain \in Seq(Characters)
      BY <3>1 DEF Plain
    <3> QED BY <2>1, <3>2
  <2>5. Survives(RuleFor(write).pattern)
    BY <2>2, <2>3, <2>4, PlainTextSurvives
  <2> HIDE DEF write, tool
  <2>6. /\ ~ LoadAll(input.user, input.project, input.local).refused
        /\ Evaluate(write, tool, AtStart(LoadAll(input.user, input.project, input.local), TRUE),
                    "always").source = "confirmation"
    BY DEF AlwaysIsAnswered, RulesBefore, write, tool
  <2>7. LET after == LoadAll(input.user, input.project, AppendRule(input.local, RuleFor(write))) IN
        ~ after.refused /\ Evaluate(write, tool, AtStart(after, FALSE), "deny").allowed
    BY <2>1, <2>5, <2>6, AlwaysIsStillInForce
  <2> QED BY <2>7 DEF InForceAfter, RulesAfter, write, tool
<1> QED BY <1>1, InputTypeInvariant, PTL

-----------------------------------------------------------------------------
(* The agents of a team, in MCAlgorithms *)

LEMMA MemberContext ==
  ASSUME NEW Rule, NEW lead \in ContextOf(Rule), NEW requested \in Modes \cup {"none"}
  PROVE  LET context == MemberPermission(lead, requested) IN
         /\ context.rules = lead.rules /\ context.sessionRules = lead.sessionRules
         /\ context.confirmer = FALSE /\ context # NoContext
         /\ requested # "strict" => context.mode = "permissive"
<1> DEFINE child == Clone(lead, requested)
           context == MemberPermission(lead, requested)
<1>1. NoContext.mode \notin Modes
  BY DEF NoContext, Modes
<1>2. lead.mode \in Modes /\ lead # NoContext
  BY <1>1 DEF ContextOf
<1>3. child = [mode |-> IF requested = "none" THEN lead.mode ELSE StricterMode(lead.mode, requested),
               rules |-> lead.rules, sessionRules |-> lead.sessionRules, confirmer |-> FALSE]
  BY <1>2 DEF Clone
<1>4. child.mode \in Modes
  BY <1>2, <1>3 DEF StricterMode, Modes
<1>5. CASE requested = "strict"
  <2>1. context = child
    BY <1>5 DEF MemberPermission
  <2> HIDE DEF context, child
  <2> QED BY <1>1, <1>3, <1>4, <1>5, <2>1 DEF context
<1>6. CASE requested # "strict"
  <2>1. context = [child EXCEPT !.mode = "permissive"]
    BY <1>6 DEF MemberPermission
  <2> HIDE DEF context, child
  <2>2. /\ context.rules = lead.rules /\ context.sessionRules = lead.sessionRules
        /\ context.confirmer = FALSE /\ context.mode = "permissive"
    BY <1>3, <2>1
  <2>3. "permissive" \in Modes
    BY DEF Modes
  <2> QED BY <1>1, <2>2, <2>3 DEF context
<1> QED BY <1>5, <1>6

(* The rules in force bind a member of either kind, whatever its mode, and   *)
(* no mode lets it do what is forbidden (execute_team_assignment and         *)
(* _run_team_worker, cli.py:225-248).                                        *)
LEMMA MemberObeysRules ==
  ASSUME NEW Rule, NEW lead \in ContextOf(Rule), NEW requested \in Modes \cup {"none"},
         NEW call, NEW tool, NEW answer,
         Evaluate(call, tool, MemberPermission(lead, requested), answer).allowed
  PROVE  LET rules == lead.sessionRules \o lead.rules
             matching == Matching(rules, call) IN
         ~ Forbidden(call) /\ (matching # {} => rules[First(matching)].action = "allow")
<1> DEFINE context == MemberPermission(lead, requested)
<1>1. /\ context.rules = lead.rules /\ context.sessionRules = lead.sessionRules
      /\ context.confirmer = FALSE /\ context # NoContext
  BY MemberContext
<1> HIDE DEF context
<1>2. AllowedAlone(call, tool, context)
  BY <1>1, NobodyAsked DEF context
<1> QED BY <1>1, <1>2 DEF AllowedAlone

(* A member that is not strict asks for its plan, and no rule in force      *)
(* matches that.                                                             *)
AsksForPlan(registry, identity, call, lead, requested) ==
  /\ RegistryInOrder(registry) /\ "TeamPlanRequest" \in ToolNames(registry)
  /\ identity.scope = "member" /\ ~ identity.coordinator
  /\ \E Value : call \in [DOMAIN call -> Value]
  /\ call.name = "TeamPlanRequest" /\ call.isObject /\ call.action = "submit"
  /\ "action" \in DOMAIN call
  /\ \E Rule : lead \in ContextOf(Rule)
  /\ Matching(lead.sessionRules \o lead.rules, call) = {}
  /\ requested \in Modes \cup {"none"} /\ requested # "strict"

(* A member that is not strict can always ask for its plan, if no rule in    *)
(* force matches that (teams/scoping.py:54-141, cli.py:225-248).             *)
THEOREM MembersCanAsk ==
  ASSUME NEW registry, NEW identity, NEW call, NEW lead, NEW requested, NEW answer,
         AsksForPlan(registry, identity, call, lead, requested)
  PROVE  ScopedOutcome(registry, identity, call, MemberPermission(lead, requested),
                       "default", answer) = "ran"
<1> DEFINE name == "TeamPlanRequest"
           context == MemberPermission(lead, requested)
           names == Visible(registry, identity)
           scoped == ScopedRegistry(registry, identity)
           kept == ToolNames(registry) \cap names
<1>0. PICK Value, Rule : /\ call \in [DOMAIN call -> Value] /\ "action" \in DOMAIN call
                         /\ lead \in ContextOf(Rule)
  BY DEF AsksForPlan
<1> USE DEF AsksForPlan
<1>1. name \in MemberTools /\ name \in TeamTools /\ name \notin {"Agent", "Skill", "Write", "Edit"}
  BY DEF MemberTools, TeamTools
<1>2. name \in names
  BY <1>1 DEF Visible, RoleLeaves, ScopeNames
<1> HIDE DEF names
<1>3. scoped.tools = [n \in kept |-> registry.tools[n]]
  BY DEF ScopedRegistry, CloneRegistry, names
<1>4. ToolNames(scoped) = kept /\ scoped.tools[name] = registry.tools[name] /\ name \in kept
  BY <1>2, <1>3 DEF ToolNames
<1> HIDE DEF scoped, kept
<1>5. ResolveName(scoped, call.name) = name /\ ResolveName(registry, call.name) = name /\ name # None
  BY <1>4 DEF ResolveName, None
<1>6. ~ Forbidden(call)
  BY DEF Forbidden, Dangerous, LeavesSandbox, HasPath, Canonical, WritesState
<1>7. Evaluate(call, scoped.tools[name], context, answer).allowed
  <2>1. /\ context.rules = lead.rules /\ context.sessionRules = lead.sessionRules
        /\ context.confirmer = FALSE /\ context # NoContext /\ context.mode = "permissive"
    BY <1>0, MemberContext
  <2> HIDE DEF context
  <2>2. AllowedAlone(call, scoped.tools[name], context)
    BY <1>6, <2>1 DEF AllowedAlone
  <2> QED BY <2>1, <2>2, NobodyAsked
<1> HIDE DEF context
<1>8. CallOutcome(scoped, call, context, "default", FALSE, answer) = "ran"
  BY <1>5, <1>7 DEF CallOutcome, PlanDenies, Execute
<1>9. Bound(identity, name, call).action = "submit"
  <2>1. Bound(identity, name, call) = [call EXCEPT !.as = identity.name]
    BY DEF Bound
  <2>2. [call EXCEPT !["as"] = identity.name]["action"] = call["action"]
    BY <1>0
  <2> QED BY <2>1, <2>2
<1>10. RunScoped(identity, name, call) = "ran"
  BY <1>1, <1>9 DEF RunScoped, TeamToolRuns, Actions
<1> QED BY <1>5, <1>8, <1>10 DEF ScopedOutcome, scoped, context

LEMMA CloneInOrder ==
  ASSUME NEW registry, RegistryInOrder(registry), NEW names
  PROVE  LET clone == CloneRegistry(registry, names) IN
         /\ RegistryInOrder(clone) /\ ToolNames(clone) = ToolNames(registry) \cap names
         /\ clone.system \subseteq registry.system
         /\ \A tool \in ToolNames(clone) : clone.tools[tool] = registry.tools[tool]
<1> DEFINE clone == CloneRegistry(registry, names)
           kept == ToolNames(registry) \cap names
<1>1. /\ clone.tools = [n \in kept |-> registry.tools[n]]
      /\ clone.aliases = [a \in {b \in DOMAIN registry.aliases : registry.aliases[b] \in kept} |->
                           registry.aliases[a]]
      /\ clone.system = registry.system \cap kept
  BY DEF CloneRegistry
<1> HIDE DEF clone
<1>2. ToolNames(clone) = kept /\ \A n \in kept : clone.tools[n] = registry.tools[n]
  BY <1>1 DEF ToolNames
<1>3. DOMAIN clone.aliases \subseteq DOMAIN registry.aliases
  BY <1>1
<1>4. RegistryInOrder(clone)
  BY <1>1, <1>2, <1>3 DEF RegistryInOrder
<1> QED BY <1>1, <1>2, <1>4 DEF clone

LEMMA TheTeamRegistryInOrder ==
  /\ RegistryInOrder(TheTeamRegistry) /\ TheTeamRegistry.system = {"Agent", "Skill"}
  /\ ToolNames(TheTeamRegistry) = {"Find", "Write", "Bash", "Agent", "Skill"} \cup TeamTools
  /\ TheTeamRegistry.tools["Write"].sideEffect /\ TheTeamRegistry.tools["Bash"].sideEffect
  /\ DOMAIN TheTeamRegistry.aliases = {"Glob"} /\ TheTeamRegistry.aliases["Glob"] = "Find"
<1>1. /\ DOMAIN TheTeamRegistry.tools =
            {"Find", "Write", "Bash", "Agent", "Skill", "Team", "TeamTask", "TeamMessage",
             "TeamPlanRequest", "TeamPlanDecision", "TeamIntegrate"}
      /\ DOMAIN TheTeamRegistry.aliases = {"Glob"} /\ TheTeamRegistry.aliases["Glob"] = "Find"
      /\ TheTeamRegistry.system = {"Agent", "Skill"}
  BY DEF TheTeamRegistry
<1>2. TheTeamRegistry.tools["Write"].sideEffect /\ TheTeamRegistry.tools["Bash"].sideEffect
  BY DEF TheTeamRegistry, Tool
<1> HIDE DEF TheTeamRegistry
<1>3. RegistryInOrder(TheTeamRegistry)
  BY <1>1 DEF RegistryInOrder, ToolNames, None
<1>4. ToolNames(TheTeamRegistry) = {"Find", "Write", "Bash", "Agent", "Skill"} \cup TeamTools
  BY <1>1 DEF ToolNames, TeamTools
<1> QED BY <1>1, <1>2, <1>3, <1>4

\* The tools around the agents, those of a terminal included.
LEMMA TheToolsAround ==
  ASSUME NEW in
  PROVE  LET registry == ToolsAround(in) IN
         /\ RegistryInOrder(registry) /\ registry.system \subseteq {"Agent", "Skill"}
         /\ \A tool \in ToolNames(registry) : registry.tools[tool] = TheTeamRegistry.tools[tool]
         /\ "TeamPlanRequest" \in ToolNames(registry)
         /\ \A name : ResolveName(registry, name) # None =>
              ResolveName(registry, name) = ResolveName(TheTeamRegistry, name)
<1>1. CASE in.terminal
  <2> DEFINE names == {"Find", "Write", "Bash"} \cup MemberTools
  <2>1. ToolsAround(in) = CloneRegistry(TheTeamRegistry, names)
    BY <1>1 DEF ToolsAround, WorkerRegistry
  <2>2. "TeamPlanRequest" \in names /\ "TeamPlanRequest" \in TeamTools
    BY DEF MemberTools, TeamTools
  <2> HIDE DEF names
  <2>3. \A name : ResolveName(CloneRegistry(TheTeamRegistry, names), name) # None =>
          ResolveName(CloneRegistry(TheTeamRegistry, names), name) = ResolveName(TheTeamRegistry, name)
    BY TheTeamRegistryInOrder, CloneResolves
  <2>4. /\ RegistryInOrder(CloneRegistry(TheTeamRegistry, names))
        /\ ToolNames(CloneRegistry(TheTeamRegistry, names)) = ToolNames(TheTeamRegistry) \cap names
        /\ CloneRegistry(TheTeamRegistry, names).system \subseteq TheTeamRegistry.system
        /\ \A tool \in ToolNames(CloneRegistry(TheTeamRegistry, names)) :
             CloneRegistry(TheTeamRegistry, names).tools[tool] = TheTeamRegistry.tools[tool]
    BY TheTeamRegistryInOrder, CloneInOrder
  <2> QED BY <2>1, <2>2, <2>3, <2>4, TheTeamRegistryInOrder
<1>2. CASE ~ in.terminal
  <2>1. ToolsAround(in) = TheTeamRegistry
    BY <1>2 DEF ToolsAround
  <2>2. "TeamPlanRequest" \in TeamTools
    BY DEF TeamTools
  <2> QED BY <2>1, <2>2, TheTeamRegistryInOrder
<1> QED BY <1>1, <1>2

\* All rules in force deny.
LEMMA TheRulesInForce ==
  ASSUME NEW in \in TeamInputs
  PROVE  RulesInForce(in) \in ContextOf(DenyRule) /\ RulesInForce(in).sessionRules = <<>>
<1>1. <<>> \in Seq(DenyRule)
  BY EmptySeq
<1>2. CASE ~ in.terminal
  <2>1. in.lead \in TeamContexts /\ RulesInForce(in) = in.lead
    BY <1>2 DEF TeamInputs, RulesInForce
  <2>2. \A rule \in DenyRule : <<rule>> \in Seq(DenyRule)
    OBVIOUS
  <2>3. TheRule("Write", Star, "deny") \in DenyRule /\ TheRule("TeamTask", Star, "deny") \in DenyRule
    BY TheDenyRules
  <2>4. {<<>>, <<TheRule("Write", Star, "deny")>>, <<TheRule("TeamTask", Star, "deny")>>}
          \subseteq Seq(DenyRule)
    BY <1>1, <2>2, <2>3
  <2> QED BY <1>1, <2>1, <2>4 DEF TeamContexts, ContextOf
<1>3. CASE in.terminal
  <2>1. in.tree \in TheTrees
    BY <1>3 DEF TeamInputs
  <2> DEFINE L == LineOf(DenyRule)
             line == RuleLine(TheRule("Write", Star, "deny"))
  <2>2. ModeLine("strict") \in L /\ Header \in L /\ line \in L
    <3>1. TheRule("Write", Star, "deny") \in DenyRule
      BY TheDenyRules
    <3> QED BY <3>1 DEF LineOf, Modes
  <2>3. in.tree \in Seq(L) /\ <<>> \in Seq(L)
    <3>1. in.tree \in {<<>>, <<ModeLine("strict")>>, <<Header, line>>}
      BY <2>1 DEF TheTrees
    <3> HIDE DEF L, line
    <3>2. <<ModeLine("strict")>> \in Seq(L) /\ <<Header, line>> \in Seq(L) /\ <<>> \in Seq(L)
      BY <2>2, EmptySeq
    <3> QED BY <3>1, <3>2
  <2> DEFINE loaded == LoadAll(<<>>, <<>>, in.tree)
  <2>4. loaded.rules \in Seq(DenyRule) /\ loaded.mode \in Modes
    <3>1. loaded.rules \in Seq(ParsedOf(DenyRule)) /\ loaded.mode \in Modes
      BY <2>3, LoadAllElements
    <3> HIDE DEF loaded
    <3> QED BY <3>1, TheDenyRulesParse, SeqMonotonic
  <2>5. RulesInForce(in) = [mode |-> loaded.mode, rules |-> loaded.rules,
                            sessionRules |-> <<>>, confirmer |-> TRUE]
    BY <1>3 DEF RulesInForce, WorkerContext
  <2> HIDE DEF loaded
  <2> QED BY <1>1, <2>4, <2>5 DEF ContextOf
<1> QED BY <1>2, <1>3

LEMMA TheIdentityFields ==
  ASSUME NEW who \in TheIdentities
  PROVE  /\ who.scope \in {"main", "lead", "member"}
         /\ who.coordinator => who.scope = "lead"
         /\ who.coordinator \in BOOLEAN
         /\ who.scope = "member" => who.role.requested \in Modes \cup {"none"}
<1> DEFINE Mains == {CurrentIdentity(hasTeam, enabled, wished) :
                       hasTeam \in BOOLEAN, enabled \in BOOLEAN, wished \in BOOLEAN}
           Definitions == {NoDefinition, Role("strict", <<>>, 50), Role("default", <<"Find">>, 50)}
           Members == {MemberIdentity("m1", gated, plans, definition) :
                         gated \in BOOLEAN, plans \in ThePlans, definition \in Definitions}
<1>1. who \in Mains \/ who \in Members
  BY DEF TheIdentities
<1>2. CASE who \in Mains
  <2>1. PICK hasTeam \in BOOLEAN, enabled \in BOOLEAN, wished \in BOOLEAN :
          who = CurrentIdentity(hasTeam, enabled, wished)
    BY <1>2
  <2>2. CASE hasTeam = TRUE
    <3>1. who = Identity("lead", "lead", enabled /\ wished)
      BY <2>1, <2>2 DEF CurrentIdentity
    <3>2. who.scope = "lead" /\ who.coordinator = (enabled /\ wished)
      BY <3>1 DEF Identity
    <3> QED BY <3>2
  <2>3. CASE hasTeam = FALSE
    <3>1. who = Identity("main", "nobody", FALSE)
      BY <2>1, <2>3 DEF CurrentIdentity
    <3>2. who.scope = "main" /\ who.coordinator = FALSE
      BY <3>1 DEF Identity
    <3> QED BY <3>2
  <2> QED BY <2>2, <2>3
<1>3. CASE who \in Members
  <2> HIDE DEF Definitions
  <2>1. PICK gated \in BOOLEAN, plans \in ThePlans, definition \in Definitions :
          who = MemberIdentity("m1", gated, plans, definition)
    BY <1>3
  <2>2. who.scope = "member" /\ who.coordinator = FALSE /\ who.role = RoleOf(definition)
    BY <2>1 DEF MemberIdentity, Identity
  <2>3. definition.permission \in Modes \cup {"none"}
    BY DEF Definitions, NoDefinition, Role, Modes
  <2>4. RoleOf(definition).requested \in Modes \cup {"none"}
    BY <2>3 DEF RoleOf, NoRole
  <2> QED BY <2>2, <2>4
<1> QED BY <1>1, <1>2, <1>3

\* A command that the coordinator's guard admits changes something only by an
\* abort, an output or a substitution.
TheCommandFields(command) ==
  command.changes /\ ~ command.chained /\ (command.git \in GitReads \/ command.abort) =>
    command.option \in {"abort", "output", "substitution"}

LEMMA TheCommands ==
  ASSUME NEW sub \in {"none", "diff", "merge", "push"},
         NEW option \in {"none", "abort", "output", "substitution"}, NEW chained \in BOOLEAN
  PROVE  TheCommandFields(GitCommand(sub, option, chained))
<1> DEFINE command == GitCommand(sub, option, chained)
<1>1. /\ command.chained = chained /\ command.git = sub /\ command.option = option
      /\ command.abort = (option = "abort")
      /\ command.changes = (sub # "diff" \/ option # "none" \/ chained)
  BY DEF GitCommand
<1> HIDE DEF command
<1>2. TheCommandFields(command)
  <2> SUFFICES ASSUME command.changes, ~ command.chained, command.git \in GitReads \/ command.abort
               PROVE  command.option \in {"abort", "output", "substitution"}
    BY DEF TheCommandFields
  <2>1. option # "none" \/ sub # "diff"
    BY <1>1
  <2>2. sub \in GitReads \/ option = "abort"
    BY <1>1
  <2>3. sub \in GitReads => sub = "diff"
    BY DEF GitReads
  <2> QED BY <1>1, <2>1, <2>2, <2>3
<1> QED BY <1>2 DEF command

CallFields == {"name", "target", "place", "isObject", "command", "action", "as"}
LEMMA TheCallFields ==
  ASSUME NEW call \in TheTeamCalls
  PROVE  /\ \E Value : call \in [CallFields -> Value]
         /\ call.isObject
         /\ call.action = "claim" => call.name = "TeamTask"
         /\ call.name = "TeamPlanRequest" => call.action = "submit"
         /\ call.name = "Bash" => TheCommandFields(call.command)
<1>1. PICK name \in {"Glob", "Write", "Agent", "Skill", "Bash"} \cup TeamTools,
           place \in {"inside", "outside", "none"} :
        \E command, action, as :
        /\ call = TeamCall(name, place, command, action, as)
        /\ name \in TeamTools => action \in Actions[name]
        /\ name \notin TeamTools => action = "none"
        /\ name = "Bash" => TheCommandFields(command)
  <2>1. CASE call \in {TeamCall(name, place, NoCommand, "none", "nobody") :
                 name \in {"Glob", "Write", "Agent", "Skill"}, place \in {"inside", "outside"}}
    BY <2>1 DEF TeamTools
  <2>2. CASE call \in {TeamCall("Bash", "none", GitCommand(sub, option, chained), "none", "nobody") :
                 sub \in {"none", "diff", "merge", "push"},
                 option \in {"none", "abort", "output", "substitution"}, chained \in BOOLEAN}
    <3>1. PICK sub \in {"none", "diff", "merge", "push"},
               option \in {"none", "abort", "output", "substitution"}, chained \in BOOLEAN :
            call = TeamCall("Bash", "none", GitCommand(sub, option, chained), "none", "nobody")
      BY <2>2
    <3>2. TheCommandFields(GitCommand(sub, option, chained))
      BY TheCommands
    <3> DEFINE command == GitCommand(sub, option, chained)
    <3> HIDE DEF command
    <3>3. call = TeamCall("Bash", "none", command, "none", "nobody") /\ TheCommandFields(command)
      BY <3>1, <3>2 DEF command
    <3>4. "Bash" \notin TeamTools
      BY DEF TeamTools
    <3> QED BY <3>3, <3>4
  <2>3. CASE call \in UNION {{TeamCall(name, "none", NoCommand, action, as) :
                 action \in Actions[name], as \in {"lead", "m2"}} : name \in TeamTools}
    <3>1. PICK name \in TeamTools :
            call \in {TeamCall(name, "none", NoCommand, action, as) :
                        action \in Actions[name], as \in {"lead", "m2"}}
      BY <2>3
    <3>2. PICK action \in Actions[name], as \in {"lead", "m2"} :
            call = TeamCall(name, "none", NoCommand, action, as)
      BY <3>1
    <3>3. name # "Bash"
      BY DEF TeamTools
    <3> HIDE DEF Actions, TeamTools, NoCommand
    <3> QED BY <3>2, <3>3
  <2> QED BY <2>1, <2>2, <2>3 DEF TheTeamCalls
<1>2. PICK command, action, as :
        /\ call = TeamCall(name, place, command, action, as)
        /\ name \in TeamTools => action \in Actions[name]
        /\ name \notin TeamTools => action = "none"
        /\ name = "Bash" => TheCommandFields(command)
  BY <1>1
<1>3. call = [name |-> name, target |-> Plain, place |-> place, isObject |-> TRUE,
              command |-> command, action |-> action, as |-> as]
  BY <1>2 DEF TeamCall
<1>4. \E Value : call \in [CallFields -> Value]
  <2>1. call = [field \in CallFields |-> call[field]]
    BY <1>3 DEF CallFields
  <2>2. call \in [CallFields -> {call[field] : field \in CallFields}]
    BY <2>1
  <2> QED BY <2>2
<1>5. action = "claim" => name = "TeamTask"
  BY <1>2 DEF TeamTools, Actions
<1>6. name = "TeamPlanRequest" => action = "submit"
  BY <1>2 DEF TeamTools, Actions
<1>7. call.name = name /\ call.command = command /\ call.isObject /\ call.action = action
  BY <1>3
<1> QED BY <1>2, <1>4, <1>5, <1>6, <1>7

(* Every agent of a team keeps to its place, for every identity, call, way   *)
(* to it, set of rules and backend of MCAlgorithms (teams/scoping.py:17-141, *)
(* cli.py:225-248,334-352).                                                  *)
THEOREM TeamKeepsItsPlacesTheorem == AlgorithmsSpec => []TeamKeepsItsPlaces
<1>1. InputType => TeamKeepsItsPlaces
  <2> DEFINE who == input.who
             through == input.through
             call == input.call
             inForce == RulesInForce(input)
             context == ContextOfCaller(input)
             tool == ResolveName(TheTeamRegistry, call.name)
             registry == ToolsAround(input)
             ends == OutcomeOf(input)
             Denied == DeniedBy(inForce.rules, call)
  <2> SUFFICES ASSUME input \in TeamInputs
               PROVE  /\ ends = "ran" /\ who.scope = "member" =>
                           /\ through = "itself" /\ ~ Forbidden(call) /\ ~ Denied
                           /\ tool \notin {"Agent", "Skill", "Team", "TeamPlanDecision", "TeamIntegrate"}
                           /\ tool = "TeamTask" => call.action \notin {"create", "delete", "assign", "wait"}
                           /\ tool \in {"Write", "Bash"} /\ who.gated => Last(who.plans) = "allowed"
                           /\ tool = "Find" => "Find" \notin who.role.denied
                      /\ who.scope = "member" /\ through = "itself" /\ tool = "TeamPlanRequest"
                         /\ ~ Denied /\ who.role.requested # "strict" => ends = "ran"
                      /\ ends = "ran" /\ who.coordinator =>
                           /\ tool # "Agent"
                           /\ ChangesFiles(tool, call) /\ through = "itself" =>
                                tool = "Bash"
                                /\ call.command.option \in {"abort", "output", "substitution"}
                      /\ ends = "ran" /\ who.scope = "main" /\ tool \in TeamTools \ {"Team"} =>
                           through = "skill"
    BY DEF InputType, TeamKeepsItsPlaces
  <2>1. who \in TheIdentities /\ call \in TheTeamCalls /\ through \in {"itself", "skill"}
    BY DEF TeamInputs
  <2>0. /\ ends = Outcome(registry, who, through, call, context, "default", "once")
        /\ context = IF who.scope = "member" THEN MemberPermission(inForce, who.role.requested)
                     ELSE inForce
    BY DEF OutcomeOf, ContextOfCaller
  <2>2. inForce \in ContextOf(DenyRule) /\ inForce.sessionRules = <<>>
    BY TheRulesInForce
  <2>3. inForce.rules \in Seq(DenyRule) /\ inForce.sessionRules \o inForce.rules = inForce.rules
    <3>1. inForce.rules \in Seq(DenyRule)
      BY <2>2 DEF ContextOf
    <3> DEFINE rules == inForce.rules
    <3>2. <<>> \o rules = rules
      <4> HIDE DEF rules
      <4> QED BY <3>1 DEF rules
    <3> QED BY <2>2, <3>1, <3>2
  <2>4. /\ who.scope \in {"main", "lead", "member"}
        /\ who.coordinator => who.scope = "lead"
        /\ who.coordinator \in BOOLEAN
        /\ who.scope = "member" => who.role.requested \in Modes \cup {"none"}
    BY <2>1, TheIdentityFields
  <2>5. /\ RegistryInOrder(registry) /\ registry.system \subseteq {"Agent", "Skill"}
        /\ \A t \in ToolNames(registry) : registry.tools[t] = TheTeamRegistry.tools[t]
        /\ "TeamPlanRequest" \in ToolNames(registry)
        /\ \A name : ResolveName(registry, name) # None =>
             ResolveName(registry, name) = ResolveName(TheTeamRegistry, name)
    BY TheToolsAround
  <2>6. /\ \E Value : call \in [CallFields -> Value]
        /\ call.isObject
        /\ call.action = "claim" => call.name = "TeamTask"
        /\ call.name = "TeamPlanRequest" => call.action = "submit"
        /\ call.name = "Bash" => TheCommandFields(call.command)
    BY <2>1, TheCallFields
  <2>7. /\ tool \in ToolNames(TheTeamRegistry) /\ tool # "Find" => call.name = tool
        /\ call.name \in ToolNames(TheTeamRegistry) => tool = call.name
    BY TheTeamRegistryInOrder DEF ResolveName, RegistryInOrder
  <2>8. Denied <=> Matching(inForce.rules, call) # {}
    BY DEF Matching, DeniedBy
  <2> HIDE DEF who, through, call, inForce, context, tool, registry, ends, Denied
  \* What follows for any call that runs.
  <2>9. ASSUME ends = "ran"
        PROVE  /\ ResolveName(registry, call.name) = tool /\ tool \in ToolNames(registry)
               /\ InItsPlace(registry, who, through, call, context, "once")
    <3>1. InItsPlace(registry, who, through, call, context, "once")
      BY <2>0, <2>5, <2>9, TeamAgentsKeepTheirPlaces
    <3>2. ResolveName(registry, call.name) \in ToolNames(registry)
      BY <3>1 DEF InItsPlace
    <3>3. ResolveName(registry, call.name) # None
      BY <2>5, <3>2 DEF RegistryInOrder
    <3> QED BY <2>5, <3>1, <3>2, <3>3 DEF tool
  <2>10. ASSUME ends = "ran"
         PROVE  /\ who.scope = "member" =>
                     /\ through = "itself"
                     /\ tool \notin {"Agent", "Skill", "Team", "TeamPlanDecision", "TeamIntegrate"}
                     /\ tool = "TeamTask" => call.action \in MemberActions
                /\ through = "itself" =>
                     /\ who.gated /\ tool \notin MemberTools /\ registry.tools[tool].sideEffect =>
                          who.plans # <<>> /\ Last(who.plans) = "allowed"
                     /\ tool \notin MemberTools => tool \notin NormalizeNames(registry, who.role.denied)
                     /\ who.coordinator =>
                          /\ tool # "Write"
                          /\ tool = "Bash" => ~ call.command.chained
                               /\ (call.command.git \in GitReads \/ call.command.abort)
                     /\ who.scope = "main" => tool \notin TeamTools \ {"Team"}
                /\ who.scope = "lead" \/ through # "itself" => tool # "Agent"
                /\ tool \in registry.system \cup {"Skill"}
                   \/ Evaluate(call, registry.tools[tool], context, "once").allowed
    BY <2>9, <2>10 DEF InItsPlace
  <2>11. ASSUME ends = "ran", who.scope = "member"
         PROVE  /\ ~ Forbidden(call) /\ ~ Denied
                /\ tool = "TeamTask" => call.action \notin {"create", "delete", "assign", "wait"}
                /\ tool \in {"Write", "Bash"} /\ who.gated => Last(who.plans) = "allowed"
                /\ tool = "Find" => "Find" \notin who.role.denied
    <3>1. ~ Forbidden(call) /\ ~ Denied
      <4>1. tool \notin registry.system \cup {"Skill"}
        BY <2>5, <2>10, <2>11
      <4>2. context = MemberPermission(inForce, who.role.requested)
        BY <2>0, <2>11
      <4>3. Evaluate(call, registry.tools[tool], MemberPermission(inForce, who.role.requested),
                     "once").allowed
        BY <2>10, <2>11, <4>1, <4>2
      <4>4. /\ ~ Forbidden(call)
            /\ Matching(inForce.rules, call) # {} =>
                 inForce.rules[First(Matching(inForce.rules, call))].action = "allow"
        <5>1. LET rules == inForce.sessionRules \o inForce.rules
                  matching == Matching(rules, call) IN
              ~ Forbidden(call) /\ (matching # {} => rules[First(matching)].action = "allow")
          BY <2>2, <2>4, <2>11, <4>3, MemberObeysRules
        <5> QED BY <2>3, <5>1
      <4>5. Matching(inForce.rules, call) # {} =>
              inForce.rules[First(Matching(inForce.rules, call))] \in DenyRule
        <5> SUFFICES ASSUME Matching(inForce.rules, call) # {}
                     PROVE  inForce.rules[First(Matching(inForce.rules, call))] \in DenyRule
          OBVIOUS
        <5>1. inForce.rules[First(Matching(inForce.rules, call))] \in ToSet(inForce.rules)
          BY <2>3, FirstMatches
        <5>2. ToSet(inForce.rules) \subseteq DenyRule
          BY <2>3 DEF ToSet
        <5> QED BY <5>1, <5>2
      <4> QED BY <2>8, <4>4, <4>5, TheDenyRules
    <3>2. tool = "TeamTask" => call.action \notin {"create", "delete", "assign", "wait"}
      BY <2>10, <2>11 DEF MemberActions
    <3>4. ASSUME tool \in {"Write", "Bash"}, who.gated PROVE Last(who.plans) = "allowed"
      <4>1. registry.tools[tool].sideEffect
        BY <2>5, <2>9, <2>11, <3>4, TheTeamRegistryInOrder
      <4>2. tool \notin MemberTools
        BY <3>4 DEF MemberTools
      <4> QED BY <2>10, <2>11, <3>4, <4>1, <4>2
    <3>5. ASSUME tool = "Find" PROVE "Find" \notin who.role.denied
      <4>1. tool \notin MemberTools /\ tool # None
        BY <3>5 DEF MemberTools, None
      <4>2. tool \notin NormalizeNames(registry, who.role.denied)
        BY <2>10, <2>11, <4>1
      <4>3. tool \in ToolNames(registry)
        BY <2>9, <2>11
      <4> QED BY <3>5, <4>1, <4>2, <4>3, NormalizedAreTools
    <3> QED BY <3>1, <3>2, <3>4, <3>5
  <2>12. ASSUME who.scope = "member", through = "itself", tool = "TeamPlanRequest", ~ Denied,
                who.role.requested # "strict"
         PROVE  ends = "ran"
    <3>1. call.name = "TeamPlanRequest"
      BY <2>7, <2>12, TheTeamRegistryInOrder DEF TeamTools
    <3>2. Matching(inForce.sessionRules \o inForce.rules, call) = {}
      BY <2>3, <2>8, <2>12
    <3>3. ~ who.coordinator
      BY <2>4, <2>12
    <3>4. DOMAIN call = CallFields /\ "action" \in CallFields
      BY <2>6 DEF CallFields
    <3>5. AsksForPlan(registry, who, call, inForce, who.role.requested)
      BY <2>2, <2>4, <2>5, <2>6, <2>12, <3>1, <3>2, <3>3, <3>4 DEF AsksForPlan
    <3>6. ScopedOutcome(registry, who, call, MemberPermission(inForce, who.role.requested),
                        "default", "once") = "ran"
      BY <3>5, MembersCanAsk
    <3> QED BY <2>0, <2>12, <3>6 DEF Outcome
  <2>13. ASSUME ends = "ran", who.coordinator
         PROVE  /\ tool # "Agent"
                /\ ChangesFiles(tool, call) /\ through = "itself" =>
                     tool = "Bash" /\ call.command.option \in {"abort", "output", "substitution"}
    <3>1. tool # "Agent"
      BY <2>4, <2>10, <2>13
    <3>2. ASSUME ChangesFiles(tool, call), through = "itself"
          PROVE  tool = "Bash" /\ call.command.option \in {"abort", "output", "substitution"}
      <4>1. tool = "Bash" /\ call.command.changes
        BY <2>10, <2>13, <3>2 DEF ChangesFiles
      <4>2. ~ call.command.chained /\ (call.command.git \in GitReads \/ call.command.abort)
        BY <2>10, <2>13, <3>2, <4>1
      <4>3. call.name = "Bash"
        BY <2>7, <4>1, TheTeamRegistryInOrder
      <4>4. TheCommandFields(call.command)
        BY <2>6, <4>3
      <4> QED BY <4>1, <4>2, <4>4 DEF TheCommandFields
    <3> QED BY <3>1, <3>2
  <2> QED BY <2>1, <2>10, <2>11, <2>12, <2>13
<1> QED BY <1>1, InputTypeInvariant, PTL

-----------------------------------------------------------------------------
(* What a skill and a forked subagent are given (ChildRuns)                  *)

\* The joined starts of a sequence of sequences.
Joins(s, f) == f[0] = <<>> /\ \A i \in 1 .. Len(s) : f[i] = f[i - 1] \o s[i]

LEMMA FlattenIsDefined ==
  ASSUME NEW T, NEW s \in Seq(Seq(T))
  PROVE  \E f \in [0 .. Len(s) -> Seq(T)] : Joins(s, f) /\ FlattenSeq(s) = f[Len(s)]
<1> DEFINE n == Len(s)
           Body(f, i) == IF i = 1 THEN s[i] ELSE f[i - 1] \o s[i]
           step == [p \in Seq(T) \X (1 .. n) |-> p[1] \o s[p[2]]]
           all == CHOOSE f : f = [i \in 1 .. n |-> Body(f, i)]
<1>0. n \in Nat /\ s \in [1 .. n -> Seq(T)] /\ <<>> \in Seq(T)
  BY EmptySeq
<1>1. step \in [Seq(T) \X (1 .. n) -> Seq(T)]
  <2> SUFFICES ASSUME NEW p \in Seq(T) \X (1 .. n) PROVE p[1] \o s[p[2]] \in Seq(T)
    OBVIOUS
  <2>1. p[1] \in Seq(T) /\ s[p[2]] \in Seq(T)
    BY <1>0
  <2> HIDE DEF n
  <2> QED BY <2>1
<1>2. PICK f \in [0 .. n -> Seq(T)] : Recurs(n, <<>>, step, f)
  <2> HIDE DEF n, step
  <2> QED BY <1>0, <1>1, ForwardRecursion
<1>3. ASSUME NEW i \in 1 .. n PROVE f[i] = f[i - 1] \o s[i] /\ i - 1 \in 0 .. n
  <2>1. i - 1 \in 0 .. n
    BY <1>0
  <2>2. <<f[i - 1], i>> \in Seq(T) \X (1 .. n)
    BY <1>2, <2>1
  <2>3. step[<<f[i - 1], i>>] = f[i - 1] \o s[i]
    <3> HIDE DEF n
    <3> QED BY <2>2
  <2> HIDE DEF step, n
  <2> QED BY <1>2, <2>1, <2>3 DEF Recurs
<1>4. Joins(s, f)
  <2> HIDE DEF step
  <2> QED BY <1>2, <1>3 DEF Joins, Recurs
<1> HIDE DEF step
<1>5. FlattenSeq(s) = f[n]
  <2>1. CASE n = 0
    <3>1. s = <<>>
      BY <1>0, <2>1
    <3> QED BY <1>4, <2>1, <3>1 DEF FlattenSeq, Joins
  <2>2. CASE n # 0
    <3> DEFINE g == [i \in 1 .. n |-> f[i]]
    <3>1. ASSUME NEW i \in 1 .. n PROVE f[i] = Body(g, i)
      <4>1. CASE i = 1
        <5>1. f[1] = <<>> \o s[1] /\ s[1] \in Seq(T)
          <6>1. 1 \in 1 .. n /\ 1 - 1 = 0
            BY <4>1
          <6> HIDE DEF n
          <6> QED BY <1>0, <1>3, <1>4, <6>1 DEF Joins
        <5>2. <<>> \o s[1] = s[1]
          BY <5>1, ConcatEmptySeq
        <5> QED BY <4>1, <5>1, <5>2
      <4>2. CASE i # 1
        <5>1. i - 1 \in 1 .. n
          BY <1>0, <4>2
        <5>2. g[i - 1] = f[i - 1]
          BY <5>1
        <5> HIDE DEF g
        <5> QED BY <1>3, <4>2, <5>2
      <4> QED BY <4>1, <4>2
    <3>2. g = [i \in 1 .. n |-> Body(g, i)]
      <4> HIDE DEF Body, n
      <4> QED BY <3>1
    <3>3. all = [i \in 1 .. n |-> Body(all, i)]
      <4> HIDE DEF g, Body, n
      <4> QED BY <3>2
    <3>4. \A i \in 1 .. n : all[i] = Body(all, i)
      <4> HIDE DEF Body, n, all
      <4> QED BY <3>3
    <3> DEFINE Same == {k \in 0 .. n : k = 0 \/ all[k] = f[k]}
    <3>5. 0 \in Same
      BY <1>0
    <3>6. ASSUME NEW k \in 0 .. n - 1, k \in Same PROVE k + 1 \in Same
      <4>1. k + 1 \in 1 .. n /\ k + 1 \in 0 .. n /\ (k + 1) - 1 = k /\ (k # 0 => k + 1 # 1)
        BY <1>0
      <4>2. all[k + 1] = Body(all, k + 1) /\ f[k + 1] = Body(g, k + 1)
        <5> HIDE DEF all, Body, g
        <5> QED BY <3>1, <3>4, <4>1
      <4>3. CASE k = 0
        <5> HIDE DEF all, g
        <5> QED BY <4>1, <4>2, <4>3
      <4>4. CASE k # 0
        <5>1. k \in 1 .. n /\ all[k] = f[k]
          BY <3>6, <4>4
        <5>2. g[k] = f[k]
          BY <5>1
        <5> HIDE DEF all, g
        <5> QED BY <4>1, <4>2, <4>4, <5>1, <5>2
      <4> QED BY <4>3, <4>4
    <3>7. all[n] = f[n]
      <4>1. 0 .. n \subseteq Same
        <5> HIDE DEF Same
        <5> QED BY <1>0, <3>5, <3>6, Forwards
      <4>2. n \in Same
        <5> HIDE DEF Same, n
        <5> QED BY <1>0, <4>1
      <4> HIDE DEF all, n
      <4> QED BY <2>2, <4>2
    <3>8. FlattenSeq(s) = all[n]
      BY <2>2 DEF FlattenSeq
    <3> HIDE DEF all
    <3> QED BY <3>7, <3>8
  <2> QED BY <2>1, <2>2
<1> HIDE DEF n
<1> QED BY <1>2, <1>4, <1>5 DEF n

LEMMA FlattenFirst ==
  ASSUME NEW T, NEW g \in Seq(T), NEW r \in Seq(Seq(T))
  PROVE  FlattenSeq(<<g>> \o r) = g \o FlattenSeq(r)
<1> DEFINE n == Len(r)
           s == <<g>> \o r
<1>1. /\ n \in Nat /\ s \in Seq(Seq(T)) /\ Len(s) = n + 1 /\ s[1] = g
      /\ \A i \in 1 .. n : s[i + 1] = r[i] /\ r[i] \in Seq(T)
  OBVIOUS
<1> HIDE DEF s
<1>2. PICK f \in [0 .. n + 1 -> Seq(T)] : Joins(s, f) /\ FlattenSeq(s) = f[n + 1]
  <2> HIDE DEF n
  <2>1. \E f \in [0 .. Len(s) -> Seq(T)] : Joins(s, f) /\ FlattenSeq(s) = f[Len(s)]
    BY <1>1, FlattenIsDefined
  <2> QED BY <1>1, <2>1
<1>3. PICK h \in [0 .. n -> Seq(T)] : Joins(r, h) /\ FlattenSeq(r) = h[n]
  BY FlattenIsDefined
<1> DEFINE Good == {k \in 0 .. n : f[k + 1] = g \o h[k]}
<1> HIDE DEF n
<1>4. 0 \in Good
  <2>1. 1 \in 1 .. n + 1 /\ 1 - 1 = 0 /\ 0 + 1 = 1 /\ 0 \in 0 .. n
    BY <1>1
  <2>2. f[1] = <<>> \o g /\ h[0] = <<>>
    BY <1>1, <1>2, <1>3, <2>1 DEF Joins
  <2>3. <<>> \o g = g \o <<>>
    BY ConcatEmptySeq
  <2> QED BY <2>1, <2>2, <2>3
<1>5. ASSUME NEW k \in 0 .. n - 1, k \in Good PROVE k + 1 \in Good
  <2>1. /\ k \in 0 .. n /\ k + 1 \in 1 .. n /\ k + 1 \in 0 .. n /\ (k + 1) - 1 = k
        /\ (k + 1) + 1 \in 1 .. n + 1 /\ ((k + 1) + 1) - 1 = k + 1
    BY <1>1
  <2>2. f[(k + 1) + 1] = f[k + 1] \o r[k + 1] /\ h[k + 1] = h[k] \o r[k + 1]
    BY <1>1, <1>2, <1>3, <2>1 DEF Joins, n
  <2>3. h[k] \in Seq(T) /\ r[k + 1] \in Seq(T)
    BY <1>1, <1>3, <2>1
  <2>4. f[k + 1] = g \o h[k]
    BY <1>5
  <2>5. (g \o h[k]) \o r[k + 1] = g \o (h[k] \o r[k + 1])
    <3> DEFINE before == h[k]
               last == r[k + 1]
    <3>1. before \in Seq(T) /\ last \in Seq(T)
      BY <2>3
    <3> HIDE DEF before, last
    <3>2. (g \o before) \o last = g \o (before \o last)
      BY <3>1
    <3> QED BY <3>2 DEF before, last
  <2> QED BY <2>1, <2>2, <2>4, <2>5
<1>6. n \in Good
  <2> HIDE DEF Good
  <2>1. 0 .. n \subseteq Good
    BY <1>1, <1>4, <1>5, Forwards
  <2> QED BY <1>1, <2>1
<1> QED BY <1>2, <1>3, <1>6 DEF s

LEMMA FirstIsNoResult ==
  ASSUME NEW m \in Seq(Formed), NEW b, PairedUpTo(m, b), 1 < b
  PROVE  m[1].role # "tool"
<1> DEFINE s == SubSeq(m, 1, b - 1)
<1>1. DOMAIN s = 1 .. b - 1 /\ 1 \in 1 .. b - 1 /\ s[1] = m[1] /\ 1 .. 1 - 1 = {} /\ Paired(s)
  BY DEF PairedUpTo
<1> HIDE DEF s
<1> QED BY <1>1 DEF Paired

\* The scan of Segments, one message at a time.
Segmented(m, f) ==
  /\ f[Len(m) + 1] = <<>>
  /\ \A i \in 1 .. Len(m) :
       LET end == LastResult(m, i) IN
       /\ m[i].role = "tool" => f[i] = f[i + 1]
       /\ m[i].role # "tool" /\ ~ Asks(m[i]) => f[i] = <<<<m[i]>>>> \o f[i + 1]
       /\ Asks(m[i]) /\ ~ Complete(m, i, end) => f[i] = <<>> \o f[end + 1]
       /\ Asks(m[i]) /\ Complete(m, i, end) => f[i] = <<SubSeq(m, i, end)>> \o f[end + 1]

LEMMA SegmentScan ==
  ASSUME NEW m, Len(m) \in Nat
  PROVE  \E f : Segmented(m, f) /\ Segments(m) = f[1]
<1> DEFINE n == Len(m)
           end(i) == LastResult(m, i)
           Body(f, i) ==
             IF i > n THEN <<>>
             ELSE IF Asks(m[i])
             THEN (IF Complete(m, i, end(i)) THEN <<SubSeq(m, i, end(i))>> ELSE <<>>) \o f[end(i) + 1]
             ELSE IF m[i].role = "tool" THEN f[i + 1]
             ELSE <<<<m[i]>>>> \o f[i + 1]
           Ends == {i \in 1 .. n + 1 : i > n}
           Left == {i \in 1 .. n + 1 : m[i].role = "tool"}
           kept == [i \in 1 .. n + 1 |->
                      IF Asks(m[i])
                      THEN IF Complete(m, i, end(i)) THEN <<SubSeq(m, i, end(i))>> ELSE <<>>
                      ELSE <<<<m[i]>>>>]
           next == [i \in 1 .. n + 1 |-> IF Asks(m[i]) THEN end(i) + 1 ELSE i + 1]
           Step(f, i) == IF i \in Ends THEN <<>>
                         ELSE IF i \in Left THEN f[next[i]]
                         ELSE kept[i] \o f[next[i]]
           all == CHOOSE f : f = [i \in 1 .. n + 1 |-> Body(f, i)]
<1>0. /\ n \in Nat /\ n + 1 \in 1 .. n + 1 /\ n + 1 > n /\ 1 .. n \subseteq 1 .. n + 1
      /\ \A i \in 1 .. n + 1 : i > n \/ i \in 1 .. n
      /\ \A i \in 1 .. n : ~ (i > n)
  OBVIOUS
<1>1. ASSUME NEW i \in 1 .. n PROVE end(i) \in i .. n
  BY LastResultIs DEF LastIs
<1>2. ASSUME NEW i \in 1 .. n + 1, i \notin Ends PROVE next[i] \in i + 1 .. n + 1
  <2>1. i \in 1 .. n
    BY <1>0, <1>2
  <2>2. i + 1 \in i + 1 .. n + 1
    BY <1>0, <2>1
  <2>3. end(i) + 1 \in i + 1 .. n + 1
    <3>1. end(i) \in i .. n
      BY <1>1, <2>1
    <3> HIDE DEF n, end
    <3> QED BY <1>0, <2>1, <3>1
  <2> HIDE DEF n, end
  <2> QED BY <2>2, <2>3
<1>3. ASSUME NEW f, NEW i \in 1 .. n + 1 PROVE Body(f, i) = Step(f, i)
  <2> HIDE DEF n, end
  <2>1. CASE i > n
    BY <2>1
  <2>2. CASE ~ (i > n)
    <3>1. Asks(m[i]) => m[i].role # "tool"
      BY DEF Asks
    <3> QED BY <2>2, <3>1
  <2> QED BY <2>1, <2>2
<1>4. \E f : f = [i \in 1 .. n + 1 |-> Body(f, i)]
  <2> HIDE DEF n, Ends, Left, kept, next, Body
  <2>1. n \in Nat /\ \A i \in 1 .. n + 1 : i \notin Ends => next[i] \in i + 1 .. n + 1
    BY <1>0, <1>2
  <2>2. PICK f : Scans(n, Ends, Left, kept, next, f)
    BY <2>1, ScanIsDefined, Zenon
  <2>3. f = [i \in 1 .. n + 1 |-> f[i]] /\ \A i \in 1 .. n + 1 : f[i] = Step(f, i)
    BY <2>2 DEF Scans
  <2> HIDE DEF Step
  <2>4. f = [i \in 1 .. n + 1 |-> Body(f, i)]
    BY <2>3, <1>3
  <2> QED BY <2>4
<1>5. all = [i \in 1 .. n + 1 |-> Body(all, i)]
  <2> HIDE DEF Body, n
  <2> QED BY <1>4
<1>6. \A i \in 1 .. n + 1 : all[i] = Body(all, i)
  <2> HIDE DEF Body, n, all
  <2> QED BY <1>5
<1>7. Segments(m) = all[1]
  BY DEF Segments
<1> HIDE DEF all
<1>8. Segmented(m, all)
  <2>1. all[n + 1] = <<>>
    BY <1>0, <1>6
  <2>2. ASSUME NEW i \in 1 .. n
        PROVE  /\ m[i].role = "tool" => all[i] = all[i + 1]
               /\ m[i].role # "tool" /\ ~ Asks(m[i]) => all[i] = <<<<m[i]>>>> \o all[i + 1]
               /\ Asks(m[i]) /\ ~ Complete(m, i, end(i)) => all[i] = <<>> \o all[end(i) + 1]
               /\ Asks(m[i]) /\ Complete(m, i, end(i)) =>
                    all[i] = <<SubSeq(m, i, end(i))>> \o all[end(i) + 1]
    <3>1. all[i] = Body(all, i) /\ ~ (i > n)
      BY <1>0, <1>6
    <3>2. Asks(m[i]) => m[i].role # "tool"
      BY DEF Asks
    <3> HIDE DEF n, end
    <3> QED BY <3>1, <3>2
  <2> QED BY <2>1, <2>2 DEF Segmented
<1> QED BY <1>7, <1>8

\* Behind message b stands nothing but a response that is being answered.
OpenAt(m, b) ==
  /\ PairedUpTo(m, b)
  /\ b <= Len(m) => /\ Asks(m[b])
                    /\ \A j \in b + 1 .. Len(m) : m[j].role = "tool"
                    /\ ~ (Calls(m[b]) \subseteq {m[j].answers : j \in b + 1 .. Len(m)})

LEMMA AnswersBehind ==
  ASSUME NEW m \in Seq(Formed), NEW i \in 1 .. Len(m), NEW e \in i .. Len(m)
  PROVE  AnswersIn(SubSeq(m, i + 1, e)) = {m[j].answers : j \in i + 1 .. e}
<1> DEFINE s == SubSeq(m, i + 1, e)
           n == Len(m)
<1>1. i \in Nat /\ e \in Nat /\ i + 1 \in Int /\ e \in Int /\ n \in Nat
  OBVIOUS
<1>2. \A j \in i + 1 .. e : m[j] \in Formed
  <2> SUFFICES ASSUME NEW j \in i + 1 .. e PROVE m[j] \in Formed
    OBVIOUS
  <2>1. j \in 1 .. n
    BY <1>1
  <2> QED BY <2>1, ElementOfSeq
<1>3. /\ s \in Seq(Formed)
      /\ Len(s) = IF i + 1 <= e THEN e - (i + 1) + 1 ELSE 0
      /\ \A x \in 1 .. e - (i + 1) + 1 : s[x] = m[i + 1 + x - 1]
  <2> HIDE DEF n
  <2> QED BY <1>1, <1>2, SubSeqProperties
<1> HIDE DEF s, n
<1>4. /\ (IF i + 1 <= e THEN e - (i + 1) + 1 ELSE 0) = e - i
      /\ e - (i + 1) + 1 = e - i
      /\ \A x \in 1 .. e - i : i + 1 + x - 1 = i + x /\ i + x \in i + 1 .. e
      /\ \A j \in i + 1 .. e : j - i \in 1 .. e - i /\ i + (j - i) = j
  <2>1. e >= i
    OBVIOUS
  <2> QED BY <1>1, <2>1
<1>5. DOMAIN s = 1 .. e - i /\ \A x \in 1 .. e - i : s[x] = m[i + x]
  <2>1. Len(s) = e - i
    BY <1>3, <1>4
  <2> QED BY <1>3, <1>4, <2>1, LenProperties
<1>6. ASSUME NEW x \in 1 .. e - i PROVE s[x].answers \in {m[j].answers : j \in i + 1 .. e}
  BY <1>4, <1>5
<1>7. ASSUME NEW j \in i + 1 .. e PROVE m[j].answers \in {s[x].answers : x \in 1 .. e - i}
  <2>1. j - i \in 1 .. e - i /\ s[j - i] = m[i + (j - i)] /\ i + (j - i) = j
    BY <1>4, <1>5
  <2>2. s[j - i] = m[j]
    BY <2>1
  <2> QED BY <2>1, <2>2
<1>8. AnswersIn(s) = {m[j].answers : j \in i + 1 .. e}
  BY <1>5, <1>6, <1>7 DEF AnswersIn
<1> QED BY <1>8 DEF s

\* The response that is being answered gives no segment, and a fork ends there.
LEMMA OpenEnds ==
  ASSUME NEW m \in Seq(Formed), NEW b, OpenAt(m, b)
  PROVE  /\ \A f : Segmented(m, f) => f[b] = <<>>
         /\ \A f : Forks(m, f) => f[b] = <<>>
<1> DEFINE n == Len(m)
<1>1. b \in 1 .. n + 1 /\ b \in Nat /\ n \in Nat
  BY DEF OpenAt, PairedUpTo
<1>2. CASE b = n + 1
  BY <1>2 DEF Segmented, Forks
<1>3. CASE b # n + 1
  <2>1. /\ b \in 1 .. n /\ b <= n /\ Asks(m[b]) /\ \A j \in b + 1 .. n : m[j].role = "tool"
        /\ ~ (Calls(m[b]) \subseteq {m[j].answers : j \in b + 1 .. n})
    BY <1>1, <1>3 DEF OpenAt
  <2>2. LastResult(m, b) = n
    <3>1. LastIs(m, b, n)
      <4>1. n \in b .. n /\ ~ (n < n)
        BY <1>1, <2>1
      <4> QED BY <2>1, <4>1 DEF LastIs
    <3> QED BY <1>1, <2>1, <3>1, LastResultIs
  <2>3. n \in b .. n
    BY <1>1, <2>1
  <2>4. AnswersIn(SubSeq(m, b + 1, n)) = {m[j].answers : j \in b + 1 .. n}
    BY <2>1, <2>3, AnswersBehind
  <2>5. ~ Complete(m, b, n)
    BY <2>1, <2>4 DEF Complete
  <2>6. ~ Whole(m, b)
    <3>1. AnswersIn(Kept(m, b)) \subseteq {m[j].answers : j \in b + 1 .. n}
      BY <2>1, <2>2, <2>3, KeptAnswers
    <3> QED BY <2>1, <3>1 DEF Whole
  <2>7. ASSUME NEW f, Segmented(m, f) PROVE f[b] = <<>>
    <3>1. f[b] = <<>> \o f[n + 1] /\ f[n + 1] = <<>>
      BY <2>1, <2>2, <2>5, <2>7 DEF Segmented
    <3>2. <<>> \o <<>> = <<>>
      OBVIOUS
    <3> QED BY <3>1, <3>2
  <2>8. ASSUME NEW f, Forks(m, f) PROVE f[b] = <<>>
    BY <2>1, <2>6, <2>8 DEF Forks
  <2> QED BY <2>7, <2>8
<1> QED BY <1>2, <1>3

\* Segments that hold the messages from p up to b: so does the rest of them
\* behind each, from some message that is no result.
Cut(m, b, p, s) ==
  /\ s \in Seq(Seq(Formed))
  /\ FlattenSeq(s) = SubSeq(m, p, b - 1)
  /\ \A k \in 1 .. Len(s) + 1 :
       \E q \in p .. b : /\ FlattenSeq(SubSeq(s, k, Len(s))) = SubSeq(m, q, b - 1)
                         /\ q < b => m[q].role # "tool"

LEMMA CutNone ==
  ASSUME NEW m, NEW b \in Nat
  PROVE  Cut(m, b, b, <<>>)
<1>1. <<>> \in Seq(Seq(Formed)) /\ Len(<<>>) = 0
  BY EmptySeq
<1>2. FlattenSeq(<<>>) = <<>>
  BY <1>1 DEF FlattenSeq
<1>3. SubSeq(m, b, b - 1) = <<>>
  BY SubSeqEmpty
<1>4. ASSUME NEW k \in 1 .. Len(<<>>) + 1 PROVE SubSeq(<<>>, k, Len(<<>>)) = <<>>
  <2>1. k \in Int /\ 0 \in Int /\ 0 < k
    BY <1>1
  <2> QED BY <1>1, <2>1, SubSeqEmpty
<1>5. b \in b .. b /\ ~ (b < b)
  OBVIOUS
<1> QED BY <1>1, <1>2, <1>3, <1>4, <1>5 DEF Cut

LEMMA CutFirst ==
  ASSUME NEW m \in Seq(Formed), NEW b \in 1 .. Len(m) + 1, NEW p \in 1 .. b - 1,
         m[p].role # "tool", NEW e \in p .. b - 1, NEW r, Cut(m, b, e + 1, r)
  PROVE  Cut(m, b, p, <<SubSeq(m, p, e)>> \o r)
<1> DEFINE g == SubSeq(m, p, e)
           s == <<g>> \o r
           n == Len(r)
           N == Len(m)
<1>0. r \in Seq(Seq(Formed)) /\ n \in Nat /\ N \in Nat /\ FlattenSeq(r) = SubSeq(m, e + 1, b - 1)
  BY DEF Cut
<1>1. p \in Nat /\ e \in Nat /\ b \in Nat /\ e + 1 \in p .. b /\ p \in p .. b /\ p < b
      /\ p \in 1 .. N + 1 /\ e \in p - 1 .. N /\ b - 1 \in e .. N
  <2>1. b \in 1 .. N + 1
    OBVIOUS
  <2> HIDE DEF N
  <2> QED BY <1>0, <2>1
<1>2. g \in Seq(Formed)
  <2>1. \A j \in p .. e : m[j] \in Formed
    <3> SUFFICES ASSUME NEW j \in p .. e PROVE m[j] \in Formed
      OBVIOUS
    <3>1. j \in 1 .. N
      <4> HIDE DEF N
      <4> QED BY <1>0, <1>1
    <3> QED BY <3>1, ElementOfSeq
  <2> QED BY <1>1, <2>1, SubSeqProperties
<1> HIDE DEF g, N
<1>3. /\ s \in Seq(Seq(Formed)) /\ Len(s) = n + 1
      /\ \A i \in 1 .. n : s[i + 1] = r[i]
  BY <1>0, <1>2
<1>4. FlattenSeq(s) = SubSeq(m, p, b - 1)
  <2>1. FlattenSeq(s) = g \o FlattenSeq(r)
    BY <1>0, <1>2, FlattenFirst
  <2>2. g \o SubSeq(m, e + 1, b - 1) = SubSeq(m, p, b - 1)
    BY <1>1, ConcatAdjacentSubSeq DEF g, N
  <2> QED BY <1>0, <2>1, <2>2
<1> HIDE DEF s, n
<1>5. SubSeq(s, 1, Len(s)) = s
  BY <1>3, SubSeqFull
<1>6. ASSUME NEW k \in 1 .. Len(s) + 1
      PROVE  \E q \in p .. b : /\ FlattenSeq(SubSeq(s, k, Len(s))) = SubSeq(m, q, b - 1)
                               /\ q < b => m[q].role # "tool"
  <2>1. CASE k = 1
    BY <1>1, <1>4, <1>5, <2>1
  <2>2. CASE k # 1
    <3>1. /\ k - 1 \in 1 .. n + 1 /\ k \in Int /\ n \in Int /\ k - 1 \in Int /\ n + 1 \in Int
          /\ \A i \in k .. n + 1 : i - 1 \in 1 .. n /\ i - 1 \in k - 1 .. n /\ (i - 1) + 1 = i
          /\ \A i \in k - 1 .. n : i \in 1 .. n
          /\ (IF k <= n + 1 THEN n + 1 - k + 1 ELSE 0)
                = (IF k - 1 <= n THEN n - (k - 1) + 1 ELSE 0)
          /\ \A x \in 1 .. n + 1 - k + 1 : /\ x \in 1 .. n - (k - 1) + 1
                                           /\ k + x - 1 = (k - 1 + x - 1) + 1
                                           /\ k - 1 + x - 1 \in 1 .. n
      BY <1>0, <1>3, <2>2
    <3>2. SubSeq(s, k, n + 1) = SubSeq(r, k - 1, n)
      <4> DEFINE u == SubSeq(s, k, n + 1)
                 v == SubSeq(r, k - 1, n)
      <4>1. \A i \in k - 1 .. n : r[i] \in Seq(Formed)
        BY <1>0, <3>1, ElementOfSeq DEF n
      <4>2. \A i \in k .. n + 1 : s[i] \in Seq(Formed)
        <5> SUFFICES ASSUME NEW i \in k .. n + 1 PROVE s[i] \in Seq(Formed)
          OBVIOUS
        <5>1. i - 1 \in 1 .. n /\ (i - 1) + 1 = i /\ i - 1 \in k - 1 .. n
          BY <3>1
        <5>2. s[(i - 1) + 1] = r[i - 1] /\ r[i - 1] \in Seq(Formed)
          BY <1>3, <4>1, <5>1
        <5> QED BY <5>1, <5>2
      <4>3. /\ u \in Seq(Seq(Formed))
            /\ Len(u) = IF k <= n + 1 THEN n + 1 - k + 1 ELSE 0
            /\ \A x \in 1 .. n + 1 - k + 1 : u[x] = s[k + x - 1]
        BY <3>1, <4>2, SubSeqProperties
      <4>4. /\ v \in Seq(Seq(Formed))
            /\ Len(v) = IF k - 1 <= n THEN n - (k - 1) + 1 ELSE 0
            /\ \A x \in 1 .. n - (k - 1) + 1 : v[x] = r[k - 1 + x - 1]
        BY <3>1, <4>1, SubSeqProperties
      <4> HIDE DEF u, v
      <4>5. Len(u) = Len(v)
        BY <3>1, <4>3, <4>4
      <4>6. ASSUME NEW x \in 1 .. Len(u) PROVE u[x] = v[x]
        <5>1. x \in 1 .. n + 1 - k + 1
          BY <1>0, <3>1, <4>3
        <5> DEFINE y == k - 1 + x - 1
        <5>2. x \in 1 .. n - (k - 1) + 1 /\ k + x - 1 = y + 1 /\ y \in 1 .. n
          BY <3>1, <5>1
        <5>3. u[x] = s[k + x - 1] /\ v[x] = r[y]
          BY <4>3, <4>4, <5>1, <5>2
        <5> HIDE DEF y
        <5>4. s[y + 1] = r[y]
          BY <1>3, <5>2
        <5> QED BY <5>2, <5>3, <5>4
      <4>7. u = v
        BY <4>3, <4>4, <4>5, <4>6, SeqEqual
      <4> QED BY <4>7 DEF u, v
    <3>3. PICK q \in e + 1 .. b : /\ FlattenSeq(SubSeq(r, k - 1, n)) = SubSeq(m, q, b - 1)
                                  /\ q < b => m[q].role # "tool"
      BY <3>1 DEF Cut, n
    <3>4. q \in p .. b
      BY <1>1
    <3> QED BY <1>3, <3>2, <3>3, <3>4
  <2> QED BY <2>1, <2>2
<1> QED BY <1>3, <1>4, <1>6 DEF Cut, s, g

\* The segments are what is finished, cut where a message is no result.
LEMMA SegmentsAreFinished ==
  ASSUME NEW m \in Seq(Formed), NEW b, OpenAt(m, b)
  PROVE  Cut(m, b, 1, Segments(m))
<1> DEFINE n == Len(m)
<1>1. b \in 1 .. n + 1 /\ b \in Nat /\ n \in Nat /\ PairedUpTo(m, b)
  BY DEF OpenAt, PairedUpTo
<1>2. PICK f : Segmented(m, f) /\ Segments(m) = f[1]
  BY <1>1, SegmentScan
<1>3. f[b] = <<>>
  BY <1>2, OpenEnds
<1> DEFINE Good == {i \in 1 .. b : (i < b /\ m[i].role = "tool") \/ Cut(m, b, i, f[i])}
<1>4. b \in Good
  <2>1. b \in 1 .. b
    BY <1>1
  <2> QED BY <1>1, <1>3, <2>1, CutNone
<1>5. ASSUME NEW i \in 1 .. b, i + 1 .. b \subseteq Good PROVE i \in Good
  <2>1. CASE i = b
    BY <1>4, <2>1
  <2>2. CASE i # b
    <3>1. i \in 1 .. b - 1 /\ i \in 1 .. n /\ i \in Nat /\ i < b
      BY <1>1, <2>2
    <3> SUFFICES ASSUME m[i].role # "tool" PROVE Cut(m, b, i, f[i])
      BY <3>1
    <3>2. PICK e \in i .. b - 1 :
            /\ LastIs(m, i, e) /\ e = i + Len(m[i].calls)
            /\ e + 1 <= Len(m) => m[e + 1].role # "tool"
            /\ {m[j].answers : j \in i + 1 .. e} = Calls(m[i])
      BY <1>1, <3>1, GroupIsWhole
    <3>3. e \in Nat /\ e \in i .. n /\ e + 1 \in i + 1 .. b /\ e <= b - 1 /\ (e + 1 < b => e + 1 <= n)
      <4>1. e \in i .. b - 1
        BY <3>2
      <4> HIDE DEF n
      <4> QED BY <1>1, <3>1, <4>1
    <3>4. Cut(m, b, e + 1, f[e + 1])
      <4>1. e + 1 \in Good
        BY <1>5, <3>3
      <4> QED BY <3>2, <3>3, <4>1
    <3>5. Cut(m, b, i, <<SubSeq(m, i, e)>> \o f[e + 1])
      BY <1>1, <3>1, <3>2, <3>4, CutFirst
    <3>6. CASE ~ Asks(m[i])
      <4>1. m[i] \in Formed
        BY <3>1, GroupFields
      <4>2. m[i].calls = <<>>
        BY <3>6, <4>1, FormedFields DEF Asks
      <4>3. e = i
        BY <3>1, <3>2, <4>2, EmptySeq
      <4>4. f[i] = <<<<m[i]>>>> \o f[i + 1]
        BY <1>2, <3>1, <3>6 DEF Segmented
      <4>5. SubSeq(m, i, i) = <<m[i]>>
        <5>1. i \in i .. n /\ i < i + 1 /\ i + 1 \in Int
          BY <1>1, <3>1
        <5>2. SubSeq(m, i, i) = <<m[i]>> \o SubSeq(m, i + 1, i)
          BY <3>1, <5>1, SubSeqRecursiveFirst
        <5>3. SubSeq(m, i + 1, i) = <<>>
          BY <3>1, <5>1, SubSeqEmpty
        <5>4. m[i] \in Formed
          BY <3>1, GroupFields
        <5>5. <<m[i]>> \in Seq(Formed)
          BY <5>4
        <5> QED BY <5>2, <5>3, <5>5, ConcatEmptySeq
      <4> QED BY <3>5, <4>3, <4>4, <4>5
    <3>7. CASE Asks(m[i])
      <4>1. LastResult(m, i) = e
        BY <1>1, <3>1, <3>2, LastResultIs
      <4>2. AnswersIn(SubSeq(m, i + 1, e)) = Calls(m[i])
        BY <3>1, <3>2, <3>3, AnswersBehind
      <4>3. Complete(m, i, e)
        BY <4>2 DEF Complete
      <4>4. f[i] = <<SubSeq(m, i, e)>> \o f[e + 1]
        BY <1>2, <3>1, <3>7, <4>1, <4>3 DEF Segmented
      <4> QED BY <3>5, <4>4
    <3> QED BY <3>6, <3>7
  <2> QED BY <2>1, <2>2
<1>6. 1 \in Good
  <2> HIDE DEF Good
  <2>1. 1 .. b \subseteq Good
    BY <1>1, <1>5, Backwards
  <2> QED BY <1>1, <2>1
<1>7. 1 < b => m[1].role # "tool"
  BY <1>1, FirstIsNoResult
<1> QED BY <1>2, <1>6, <1>7

LEMMA SuffixIsPaired ==
  ASSUME NEW m \in Seq(Formed), NEW b, PairedUpTo(m, b), NEW p \in 1 .. b,
         p < b => m[p].role # "tool"
  PROVE  Paired(SubSeq(m, p, b - 1)) /\ SubSeq(m, p, b - 1) \in Seq(Formed)
<1> DEFINE w == SubSeq(m, p, b - 1)
           s == SubSeq(m, 1, b - 1)
           n == Len(m)
<1>1. b \in 1 .. n + 1 /\ b \in Nat /\ n \in Nat /\ p \in Nat /\ p <= b /\ p >= 1 /\ Paired(s)
  BY DEF PairedUpTo
<1>2. \A j \in 1 .. b - 1 : j \in 1 .. n /\ m[j] \in Formed
  <2> SUFFICES ASSUME NEW j \in 1 .. b - 1 PROVE j \in 1 .. n /\ m[j] \in Formed
    OBVIOUS
  <2>1. j \in 1 .. n
    <3> HIDE DEF n
    <3> QED BY <1>1
  <2> QED BY <2>1, ElementOfSeq
<1>3. DOMAIN s = 1 .. b - 1 /\ \A j \in 1 .. b - 1 : s[j] = m[j]
  BY <1>1
<1> DEFINE N == b - p
<1>4. w \in Seq(Formed) /\ DOMAIN w = 1 .. N /\ \A x \in 1 .. N : w[x] = m[p + x - 1]
  <2>1. /\ p \in Int /\ b - 1 \in Int /\ \A j \in p .. b - 1 : j \in 1 .. b - 1
        /\ b - 1 - p + 1 = N /\ (IF p <= b - 1 THEN b - 1 - p + 1 ELSE 0) = N
    <3> HIDE DEF n
    <3> QED BY <1>1
  <2>2. \A j \in p .. b - 1 : m[j] \in Formed
    BY <1>2, <2>1
  <2>3. /\ w \in Seq(Formed)
        /\ Len(w) = IF p <= b - 1 THEN b - 1 - p + 1 ELSE 0
        /\ \A x \in 1 .. b - 1 - p + 1 : w[x] = m[p + x - 1]
    BY <2>1, <2>2, SubSeqProperties
  <2> HIDE DEF w, N
  <2>4. Len(w) = N
    BY <2>1, <2>3
  <2> QED BY <2>1, <2>3, <2>4, LenProperties
<1> HIDE DEF w, s, n
<1>5. ASSUME NEW x \in 1 .. N
      PROVE  /\ p + x - 1 \in 1 .. b - 1 /\ p + x - 1 \in p .. b - 1 /\ x \in Nat /\ N \in Nat
             /\ p < b
  BY <1>1
<1>6. ASSUME NEW i \in 1 .. N
      PROVE  /\ Group(w, i) \subseteq 1 .. N
             /\ {w[x].answers : x \in Group(w, i)} = ToSet(w[i].calls)
  <2> DEFINE j == p + i - 1
             l == Len(m[j].calls)
  <2>1. w[i] = m[j] /\ j \in 1 .. b - 1 /\ i \in Nat /\ j \in Nat /\ m[j] \in Formed
    BY <1>2, <1>4, <1>5
  <2>2. CASE m[j].role = "tool"
    <3>1. m[j].calls = <<>>
      BY <2>1, <2>2, FormedFields
    <3>2. l = 0 /\ ToSet(<<>>) = {}
      BY <3>1, EmptySeq DEF ToSet
    <3>3. Group(w, i) = i + 1 .. i + 0
      <4> HIDE DEF j
      <4> QED BY <2>1, <3>2 DEF Group
    <3>4. Group(w, i) = {}
      BY <2>1, <3>3
    <3> HIDE DEF j, l
    <3> QED BY <2>1, <3>1, <3>2, <3>4
  <2>3. CASE m[j].role # "tool"
    <3>1. PICK e \in j .. b - 1 :
            LastIs(m, j, e) /\ e = j + l /\ {m[y].answers : y \in j + 1 .. e} = Calls(m[j])
      <4> HIDE DEF j
      <4> QED BY <2>1, <2>3, GroupIsWhole
    <3> HIDE DEF l
    <3>2. Group(w, i) = i + 1 .. i + l
      BY <2>1 DEF Group, l
    <3>3. /\ l = e - j /\ e \in Nat
          /\ \A x \in i + 1 .. i + l : x \in 1 .. N /\ p + x - 1 \in j + 1 .. e
          /\ \A y \in j + 1 .. e : y - p + 1 \in i + 1 .. i + l /\ p + (y - p + 1) - 1 = y
                                   /\ y - p + 1 \in 1 .. N
      <4>1. e \in Nat /\ l = e - j
        <5>1. e \in Nat
          BY <2>1, <3>1
        <5>2. m[j].calls \in Seq(Call)
          BY <2>1, FormedFields
        <5>3. l \in Nat
          BY <5>2 DEF l
        <5> QED BY <2>1, <3>1, <5>1, <5>3
      <4>2. e <= b - 1 /\ i >= 1 /\ e >= j
        BY <1>1, <2>1, <3>1, <4>1
      <4> QED BY <1>1, <2>1, <4>1, <4>2
    <3>4. Group(w, i) \subseteq 1 .. N
      BY <3>2, <3>3
    <3>5. ASSUME NEW x \in i + 1 .. i + l PROVE w[x].answers \in {m[y].answers : y \in j + 1 .. e}
      BY <1>4, <3>3
    <3>6. ASSUME NEW y \in j + 1 .. e PROVE m[y].answers \in {w[x].answers : x \in i + 1 .. i + l}
      <4> DEFINE x == y - p + 1
      <4>1. x \in i + 1 .. i + l /\ x \in 1 .. N /\ p + x - 1 = y
        BY <3>3
      <4> HIDE DEF x
      <4>2. w[x] = m[y]
        BY <1>4, <4>1
      <4> QED BY <4>1, <4>2
    <3> HIDE DEF j
    <3>7. {w[x].answers : x \in i + 1 .. i + l} = {m[y].answers : y \in j + 1 .. e}
      BY <3>5, <3>6
    <3> QED BY <2>1, <3>1, <3>2, <3>4, <3>7 DEF Calls
  <2> QED BY <2>2, <2>3
<1>7. ASSUME NEW x \in 1 .. N, w[x].role = "tool" PROVE \E i \in 1 .. x - 1 : x \in Group(w, i)
  <2> DEFINE j == p + x - 1
  <2>1. w[x] = m[j] /\ j \in 1 .. b - 1 /\ j \in p .. b - 1 /\ x \in Nat /\ p < b /\ N \in Nat
    BY <1>4, <1>5
  <2>2. PICK h \in 1 .. j - 1 : j \in Group(s, h)
    <3> HIDE DEF j
    <3> QED BY <1>1, <1>3, <1>7, <2>1 DEF Paired
  <2> DEFINE l == Len(m[h].calls)
  <2>3. h \in 1 .. b - 1 /\ h \in Nat /\ j \in Nat /\ h < j
    BY <1>1, <2>1
  <2> HIDE DEF j
  <2>4. j \in h + 1 .. h + l /\ m[h] \in Formed
    BY <1>2, <1>3, <2>2, <2>3 DEF Group
  <2>5. m[h].role # "tool"
    <3> SUFFICES ASSUME m[h].role = "tool" PROVE FALSE
      OBVIOUS
    <3>1. m[h].calls = <<>>
      BY <2>4, FormedFields
    <3>2. l = 0
      BY <3>1, EmptySeq
    <3> HIDE DEF l
    <3> QED BY <2>3, <2>4, <3>2
  <2>6. PICK e \in h .. b - 1 : LastIs(m, h, e) /\ e = h + l
    BY <2>3, <2>5, GroupIsWhole
  <2> HIDE DEF l
  <2>7. e \in Nat /\ l = e - h /\ j \in h + 1 .. e
    <3>1. m[h].calls \in Seq(Call)
      BY <2>4, FormedFields
    <3>2. l \in Nat /\ e \in Nat
      BY <2>3, <3>1 DEF l
    <3> QED BY <2>3, <2>4, <2>6, <3>2
  <2>8. h >= p
    <3> SUFFICES ASSUME ~ (h >= p) PROVE FALSE
      OBVIOUS
    <3>1. p \in h + 1 .. e
      BY <1>1, <2>1, <2>3, <2>7
    <3> QED BY <2>1, <2>6, <3>1 DEF LastIs
  <2> DEFINE i == h - p + 1
  <2>9. i \in 1 .. x - 1 /\ i \in 1 .. N /\ p + i - 1 = h /\ x \in i + 1 .. i + l
    <3>1. j = p + x - 1
      BY DEF j
    <3> QED BY <1>1, <2>1, <2>3, <2>7, <2>8, <3>1
  <2> HIDE DEF i
  <2>10. w[i] = m[h]
    BY <1>4, <2>9
  <2>11. x \in Group(w, i)
    BY <2>9, <2>10 DEF Group, l
  <2> QED BY <2>9, <2>11
<1>8. Paired(w)
  <2> HIDE DEF N
  <2> QED BY <1>4, <1>6, <1>7 DEF Paired
<1> QED BY <1>4, <1>8 DEF w

\* The end of what is finished: all of it, or as much as is asked for.
EndOfFinished(m, b, asked, chosen) ==
  \E p \in 1 .. b : /\ chosen = SubSeq(m, p, b - 1)
                    /\ p < b => m[p].role # "tool"
                    /\ p = 1 \/ Len(chosen) >= asked

LEMMA SkillHistoryIsTheEnd ==
  ASSUME NEW m \in Seq(Formed), NEW b, OpenAt(m, b), NEW asked \in Nat
  PROVE  EndOfFinished(m, b, asked, SkillHistory(m, asked))
<1> DEFINE segments == Segments(m)
           n == Len(segments)
           Since(k) == FlattenSeq(SubSeq(segments, k, n))
           enough == {k \in DOMAIN segments : Len(Since(k)) >= asked}
           last == CHOOSE k \in enough : \A l \in enough : l <= k
<1>1. Cut(m, b, 1, segments)
  BY SegmentsAreFinished
<1>2. b \in 1 .. Len(m) + 1 /\ b \in Nat /\ PairedUpTo(m, b)
  BY DEF OpenAt, PairedUpTo
<1>3. segments \in Seq(Seq(Formed))
  BY <1>1 DEF Cut
<1>4. SkillHistory(m, asked) = IF asked = 0 THEN <<>>
                               ELSE Since(IF enough = {} THEN 1 ELSE last)
  BY DEF SkillHistory
<1> HIDE DEF segments
<1>5. n \in Nat /\ DOMAIN segments = 1 .. n
  BY <1>3
<1>6. CASE asked = 0
  <2>1. SubSeq(m, b, b - 1) = <<>>
    BY <1>2, SubSeqEmpty
  <2>2. Len(<<>>) >= asked
    BY <1>6, EmptySeq
  <2>3. b \in 1 .. b /\ ~ (b < b)
    BY <1>2
  <2>4. SkillHistory(m, asked) = <<>>
    BY <1>4, <1>6
  <2> QED BY <2>1, <2>2, <2>3, <2>4 DEF EndOfFinished
<1>7. CASE asked # 0 /\ enough = {}
  <2>1. SkillHistory(m, asked) = Since(1)
    BY <1>4, <1>7
  <2>2. SubSeq(segments, 1, n) = segments
    BY <1>3, SubSeqFull
  <2>3. SkillHistory(m, asked) = SubSeq(m, 1, b - 1)
    BY <1>1, <2>1, <2>2 DEF Cut
  <2>4. 1 < b => m[1].role # "tool"
    BY <1>2, FirstIsNoResult
  <2>5. 1 \in 1 .. b
    BY <1>2
  <2> QED BY <2>3, <2>4, <2>5 DEF EndOfFinished
<1>8. CASE asked # 0 /\ enough # {}
  <2> HIDE DEF n
  <2>1. \E k \in enough : \A l \in enough : l <= k
    <3> DEFINE T == {n - k : k \in enough}
    <3>1. \A k \in enough : k \in 1 .. n
      BY <1>5
    <3> HIDE DEF enough
    <3>2. T \in SUBSET Nat /\ T # {}
      BY <1>5, <1>8, <3>1
    <3>3. PICK x \in T : \A y \in T : x <= y
      <4> HIDE DEF T
      <4> QED BY <3>2, LeastNatural
    <3>4. PICK k \in enough : x = n - k
      OBVIOUS
    <3>5. ASSUME NEW l \in enough PROVE l <= k
      <4>1. n - l \in T
        OBVIOUS
      <4>2. n - k <= n - l
        BY <3>3, <3>4, <4>1
      <4>3. k \in 1 .. n /\ l \in 1 .. n
        BY <3>1
      <4> QED BY <1>5, <4>2, <4>3
    <3> QED BY <3>5
  <2>2. last \in enough
    <3> HIDE DEF enough
    <3> QED BY <2>1
  <2> HIDE DEF last
  <2>3. last \in 1 .. n + 1 /\ Len(Since(last)) >= asked
    BY <1>5, <2>2
  <2>4. PICK q \in 1 .. b : Since(last) = SubSeq(m, q, b - 1) /\ (q < b => m[q].role # "tool")
    BY <1>1, <2>3 DEF Cut, n
  <2>5. SkillHistory(m, asked) = Since(last)
    <3> HIDE DEF enough, Since
    <3> QED BY <1>4, <1>8
  <2> QED BY <2>3, <2>4, <2>5 DEF EndOfFinished
<1> HIDE DEF enough
<1> QED BY <1>6, <1>7, <1>8

LEMMA TheEndIsSuffix ==
  ASSUME NEW m \in Seq(Formed), NEW b \in 1 .. Len(m) + 1, NEW p \in 1 .. b
  PROVE  /\ IsSuffix(SubSeq(m, p, b - 1), SubSeq(m, 1, b - 1))
         /\ Len(SubSeq(m, 1, b - 1)) = b - 1
<1> DEFINE n == Len(m)
           N == b - 1
           M == b - p
           t == SubSeq(m, 1, N)
           s == SubSeq(m, p, N)
<1>1. /\ n \in Nat /\ b \in Nat /\ p \in Nat /\ N \in Nat /\ M \in Nat /\ M <= N /\ N <= n
      /\ p + M = N + 1 /\ p >= 1
  <2>1. n \in Nat /\ b \in 1 .. n + 1 /\ p \in 1 .. b
    OBVIOUS
  <2> HIDE DEF n
  <2> QED BY <2>1
<1>2. \A j \in 1 .. N : m[j] \in Formed
  <2> SUFFICES ASSUME NEW j \in 1 .. N PROVE m[j] \in Formed
    OBVIOUS
  <2>1. j \in 1 .. n
    <3> HIDE DEF n, N
    <3> QED BY <1>1
  <2> QED BY <2>1, ElementOfSeq
<1> HIDE DEF n, N, M
<1>3. t \in Seq(Formed) /\ Len(t) = N /\ \A j \in 1 .. N : t[j] = m[j]
  <2>1. N - 1 + 1 = N /\ (IF 1 <= N THEN N - 1 + 1 ELSE 0) = N /\ \A j \in 1 .. N : 1 + j - 1 = j
    BY <1>1
  <2>2. /\ t \in Seq(Formed)
        /\ Len(t) = IF 1 <= N THEN N - 1 + 1 ELSE 0
        /\ \A j \in 1 .. N - 1 + 1 : t[j] = m[1 + j - 1]
    BY <1>1, <1>2, SubSeqProperties
  <2> HIDE DEF t
  <2> QED BY <2>1, <2>2
<1>4. s \in Seq(Formed) /\ Len(s) = M /\ \A j \in 1 .. M : s[j] = m[p + j - 1]
  <2>1. /\ N - p + 1 = M /\ (IF p <= N THEN N - p + 1 ELSE 0) = M
        /\ \A j \in p .. N : j \in 1 .. N /\ p \in Int /\ N \in Int
    BY <1>1
  <2>2. /\ s \in Seq(Formed)
        /\ Len(s) = IF p <= N THEN N - p + 1 ELSE 0
        /\ \A j \in 1 .. N - p + 1 : s[j] = m[p + j - 1]
    BY <1>1, <1>2, <2>1, SubSeqProperties
  <2> HIDE DEF s
  <2> QED BY <2>1, <2>2
<1> HIDE DEF s, t
<1> DEFINE u == Reverse(s)
           v == Reverse(t)
<1>5. u \in Seq(Formed) /\ Len(u) = M /\ \A j \in 1 .. M : u[j] = m[N - j + 1]
  <2>1. ASSUME NEW j \in 1 .. M PROVE s[M - j + 1] = m[N - j + 1] /\ m[N - j + 1] \in Formed
    <3>1. M - j + 1 \in 1 .. M /\ p + (M - j + 1) - 1 = N - j + 1 /\ N - j + 1 \in 1 .. N
      BY <1>1
    <3> DEFINE x == M - j + 1
    <3>2. s[x] = m[p + x - 1]
      BY <1>4, <3>1
    <3> QED BY <1>2, <3>1, <3>2
  <2>2. u = [j \in 1 .. M |-> s[M - j + 1]]
    BY <1>4 DEF Reverse
  <2> HIDE DEF u
  <2>3. u \in [1 .. M -> Formed] /\ \A j \in 1 .. M : u[j] = m[N - j + 1]
    BY <2>1, <2>2
  <2> QED BY <1>1, <2>3
<1>6. v \in Seq(Formed) /\ Len(v) = N /\ \A j \in 1 .. N : v[j] = m[N - j + 1]
  <2>1. ASSUME NEW j \in 1 .. N PROVE t[N - j + 1] = m[N - j + 1] /\ m[N - j + 1] \in Formed
    <3>1. N - j + 1 \in 1 .. N
      BY <1>1
    <3> QED BY <1>2, <1>3, <3>1
  <2>2. v = [j \in 1 .. N |-> t[N - j + 1]]
    BY <1>3 DEF Reverse
  <2> HIDE DEF v
  <2>3. v \in [1 .. N -> Formed] /\ \A j \in 1 .. N : v[j] = m[N - j + 1]
    BY <2>1, <2>2
  <2> QED BY <1>1, <2>3
<1> HIDE DEF u, v
<1>7. \A j \in 1 .. M : j \in 1 .. N
  BY <1>1
<1>8. SubSeq(u, 1, M) = SubSeq(v, 1, M)
  BY <1>1, <1>5, <1>6, <1>7
<1>9. IsSuffix(s, t)
  BY <1>1, <1>5, <1>6, <1>8 DEF IsSuffix, IsPrefix, u, v
<1> QED BY <1>3, <1>9 DEF s, t, N

\* What child runs are given of messages whose finished part is known.
GivesFinished(m, finished, asked) ==
  LET chosen == SkillHistory(m, asked) IN
  /\ ForkHistory(m) = finished
  /\ Paired(chosen) /\ IsSuffix(chosen, finished)
  /\ Len(chosen) >= asked \/ Len(chosen) >= Len(finished)

(* A fork is given all that is finished of any conversation, an isolated     *)
(* skill the end of it, paired and as long as its definition asks for        *)
(* (subagents/history.py:8-40, skills/runner.py:169-203).                    *)
THEOREM ChildrenAreGivenWhatIsFinished ==
  ASSUME NEW m \in Seq(Formed), NEW b, OpenAt(m, b), NEW asked \in Nat
  PROVE  GivesFinished(m, SubSeq(m, 1, b - 1), asked)
<1> DEFINE finished == SubSeq(m, 1, b - 1)
           chosen == SkillHistory(m, asked)
<1>1. b \in 1 .. Len(m) + 1 /\ PairedUpTo(m, b) /\ Len(m) \in Nat
  BY DEF OpenAt, PairedUpTo
<1>2. ForkHistory(m) = finished
  <2>1. PICK f : Forks(m, f) /\ ForkHistory(m) = f[1]
    BY <1>1, ForkScan
  <2>2. f[b] = <<>>
    BY <2>1, OpenEnds
  <2> QED BY <1>1, <2>1, <2>2, ForkOfPrefix
<1>3. PICK p \in 1 .. b : /\ chosen = SubSeq(m, p, b - 1)
                          /\ p < b => m[p].role # "tool"
                          /\ p = 1 \/ Len(chosen) >= asked
  BY SkillHistoryIsTheEnd DEF EndOfFinished
<1>4. Paired(SubSeq(m, p, b - 1))
  BY <1>1, <1>3, SuffixIsPaired
<1>5. IsSuffix(SubSeq(m, p, b - 1), finished) /\ Len(finished) = b - 1
  BY <1>1, TheEndIsSuffix
<1>6. p = 1 => Len(chosen) >= Len(finished)
  <2>1. b - 1 >= b - 1
    BY <1>1
  <2> HIDE DEF chosen
  <2> QED BY <1>3, <1>5, <2>1
<1> HIDE DEF finished, chosen
<1>7. /\ ForkHistory(m) = finished
      /\ Paired(chosen) /\ IsSuffix(chosen, finished)
      /\ Len(chosen) >= asked \/ Len(chosen) >= Len(finished)
  BY <1>2, <1>3, <1>4, <1>5, <1>6
<1> QED BY <1>7 DEF GivesFinished, finished, chosen

LEMMA PairedConcat ==
  ASSUME NEW m \in Seq(Formed), Paired(m), NEW w \in Seq(Formed), Paired(w)
  PROVE  Paired(m \o w)
<1> DEFINE n == Len(m)
           k == Len(w)
           u == m \o w
<1>1. /\ n \in Nat /\ k \in Nat /\ DOMAIN m = 1 .. n /\ DOMAIN w = 1 .. k /\ DOMAIN u = 1 .. n + k
      /\ \A i \in 1 .. n : u[i] = m[i]
      /\ \A i \in 1 .. k : u[n + i] = w[i]
  OBVIOUS
<1>2. \A i \in 1 .. k : Len(w[i].calls) \in Nat
  BY GroupFields
<1> HIDE DEF n, k, u
<1>3. /\ \A i \in 1 .. n : i \in 1 .. n + k
      /\ \A i \in 1 .. k : n + i \in 1 .. n + k
      /\ \A i \in 1 .. n + k : i \in 1 .. n \/ (i - n \in 1 .. k /\ n + (i - n) = i)
  BY <1>1
<1>4. ASSUME NEW i \in 1 .. n
      PROVE  /\ Group(u, i) \subseteq DOMAIN u
             /\ {u[j].answers : j \in Group(u, i)} = ToSet(u[i].calls)
  <2>1. u[i] = m[i] /\ Group(u, i) = Group(m, i)
    BY <1>1 DEF Group
  <2>2. Group(m, i) \subseteq 1 .. n /\ {m[j].answers : j \in Group(m, i)} = ToSet(m[i].calls)
    BY <1>1 DEF Paired
  <2>3. {u[j].answers : j \in Group(m, i)} = {m[j].answers : j \in Group(m, i)}
    BY <1>1, <2>2
  <2> QED BY <1>1, <1>3, <2>1, <2>2, <2>3
<1>5. ASSUME NEW i \in 1 .. k
      PROVE  /\ Group(u, n + i) = {n + j : j \in Group(w, i)}
             /\ Group(w, i) \subseteq 1 .. k
             /\ {w[j].answers : j \in Group(w, i)} = ToSet(w[i].calls)
  <2> DEFINE l == Len(w[i].calls)
  <2>1. u[n + i] = w[i] /\ l \in Nat /\ i \in Nat
    BY <1>1, <1>2
  <2>2. Group(u, n + i) = n + i + 1 .. n + i + l /\ Group(w, i) = i + 1 .. i + l
    BY <2>1 DEF Group
  <2> HIDE DEF l
  <2>3. \A x \in n + i + 1 .. n + i + l : x - n \in i + 1 .. i + l /\ x = n + (x - n)
    BY <1>1, <2>1
  <2>4. \A x \in i + 1 .. i + l : n + x \in n + i + 1 .. n + i + l
    BY <1>1, <2>1
  <2>5. n + i + 1 .. n + i + l = {n + j : j \in i + 1 .. i + l}
    BY <2>3, <2>4
  <2>6. /\ Group(w, i) \subseteq 1 .. k
        /\ {w[j].answers : j \in Group(w, i)} = ToSet(w[i].calls)
    BY <1>1 DEF Paired
  <2> QED BY <2>2, <2>5, <2>6
<1>6. ASSUME NEW i \in 1 .. k
      PROVE  /\ Group(u, n + i) \subseteq DOMAIN u
             /\ {u[j].answers : j \in Group(u, n + i)} = ToSet(u[n + i].calls)
  <2> DEFINE G == Group(w, i)
             H == Group(u, n + i)
  <2>0. H = {n + j : j \in G} /\ G \subseteq 1 .. k /\ {w[j].answers : j \in G} = ToSet(w[i].calls)
    BY <1>5
  <2>3. u[n + i] = w[i] /\ \A j \in G : u[n + j] = w[j] /\ n + j \in DOMAIN u
    BY <1>1, <1>3, <2>0
  <2> HIDE DEF G, H
  <2>1. {u[j].answers : j \in H} = {w[j].answers : j \in G}
    <3>1. ASSUME NEW x \in H PROVE u[x].answers \in {w[j].answers : j \in G}
      <4>1. PICK j \in G : x = n + j
        BY <2>0
      <4> QED BY <2>3, <4>1
    <3>2. ASSUME NEW j \in G PROVE w[j].answers \in {u[x].answers : x \in H}
      <4>1. n + j \in H /\ u[n + j] = w[j]
        BY <2>0, <2>3
      <4> DEFINE x == n + j
      <4>2. x \in H /\ u[x] = w[j]
        BY <4>1
      <4> HIDE DEF x
      <4> QED BY <4>2
    <3> QED BY <3>1, <3>2
  <2>2. H \subseteq DOMAIN u
    <3> SUFFICES ASSUME NEW x \in H PROVE x \in DOMAIN u
      OBVIOUS
    <3>1. PICK j \in G : x = n + j
      BY <2>0
    <3> QED BY <2>3, <3>1
  <2> QED BY <2>0, <2>3, <2>1, <2>2 DEF H
<1>7. ASSUME NEW j \in 1 .. n, u[j].role = "tool" PROVE \E i \in 1 .. j - 1 : j \in Group(u, i)
  <2>1. PICK i \in 1 .. j - 1 : j \in Group(m, i)
    BY <1>1, <1>7 DEF Paired
  <2>2. i \in 1 .. n
    BY <1>1
  <2>3. Group(u, i) = Group(m, i)
    BY <1>1, <2>2 DEF Group
  <2> QED BY <2>1, <2>3
<1>8. ASSUME NEW j \in 1 .. k, u[n + j].role = "tool"
      PROVE  \E i \in 1 .. n + j - 1 : n + j \in Group(u, i)
  <2>1. PICK i \in 1 .. j - 1 : j \in Group(w, i)
    BY <1>1, <1>8 DEF Paired
  <2>2. i \in 1 .. k /\ n + i \in 1 .. n + j - 1
    BY <1>1
  <2>3. n + j \in Group(u, n + i)
    BY <1>5, <2>1, <2>2
  <2> QED BY <2>2, <2>3
<1>9. ASSUME NEW i \in DOMAIN u
      PROVE  /\ Group(u, i) \subseteq DOMAIN u
             /\ {u[j].answers : j \in Group(u, i)} = ToSet(u[i].calls)
  <2>1. CASE i \in 1 .. n
    BY <1>4, <2>1
  <2>2. CASE i \notin 1 .. n
    <3>1. i - n \in 1 .. k /\ n + (i - n) = i
      BY <1>1, <1>3, <2>2
    <3> DEFINE h == i - n
    <3>2. h \in 1 .. k /\ n + h = i
      BY <3>1
    <3> HIDE DEF h
    <3> QED BY <1>6, <3>2
  <2> QED BY <2>1, <2>2
<1>10. ASSUME NEW i \in DOMAIN u, u[i].role = "tool" PROVE \E h \in 1 .. i - 1 : i \in Group(u, h)
  <2>1. CASE i \in 1 .. n
    BY <1>7, <1>10, <2>1
  <2>2. CASE i \notin 1 .. n
    <3> DEFINE j == i - n
    <3>1. j \in 1 .. k /\ n + j = i
      BY <1>1, <1>3, <2>2
    <3> HIDE DEF j
    <3>2. u[n + j].role = "tool"
      BY <1>10, <3>1
    <3>3. \E h \in 1 .. n + j - 1 : n + j \in Group(u, h)
      BY <1>8, <3>1, <3>2
    <3>4. PICK h \in 1 .. n + j - 1 : n + j \in Group(u, h)
      BY <3>3
    <3>5. h \in 1 .. i - 1
      BY <1>1, <3>1, <3>4
    <3> QED BY <3>1, <3>4, <3>5
  <2> QED BY <2>1, <2>2
<1>11. Paired(u)
  BY <1>9, <1>10 DEF Paired
<1> QED BY <1>11 DEF u

\* The histories that MCAlgorithms looks at.
LEMMA TheFinished ==
  ASSUME NEW w \in Finished
  PROVE  w \in Seq(Formed) /\ Paired(w)
<1>0. /\ User \in Formed /\ User.role = "user" /\ User.calls = <<>>
      /\ \A c \in Call : /\ Result(c) \in Formed /\ Result(c).role = "tool"
                         /\ Result(c).calls = <<>> /\ Result(c).answers = c
      /\ \A calls \in Seq(Call) : /\ Assistant(calls) \in Formed
                                  /\ Assistant(calls).role = "assistant"
                                  /\ Assistant(calls).calls = calls
  BY DEF Formed, User, Result, Assistant
<1>1. CASE w = <<User>> \/ w = <<Assistant(<<>>)>>
  <2>1. <<>> \in Seq(Call) /\ Len(<<>>) = 0 /\ ToSet(<<>>) = {}
    BY EmptySeq DEF ToSet
  <2>2. PICK u \in Formed : w = <<u>> /\ u.role # "tool" /\ u.calls = <<>>
    BY <1>0, <1>1, <2>1
  <2>3. DOMAIN w = {1} /\ w[1] = u /\ w \in Seq(Formed)
    BY <2>2
  <2>4. Group(w, 1) = 1 + 1 .. 1 + 0
    BY <2>1, <2>2, <2>3 DEF Group
  <2>5. Group(w, 1) = {}
    BY <2>4
  <2> QED BY <2>1, <2>2, <2>3, <2>5 DEF Paired
<1>2. ASSUME NEW c \in Call, w = <<Assistant(<<c>>), Result(c)>>
      PROVE  w \in Seq(Formed) /\ Paired(w)
  <2> DEFINE calls == <<c>>
  <2>1. calls \in Seq(Call) /\ Len(calls) = 1 /\ ToSet(calls) = {c} /\ Len(<<>>) = 0 /\ ToSet(<<>>) = {}
    BY EmptySeq DEF ToSet
  <2> HIDE DEF calls
  <2>2. /\ w \in Seq(Formed) /\ DOMAIN w = {1, 2} /\ w[1].calls = calls /\ w[1].role = "assistant"
        /\ w[2].calls = <<>> /\ w[2].answers = c
    BY <1>0, <1>2, <2>1 DEF calls
  <2>3. Group(w, 1) = {2} /\ Group(w, 2) = {}
    <3>1. Group(w, 1) = 1 + 1 .. 1 + 1 /\ Group(w, 2) = 2 + 1 .. 2 + 0
      BY <2>1, <2>2 DEF Group
    <3> QED BY <3>1
  <2>4. 1 \in 1 .. 2 - 1 /\ w[1].role # "tool"
    BY <2>2
  <2> QED BY <2>1, <2>2, <2>3, <2>4 DEF Paired
<1>3. ASSUME NEW c \in Call, NEW d \in Call, w = <<Assistant(<<c, d>>), Result(c), Result(d)>>
      PROVE  w \in Seq(Formed) /\ Paired(w)
  <2> DEFINE calls == <<c, d>>
  <2>1. calls \in Seq(Call) /\ Len(calls) = 2 /\ ToSet(calls) = {c, d} /\ Len(<<>>) = 0 /\ ToSet(<<>>) = {}
    BY EmptySeq DEF ToSet
  <2> HIDE DEF calls
  <2>2. /\ w \in Seq(Formed) /\ DOMAIN w = {1, 2, 3} /\ w[1].calls = calls /\ w[1].role = "assistant"
        /\ w[2].calls = <<>> /\ w[2].answers = c /\ w[3].calls = <<>> /\ w[3].answers = d
    <3> DEFINE x == Assistant(calls)
               y == Result(c)
               z == Result(d)
    <3>1. w = <<x, y, z>>
      BY <1>3 DEF calls
    <3>2. /\ x \in Formed /\ y \in Formed /\ z \in Formed
          /\ x.calls = calls /\ x.role = "assistant"
          /\ y.calls = <<>> /\ y.answers = c /\ z.calls = <<>> /\ z.answers = d
      BY <1>0, <2>1
    <3> HIDE DEF x, y, z
    <3>3. w \in Seq(Formed) /\ DOMAIN w = {1, 2, 3} /\ w[1] = x /\ w[2] = y /\ w[3] = z
      BY <3>1, <3>2
    <3> QED BY <3>2, <3>3
  <2>3. Group(w, 1) = {2, 3} /\ Group(w, 2) = {} /\ Group(w, 3) = {}
    <3>1. Group(w, 1) = 1 + 1 .. 1 + 2 /\ Group(w, 2) = 2 + 1 .. 2 + 0 /\ Group(w, 3) = 3 + 1 .. 3 + 0
      BY <2>1, <2>2 DEF Group
    <3> QED BY <3>1
  <2>4. 1 \in 1 .. 2 - 1 /\ 1 \in 1 .. 3 - 1 /\ w[1].role # "tool"
    BY <2>2
  <2>5. {w[j].answers : j \in {2, 3}} = {c, d}
    BY <2>2
  <2>6. \A i \in {1, 2, 3} : /\ Group(w, i) \subseteq {1, 2, 3}
                             /\ {w[j].answers : j \in Group(w, i)} = ToSet(w[i].calls)
    BY <2>1, <2>2, <2>3, <2>5
  <2>7. \A j \in {1, 2, 3} : w[j].role = "tool" => \E i \in 1 .. j - 1 : j \in Group(w, i)
    BY <2>3, <2>4
  <2> QED BY <2>2, <2>6, <2>7 DEF Paired
<1>4. \/ w = <<User>> \/ w = <<Assistant(<<>>)>>
      \/ \E c \in Call : w = <<Assistant(<<c>>), Result(c)>>
      \/ \E c \in Call, d \in Call : w = <<Assistant(<<c, d>>), Result(c), Result(d)>>
  <2> DEFINE One == {<<User>>, <<Assistant(<<>>)>>}
             Two == {<<Assistant(<<c>>), Result(c)>> : c \in Call}
             Three == {<<Assistant(<<c, d>>), Result(c), Result(d)>> : c \in Call, d \in Call}
  <2>1. w \in One \/ w \in Two \/ w \in Three
    <3>1. Finished = (One \cup Two) \cup Three
      BY DEF Finished
    <3> HIDE DEF One, Two, Three
    <3> QED BY <3>1
  <2>2. w \in One => w = <<User>> \/ w = <<Assistant(<<>>)>>
    BY Zenon
  <2>3. w \in Two => \E c \in Call : w = <<Assistant(<<c>>), Result(c)>>
    BY Zenon
  <2>4. w \in Three => \E c \in Call, d \in Call : w = <<Assistant(<<c, d>>), Result(c), Result(d)>>
    <3> DEFINE Both(c, d) == <<Assistant(<<c, d>>), Result(c), Result(d)>>
    <3>1. Three = {Both(c, d) : c \in Call, d \in Call}
      OBVIOUS
    <3> HIDE DEF Both, Three
    <3>2. w \in Three => \E c \in Call, d \in Call : w = Both(c, d)
      BY <3>1
    <3> QED BY <3>2 DEF Both
  <2> HIDE DEF One, Two, Three
  <2> QED BY <2>1, <2>2, <2>3, <2>4
<1> QED BY <1>1, <1>2, <1>3, <1>4

LEMMA TheUnfinished ==
  ASSUME NEW w \in Unfinished, w # <<>>
  PROVE  /\ w \in Seq(Formed) /\ Len(w) \in Nat /\ 1 <= Len(w) /\ Asks(w[1])
         /\ \A j \in 2 .. Len(w) : w[j].role = "tool"
         /\ ~ (Calls(w[1]) \subseteq {w[j].answers : j \in 2 .. Len(w)})
<1>0. /\ \A c \in Call : /\ Result(c) \in Formed /\ Result(c).role = "tool"
                         /\ Result(c).answers = c
      /\ \A calls \in Seq(Call) : /\ Assistant(calls) \in Formed
                                  /\ Assistant(calls).role = "assistant"
                                  /\ Assistant(calls).calls = calls
  BY DEF Formed, Result, Assistant
<1>1. /\ \A c \in Call : <<c>> \in Seq(Call) /\ <<c>> # <<>> /\ ToSet(<<c>>) = {c}
      /\ \A c, d \in Call : <<c, d>> \in Seq(Call) /\ <<c, d>> # <<>> /\ ToSet(<<c, d>>) = {c, d}
  BY DEF ToSet
<1>2. \/ \E calls \in Seq(Call) : calls # <<>> /\ ToSet(calls) # {} /\ w = <<Assistant(calls)>>
      \/ \E c \in Call, d \in Call : c # d /\ w = <<Assistant(<<c, d>>), Result(c)>>
  <2>1. \/ \E c \in Call : w = <<Assistant(<<c>>)>>
        \/ \E c \in Call, d \in Call : w = <<Assistant(<<c, d>>)>>
        \/ \E p \in {q \in Call \X Call : q[1] # q[2]} : w = <<Assistant(<<p[1], p[2]>>), Result(p[1])>>
    <3> DEFINE Nothing == {<<>>}
               One == {<<Assistant(<<c>>)>> : c \in Call}
               Two == {<<Assistant(<<c, d>>)>> : c \in Call, d \in Call}
               Half == {<<Assistant(<<p[1], p[2]>>), Result(p[1])>> :
                          p \in {q \in Call \X Call : q[1] # q[2]}}
    <3>1. w \in One \/ w \in Two \/ w \in Half
      <4>1. Unfinished = ((Nothing \cup One) \cup Two) \cup Half
        BY DEF Unfinished
      <4>2. w \notin Nothing
        OBVIOUS
      <4> HIDE DEF Nothing, One, Two, Half
      <4> QED BY <4>1, <4>2
    <3>2. w \in One => \E c \in Call : w = <<Assistant(<<c>>)>>
      BY Zenon
    <3>3. w \in Two => \E c \in Call, d \in Call : w = <<Assistant(<<c, d>>)>>
      OBVIOUS
    <3>4. w \in Half => \E p \in {q \in Call \X Call : q[1] # q[2]} :
                          w = <<Assistant(<<p[1], p[2]>>), Result(p[1])>>
      BY Zenon
    <3> HIDE DEF Nothing, One, Two, Half
    <3> QED BY <3>1, <3>2, <3>3, <3>4
  <2>2. ASSUME NEW c \in Call, w = <<Assistant(<<c>>)>>
        PROVE  \E calls \in Seq(Call) : calls # <<>> /\ ToSet(calls) # {} /\ w = <<Assistant(calls)>>
    BY <1>1, <2>2
  <2>3. ASSUME NEW c \in Call, NEW d \in Call, w = <<Assistant(<<c, d>>)>>
        PROVE  \E calls \in Seq(Call) : calls # <<>> /\ ToSet(calls) # {} /\ w = <<Assistant(calls)>>
    BY <1>1, <2>3
  <2>4. ASSUME NEW p \in {q \in Call \X Call : q[1] # q[2]},
               w = <<Assistant(<<p[1], p[2]>>), Result(p[1])>>
        PROVE  \E c \in Call, d \in Call : c # d /\ w = <<Assistant(<<c, d>>), Result(c)>>
    BY <2>4
  <2> QED BY <2>1, <2>2, <2>3, <2>4
<1>3. ASSUME NEW calls \in Seq(Call), calls # <<>>, ToSet(calls) # {}, w = <<Assistant(calls)>>
      PROVE  /\ w \in Seq(Formed) /\ Len(w) \in Nat /\ 1 <= Len(w) /\ Asks(w[1])
             /\ \A j \in 2 .. Len(w) : w[j].role = "tool"
             /\ ~ (Calls(w[1]) \subseteq {w[j].answers : j \in 2 .. Len(w)})
  <2>1. w \in Seq(Formed) /\ Len(w) = 1 /\ w[1] = Assistant(calls) /\ 2 .. 1 = {}
    BY <1>0, <1>3
  <2> QED BY <1>0, <1>3, <2>1 DEF Asks, Calls
<1>4. ASSUME NEW c \in Call, NEW d \in Call, c # d, w = <<Assistant(<<c, d>>), Result(c)>>
      PROVE  /\ w \in Seq(Formed) /\ Len(w) \in Nat /\ 1 <= Len(w) /\ Asks(w[1])
             /\ \A j \in 2 .. Len(w) : w[j].role = "tool"
             /\ ~ (Calls(w[1]) \subseteq {w[j].answers : j \in 2 .. Len(w)})
  <2> DEFINE calls == <<c, d>>
  <2>1. calls \in Seq(Call) /\ calls # <<>> /\ ToSet(calls) = {c, d}
    BY <1>1
  <2>2. w = <<Assistant(calls), Result(c)>>
    BY <1>4
  <2> HIDE DEF calls
  <2>3. w \in Seq(Formed) /\ Len(w) = 2 /\ w[1] = Assistant(calls) /\ w[2] = Result(c) /\ 2 .. 2 = {2}
    BY <1>0, <2>1, <2>2
  <2>4. Asks(w[1]) /\ Calls(w[1]) = {c, d}
    BY <1>0, <2>1, <2>3 DEF Asks, Calls
  <2>5. w[2].role = "tool" /\ w[2].answers = c
    BY <1>0, <2>3
  <2> QED BY <1>4, <2>3, <2>4, <2>5
<1> QED BY <1>2, <1>3, <1>4

LEMMA TheirPartsArePaired ==
  ASSUME NEW parts \in UNION {[1 .. n -> Finished] : n \in 0 .. 3}
  PROVE  FlattenSeq(parts) \in Seq(Formed) /\ Paired(FlattenSeq(parts))
<1>1. PICK n \in 0 .. 3 : parts \in [1 .. n -> Finished]
  OBVIOUS
<1>2. \A i \in 1 .. n : parts[i] \in Seq(Formed) /\ Paired(parts[i])
  BY <1>1, TheFinished
<1>3. parts \in [1 .. n -> Seq(Formed)]
  BY <1>1, <1>2
<1>4. n \in Nat /\ parts \in Seq(Seq(Formed)) /\ Len(parts) = n
  BY <1>3
<1>5. PICK f \in [0 .. n -> Seq(Formed)] : Joins(parts, f) /\ FlattenSeq(parts) = f[n]
  <2>1. \E f \in [0 .. Len(parts) -> Seq(Formed)] :
          Joins(parts, f) /\ FlattenSeq(parts) = f[Len(parts)]
    BY <1>4, FlattenIsDefined
  <2> QED BY <1>4, <2>1
<1> DEFINE Good == {k \in 0 .. n : Paired(f[k])}
<1>6. 0 \in Good
  <2>1. f[0] = <<>> /\ 0 \in 0 .. n /\ DOMAIN <<>> = {}
    BY <1>4, <1>5 DEF Joins
  <2> QED BY <2>1 DEF Paired
<1>7. ASSUME NEW k \in 0 .. n - 1, k \in Good PROVE k + 1 \in Good
  <2>1. k \in 0 .. n /\ k + 1 \in 0 .. n /\ k + 1 \in 1 .. n /\ (k + 1) - 1 = k
    BY <1>4
  <2>2. f[k + 1] = f[k] \o parts[k + 1]
    BY <1>4, <1>5, <2>1 DEF Joins
  <2>3. f[k] \in Seq(Formed) /\ Paired(f[k])
    BY <1>5, <1>7, <2>1
  <2>4. Paired(f[k] \o parts[k + 1])
    BY <1>2, <2>1, <2>3, PairedConcat
  <2> QED BY <2>1, <2>2, <2>4
<1>8. n \in Good
  <2> HIDE DEF Good
  <2>1. 0 .. n \subseteq Good
    BY <1>4, <1>6, <1>7, Forwards
  <2> QED BY <1>4, <2>1
<1>9. n \in 0 .. n
  BY <1>4
<1> QED BY <1>5, <1>8, <1>9

LEMMA PendingIsOpen ==
  ASSUME NEW m \in Seq(Formed), Paired(m), NEW w \in Unfinished
  PROVE  /\ m \o w \in Seq(Formed) /\ OpenAt(m \o w, Len(m) + 1)
         /\ SubSeq(m \o w, 1, (Len(m) + 1) - 1) = m
<1> DEFINE n == Len(m)
           u == m \o w
           b == n + 1
<1>1. CASE w = <<>>
  <2>1. u = m /\ n \in Nat /\ SubSeq(m, 1, n) = m
    BY <1>1, ConcatEmptySeq
  <2>2. b \in 1 .. n + 1 /\ b - 1 = n /\ ~ (b <= n)
    <3> HIDE DEF n
    <3> QED BY <2>1
  <2> HIDE DEF u, b
  <2>3. OpenAt(m, b) /\ SubSeq(m, 1, b - 1) = m
    BY <2>1, <2>2 DEF OpenAt, PairedUpTo
  <2> QED BY <2>1, <2>3 DEF u, b
<1>2. CASE w # <<>>
  <2> DEFINE k == Len(w)
  <2>1. /\ w \in Seq(Formed) /\ k \in Nat /\ 1 <= k /\ Asks(w[1])
        /\ \A j \in 2 .. k : w[j].role = "tool"
        /\ ~ (Calls(w[1]) \subseteq {w[j].answers : j \in 2 .. k})
    BY <1>2, TheUnfinished
  <2>2. /\ u \in Seq(Formed) /\ Len(u) = n + k /\ n \in Nat
        /\ \A i \in 1 .. n : u[i] = m[i]
        /\ \A i \in 1 .. k : u[n + i] = w[i]
    BY <2>1
  <2>3. SubSeq(u, 1, n) = m
    BY <2>1, <2>2
  <2> HIDE DEF n, k, u, b
  <2>4. /\ b = n + 1 /\ b \in 1 .. n + k + 1 /\ b - 1 = n /\ b <= n + k /\ 1 \in 1 .. k
        /\ \A j \in b + 1 .. n + k : j - n \in 2 .. k /\ j - n \in 1 .. k /\ n + (j - n) = j
    BY <2>1, <2>2 DEF b
  <2>5. u[b] = w[1]
    BY <2>2, <2>4
  <2>6. \A j \in b + 1 .. n + k : u[j].role = "tool" /\ u[j].answers \in {w[i].answers : i \in 2 .. k}
    <3> SUFFICES ASSUME NEW j \in b + 1 .. n + k
                 PROVE  u[j].role = "tool" /\ u[j].answers \in {w[i].answers : i \in 2 .. k}
      OBVIOUS
    <3> DEFINE i == j - n
    <3>1. i \in 2 .. k /\ i \in 1 .. k /\ n + i = j
      BY <2>4
    <3> HIDE DEF i
    <3>2. u[j] = w[i]
      BY <2>2, <3>1
    <3> QED BY <2>1, <3>1, <3>2
  <2>7. ~ (Calls(u[b]) \subseteq {u[j].answers : j \in b + 1 .. n + k})
    BY <2>1, <2>5, <2>6
  <2>8. PairedUpTo(u, b)
    BY <2>1, <2>2, <2>3, <2>4, <2>5 DEF PairedUpTo, Asks
  <2>9. OpenAt(u, b) /\ SubSeq(u, 1, b - 1) = m
    BY <2>1, <2>2, <2>3, <2>4, <2>5, <2>6, <2>7, <2>8 DEF OpenAt
  <2> QED BY <2>2, <2>9 DEF u, b, n
<1> QED BY <1>1, <1>2

(* A child run starts with no call that nothing answers and no answer to     *)
(* nothing, and misses no more than it has to, for every history of          *)
(* MCAlgorithms (subagents/history.py:8-40, skills/runner.py:169-203).       *)
THEOREM HistoriesArePairedTheorem == AlgorithmsSpec => []HistoriesArePaired
<1>1. InputType => HistoriesArePaired
  <2> DEFINE finished == FlattenSeq(input.finished)
             whole == finished \o input.pending
             chosen == SkillHistory(whole, input.asked)
             MinOf(a, b) == IF a < b THEN a ELSE b
  <2> SUFFICES ASSUME input \in HistoryInputs
               PROVE  /\ ForkHistory(whole) = finished
                      /\ Paired(chosen) /\ IsSuffix(chosen, finished)
                      /\ Len(chosen) >= MinOf(input.asked, Len(finished))
    BY DEF InputType, HistoriesArePaired
  <2>1. /\ input.finished \in UNION {[1 .. n -> Finished] : n \in 0 .. 3}
        /\ input.pending \in Unfinished /\ input.asked \in Nat
    BY DEF HistoryInputs
  <2>2. finished \in Seq(Formed) /\ Paired(finished)
    BY <2>1, TheirPartsArePaired
  <2> HIDE DEF finished
  <2> DEFINE b == Len(finished) + 1
  <2>3. whole \in Seq(Formed) /\ OpenAt(whole, b) /\ SubSeq(whole, 1, b - 1) = finished
    BY <2>1, <2>2, PendingIsOpen
  <2> HIDE DEF whole, b
  <2>4. GivesFinished(whole, finished, input.asked)
    <3>1. GivesFinished(whole, SubSeq(whole, 1, b - 1), input.asked)
      BY <2>1, <2>3, ChildrenAreGivenWhatIsFinished
    <3> QED BY <2>3, <3>1
  <2>5. /\ ForkHistory(whole) = finished
        /\ Paired(chosen) /\ IsSuffix(chosen, finished)
        /\ Len(chosen) >= input.asked \/ Len(chosen) >= Len(finished)
    BY <2>4 DEF GivesFinished
  <2> HIDE DEF chosen
  <2>6. Len(chosen) \in Nat /\ Len(finished) \in Nat
    <3>1. chosen \in Seq(Formed)
      <4>1. EndOfFinished(whole, b, input.asked, chosen)
        BY <2>1, <2>3, SkillHistoryIsTheEnd DEF chosen
      <4>2. PICK p \in 1 .. b : chosen = SubSeq(whole, p, b - 1) /\ (p < b => whole[p].role # "tool")
        BY <4>1 DEF EndOfFinished
      <4>3. PairedUpTo(whole, b)
        BY <2>3 DEF OpenAt
      <4> QED BY <2>3, <4>2, <4>3, SuffixIsPaired
    <3> QED BY <2>2, <3>1
  <2>7. Len(chosen) >= MinOf(input.asked, Len(finished))
    <3> DEFINE x == Len(chosen)
               y == Len(finished)
    <3>1. x \in Nat /\ y \in Nat /\ (x >= input.asked \/ x >= y)
      BY <2>5, <2>6
    <3> HIDE DEF x, y
    <3>2. x >= MinOf(input.asked, y)
      BY <2>1, <3>1
    <3> QED BY <3>2 DEF x, y
  <2> QED BY <2>5, <2>7
<1> QED BY <1>1, InputTypeInvariant, PTL

=============================================================================
