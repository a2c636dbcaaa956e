---------------------------- MODULE ScopesProofs ----------------------------
(***************************************************************************)
(* Names, unused bindings and loops of a function, for every text, every   *)
(* vocabulary and every set of names.                                      *)
(*                                                                         *)
(* The resolution keeps a stack of constructs, an arena of environments    *)
(* and the current loop; the properties speak of the text alone.  The      *)
(* first lemmas are about texts: which constructs are open behind an       *)
(* event, and that a longer text says the same of its beginning.  The next *)
(* ones are about environments: what one binding changes, and where a name *)
(* is looked up.  The invariant then says that stack, environments and     *)
(* loop are at every moment what the text so far says.                     *)
(***************************************************************************)
EXTENDS Scopes, Minimum, SequenceTheorems, FiniteSetTheorems

Events ==
    [what : {"template"}, names : {<<n>> : n \in Names}, kind : {"type", "mutability"}]
    \cup [what : {"pattern"}, names : Seq(Names), kind : {"variable"}]
    \cup [what : {"binding"}, names : Seq(Names), kind : {"variable", "type"}]
    \cup [what : {"use"}, names : {<<n>> : n \in Names}]
    \cup [what : {"block", "loop", "break", "continue", "end"}]
-----------------------------------------------------------------------------
(* Which constructs are open.                                              *)

(* A function of numbers whose value at each is made of the one before.    *)
StepsStay(n, S, step) == \A i \in 1 .. n : \A x \in S : step[i][x] \in S
Counts(f, n, s, step) == f[0] = s /\ \A i \in 1 .. n : f[i] = step[i][f[i - 1]]
LEMMA DefinedByCount ==
    ASSUME NEW n \in Nat, NEW S, NEW s \in S, NEW step, StepsStay(n, S, step)
    PROVE  \E f \in [0 .. n -> S] : Counts(f, n, s, step)
<1> DEFINE D == 0 .. n
           Value(i, g) == IF i = 0 THEN s ELSE step[i][g[i - 1]]
           value == [i \in D |-> [g \in [D -> S] |-> Value(i, g)]]
           rank == [i \in D |-> i]
<1>1. ASSUME NEW i \in D, NEW g \in [D -> S], NEW h \in [D -> S]
      PROVE  /\ value[i][g] \in S
             /\ (\A j \in D : rank[j] < rank[i] => g[j] = h[j]) => value[i][g] = value[i][h]
  <2>1. value[i][g] = Value(i, g) /\ value[i][h] = Value(i, h)
    OBVIOUS
  <2>2. i # 0 => i \in 1 .. n /\ i - 1 \in D /\ rank[i - 1] < rank[i]
    OBVIOUS
  <2>3. Value(i, g) \in S
    <3>1. i # 0 => g[i - 1] \in S
      BY <2>2
    <3> QED
      BY <2>2, <3>1 DEF StepsStay
  <2>4. ASSUME \A j \in D : rank[j] < rank[i] => g[j] = h[j]
        PROVE  Value(i, g) = Value(i, h)
    BY <2>2, <2>4
  <2> QED
    BY <2>1, <2>3, <2>4
<1>2. LooksDown(D, S, rank, value)
  BY <1>1 DEF LooksDown
<1>3. rank \in [D -> 0 .. n]
  OBVIOUS
<1>4. PICK f \in [D -> S] : \A i \in D : f[i] = value[i][f]
  <2> HIDE DEF D, value, rank
  <2> QED
    BY <1>2, <1>3, DefinedByRank
<1>5. \A i \in D : f[i] = Value(i, f)
  BY <1>4
<1> QED
  BY <1>5 DEF Counts

(* A text is a sequence of events.                                         *)
LEMMA TextFacts ==
    ASSUME NEW t \in Seq(Events)
    PROVE  Len(t) \in Nat /\ DOMAIN t = 1 .. Len(t) /\ \A i \in 1 .. Len(t) : t[i] \in Events
BY LenProperties, ElementOfSeq

(* An event leaves the constructs around it, or one less, or one more.     *)
Follows(t, i, before, after) ==
    \/ t[i].what = "end" /\ Len(before) = 0 /\ Len(after) = 0
    \/ /\ t[i].what = "end" /\ Len(before) > 0 /\ Len(after) = Len(before) - 1
       /\ \A p \in 1 .. Len(after) : after[p] = before[p]
    \/ /\ t[i].what # "end" /\ Opens(t, i, before) /\ Len(after) = Len(before) + 1
       /\ \A p \in 1 .. Len(before) : after[p] = before[p]
       /\ after[Len(after)] = i
    \/ t[i].what # "end" /\ ~Opens(t, i, before) /\ after = before

LEMMA BehindFollows ==
    ASSUME NEW t, NEW S, NEW i \in S, NEW before \in Seq(S)
    PROVE  Behind(t, i, before) \in Seq(S) /\ Follows(t, i, before, Behind(t, i, before))
<1>1. Len(before) \in Nat /\ \A p \in 1 .. Len(before) : before[p] \in S
  BY LenProperties, ElementOfSeq
<1>2. CASE t[i].what = "end"
  <2>1. PICK k \in Int : k = Len(before) - 1 /\ k + 1 = Len(before) /\ k - 1 + 1 = k
    BY <1>1
  <2>2. PICK after : after = SubSeq(before, 1, k)
    OBVIOUS
  <2>3. \A p \in 1 .. k : before[p] \in S
    BY <1>1, <2>1
  <2>4. /\ after \in Seq(S) /\ Len(after) = IF 1 <= k THEN k - 1 + 1 ELSE 0
        /\ \A p \in 1 .. k - 1 + 1 : after[p] = before[1 + p - 1]
    BY <2>2, <2>3, SubSeqProperties
  <2>5. Len(before) = 0 => Len(after) = 0
    BY <2>1, <2>4
  <2>6. Len(before) > 0 => Len(after) = Len(before) - 1
    BY <1>1, <2>1, <2>4
  <2>7. \A p \in 1 .. Len(after) : after[p] = before[p]
    BY <2>1, <2>4
  <2>8. Behind(t, i, before) = after
    BY <1>2, <2>1, <2>2 DEF Behind
  <2> QED
    BY <1>1, <1>2, <2>4, <2>5, <2>6, <2>7, <2>8 DEF Follows
<1>3. CASE t[i].what # "end" /\ Opens(t, i, before)
  <2>1. Behind(t, i, before) = Append(before, i)
    BY <1>3 DEF Behind
  <2> QED
    BY <1>3, <2>1, AppendProperties DEF Follows
<1>4. CASE t[i].what # "end" /\ ~Opens(t, i, before)
  BY <1>4 DEF Behind, Follows
<1> QED
  BY <1>2, <1>3, <1>4

(* The constructs around every event, by the events before it.             *)
LEMMA AroundByEvents ==
    ASSUME NEW t \in Seq(Events)
    PROVE  /\ Around(t)[0] = <<>>
           /\ \A i \in 0 .. Len(t) : Around(t)[i] \in Seq(1 .. Len(t))
           /\ \A i \in 1 .. Len(t) : /\ Around(t)[i] = Behind(t, i, Around(t)[i - 1])
                                     /\ Follows(t, i, Around(t)[i - 1], Around(t)[i])
<1>1. Len(t) \in Nat
  BY TextFacts
<1> DEFINE n == Len(t)
           S == Seq(1 .. n)
           step == [i \in 1 .. n |-> [x \in S |-> Behind(t, i, x)]]
           Value(f, i) == IF i = 0 THEN <<>> ELSE Behind(t, i, f[i - 1])
           Solution(f) == f = [i \in 0 .. n |-> Value(f, i)]
<1>2. <<>> \in S
  OBVIOUS
<1>3. \A i \in 1 .. n : \A x \in S : step[i][x] = Behind(t, i, x) /\ step[i][x] \in S
  BY BehindFollows
<1>4. PICK f \in [0 .. n -> S] : Counts(f, n, <<>>, step)
  <2>0. n \in Nat
    BY <1>1
  <2>1. StepsStay(n, S, step)
    BY <1>3 DEF StepsStay
  <2> HIDE DEF n, S, step
  <2> QED
    BY <2>0, <1>2, <2>1, DefinedByCount
<1>5. Solution(f)
  <2>1. ASSUME NEW i \in 0 .. n
        PROVE  f[i] = Value(f, i)
    <3>1. i # 0 => i \in 1 .. n /\ i - 1 \in 0 .. n
      BY <1>1
    <3>2. i # 0 => f[i - 1] \in S
      BY <3>1
    <3> QED
      BY <1>3, <1>4, <3>1, <3>2 DEF Counts
  <2>2. f = [i \in 0 .. n |-> f[i]]
    OBVIOUS
  <2> HIDE DEF Value
  <2> QED
    BY <2>1, <2>2
<1>6. Around(t) = CHOOSE g : Solution(g)
  BY DEF Around
<1>7. Solution(Around(t))
  <2> HIDE DEF Solution
  <2> QED
    BY <1>5, <1>6
<1>8. \A i \in 0 .. n : Around(t)[i] = Value(Around(t), i)
  <2>1. PICK g : g = Around(t)
    OBVIOUS
  <2>2. g = [i \in 0 .. n |-> Value(g, i)]
    BY <1>7, <2>1
  <2> HIDE DEF Value
  <2> QED
    BY <2>1, <2>2
<1>9. Around(t)[0] = <<>> /\ \A i \in 1 .. n : Around(t)[i] = Behind(t, i, Around(t)[i - 1])
  BY <1>1, <1>8
<1> DEFINE Wrong == {i \in 0 .. n : Around(t)[i] \notin S}
<1>10. ASSUME Wrong # {}
       PROVE  FALSE
  <2>0. Wrong \subseteq Nat
    OBVIOUS
  <2>1. PICK i \in Wrong : \A j \in Wrong : i <= j
    BY <1>10, <2>0, LeastNumber
  <2>2. i # 0
    BY <1>2, <1>9, <2>1
  <2>3. i \in 1 .. n /\ i - 1 \in 0 .. n /\ i - 1 \notin Wrong
    BY <1>1, <2>1, <2>2
  <2>4. Around(t)[i - 1] \in S
    BY <2>3
  <2>5. Behind(t, i, Around(t)[i - 1]) \in S
    BY <1>3, <2>3, <2>4
  <2> QED
    BY <1>9, <2>1, <2>3, <2>5
<1>11. \A i \in 0 .. n : Around(t)[i] \in S
  BY <1>10
<1>12. ASSUME NEW i \in 1 .. n
       PROVE  Follows(t, i, Around(t)[i - 1], Around(t)[i])
  <2>1. Around(t)[i - 1] \in S
    BY <1>1, <1>11
  <2> QED
    BY <1>9, <2>1, BehindFollows
<1> QED
  BY <1>9, <1>11, <1>12

(* A text with one more event.                                             *)
Longer(t, u) ==
    /\ t \in Seq(Events) /\ u \in Seq(Events) /\ Len(u) = Len(t) + 1
    /\ \A i \in 1 .. Len(t) : u[i] = t[i]

(* The text that an action leaves is one event longer.                     *)
LEMMA AppendIsLonger ==
    ASSUME NEW t \in Seq(Events), NEW e \in Events
    PROVE  Longer(t, Append(t, e)) /\ Append(t, e)[Len(t) + 1] = e
BY AppendProperties DEF Longer

(* It has the same constructs around the events it had.                    *)
LEMMA AroundOfLonger ==
    ASSUME NEW t, NEW u, Longer(t, u)
    PROVE  \A i \in 0 .. Len(t) : Around(u)[i] = Around(t)[i]
<1> DEFINE Wrong == {i \in 0 .. Len(t) : Around(u)[i] # Around(t)[i]}
<1>0. /\ t \in Seq(Events) /\ u \in Seq(Events) /\ Len(t) \in Nat /\ Len(u) = Len(t) + 1
      /\ \A i \in 1 .. Len(t) : u[i] = t[i]
  BY TextFacts DEF Longer
<1>1. ASSUME Wrong # {}
      PROVE  FALSE
  <2>0. Wrong \subseteq Nat
    OBVIOUS
  <2>1. PICK i \in Wrong : \A j \in Wrong : i <= j
    BY <1>1, <2>0, LeastNumber
  <2>2. i # 0
    BY <1>0, <2>1, AroundByEvents
  <2>3. i \in 1 .. Len(t) /\ i - 1 \in 0 .. Len(t) /\ i - 1 \notin Wrong /\ i \in 1 .. Len(u)
    BY <1>0, <2>1, <2>2
  <2>4. PICK before \in Seq(1 .. Len(t)) : before = Around(t)[i - 1] /\ before = Around(u)[i - 1]
    BY <1>0, <2>3, AroundByEvents
  <2>5. Around(t)[i] = Behind(t, i, before) /\ Around(u)[i] = Behind(u, i, before)
    BY <1>0, <2>3, <2>4, AroundByEvents
  <2>6. t[i] = u[i] /\ \A j \in Elements(before) : t[j] = u[j]
    <3>1. Elements(before) \subseteq 1 .. Len(t)
      BY LenProperties, ElementOfSeq DEF Elements
    <3> QED
      BY <1>0, <2>3, <3>1
  <2>7. Behind(t, i, before) = Behind(u, i, before)
    BY <2>6 DEF Behind, Opens
  <2> QED
    BY <2>1, <2>5, <2>7
<1> QED
  BY <1>1

(* Each construct around an event has been there since it began, at the    *)
(* same depth.                                                             *)
Since(t, i, p, o) ==
    /\ o \in 1 .. i /\ Len(Around(t)[o]) = p /\ t[o].what \in {"binding", "block", "loop", "break"}
    /\ Opens(t, o, Around(t)[o - 1])
    /\ \A q \in 1 .. p - 1 : Around(t)[i][q] < o
    /\ \A j \in o .. i : p <= Len(Around(t)[j]) /\ Around(t)[j][p] = o
Nested(t, i) == \A p \in 1 .. Len(Around(t)[i]) : Since(t, i, p, Around(t)[i][p])

LEMMA AroundNested ==
    ASSUME NEW t \in Seq(Events)
    PROVE  \A i \in 0 .. Len(t) : Nested(t, i)
<1> DEFINE Wrong == {i \in 0 .. Len(t) : ~Nested(t, i)}
<1>0. Len(t) \in Nat
  BY TextFacts
<1>1. ASSUME Wrong # {}
      PROVE  FALSE
  <2>0. Wrong \subseteq Nat
    OBVIOUS
  <2>1. PICK i \in Wrong : \A j \in Wrong : i <= j
    BY <1>1, <2>0, LeastNumber
  <2>2. i # 0
    <3>1. Len(Around(t)[0]) = 0
      BY AroundByEvents, EmptySeq
    <3>2. Nested(t, 0)
      BY <3>1 DEF Nested
    <3> QED
      BY <2>1, <3>2
  <2>3. i \in 1 .. Len(t) /\ i - 1 \in 0 .. Len(t) /\ i - 1 \notin Wrong /\ i \in Nat
    BY <1>0, <2>1, <2>2
  <2>4. Nested(t, i - 1)
    BY <2>3
  <2>5. PICK before, after : before = Around(t)[i - 1] /\ after = Around(t)[i]
    OBVIOUS
  <2>6. /\ before \in Seq(1 .. Len(t)) /\ after \in Seq(1 .. Len(t))
        /\ Len(before) \in Nat /\ Len(after) \in Nat
        /\ Follows(t, i, before, after)
    <3>1. before \in Seq(1 .. Len(t)) /\ after \in Seq(1 .. Len(t)) /\ Follows(t, i, before, after)
      BY <2>3, <2>5, AroundByEvents
    <3> QED
      BY <3>1, LenProperties
  <2>7. ASSUME NEW p \in 1 .. Len(after), p \in 1 .. Len(before), after[p] = before[p],
               \A q \in 1 .. p - 1 : after[q] = before[q]
        PROVE  Since(t, i, p, after[p])
    <3>1. Since(t, i - 1, p, before[p])
      BY <2>4, <2>5, <2>7 DEF Nested
    <3>2. PICK o : o = before[p]
      OBVIOUS
    <3>3. /\ o \in 1 .. i - 1 /\ Len(Around(t)[o]) = p
          /\ t[o].what \in {"binding", "block", "loop", "break"}
          /\ Opens(t, o, Around(t)[o - 1])
          /\ \A q \in 1 .. p - 1 : before[q] < o
          /\ \A j \in o .. i - 1 : p <= Len(Around(t)[j]) /\ Around(t)[j][p] = o
      BY <2>5, <3>1, <3>2 DEF Since
    <3>4. ASSUME NEW j \in o .. i
          PROVE  p <= Len(Around(t)[j]) /\ Around(t)[j][p] = o
      <4>1. CASE j = i
        BY <2>5, <2>6, <2>7, <3>2, <4>1
      <4>2. CASE j # i
        <5>1. j \in o .. i - 1
          BY <2>3, <3>3, <4>2
        <5> QED
          BY <3>3, <5>1
      <4> QED
        BY <4>1, <4>2
    <3>5. o \in 1 .. i
      BY <2>3, <3>3
    <3>6. \A q \in 1 .. p - 1 : after[q] < o
      BY <2>7, <3>3
    <3>7. Since(t, i, p, o)
      BY <2>5, <3>3, <3>4, <3>5, <3>6 DEF Since
    <3> QED
      BY <2>7, <3>2, <3>7
  <2>8. ASSUME \A p \in 1 .. Len(after) : p \in 1 .. Len(before) /\ after[p] = before[p]
        PROVE  Nested(t, i)
    <3>1. ASSUME NEW p \in 1 .. Len(after)
          PROVE  Since(t, i, p, after[p])
      <4>1. \A q \in 1 .. p - 1 : q \in 1 .. Len(after)
        BY <2>6
      <4> QED
        BY <2>7, <2>8, <4>1
    <3> QED
      BY <2>5, <3>1 DEF Nested
  <2>9. ASSUME Opens(t, i, before), Len(after) = Len(before) + 1, t[i].what # "end",
               \A p \in 1 .. Len(before) : after[p] = before[p], after[Len(after)] = i
        PROVE  Nested(t, i)
    <3>1. ASSUME NEW p \in 1 .. Len(before)
          PROVE  Since(t, i, p, after[p])
      <4>1. p \in 1 .. Len(after) /\ \A q \in 1 .. p - 1 : q \in 1 .. Len(before)
        BY <2>6, <2>9
      <4> QED
        BY <2>7, <2>9, <4>1
    <3>2. Since(t, i, Len(after), i)
      <4>1. \A q \in 1 .. Len(after) - 1 : after[q] < i
        <5>1. ASSUME NEW q \in 1 .. Len(after) - 1
              PROVE  after[q] < i
          <6>1. q \in 1 .. Len(before)
            BY <2>6, <2>9
          <6>2. before[q] \in 1 .. i - 1
            BY <2>4, <2>5, <6>1 DEF Nested, Since
          <6> QED
            BY <2>3, <2>9, <6>1, <6>2
        <5> QED
          BY <5>1
      <4>2. t[i].what \in {"binding", "block", "loop", "break"}
        BY <2>9 DEF Opens
      <4>3. \A j \in i .. i : j = i
        BY <2>3
      <4>4. i \in 1 .. i /\ Len(after) <= Len(after)
        BY <2>3, <2>6
      <4> QED
        BY <2>5, <2>9, <4>1, <4>2, <4>3, <4>4 DEF Since
    <3>3. ASSUME NEW p \in 1 .. Len(after)
          PROVE  Since(t, i, p, after[p])
      <4>1. p \in 1 .. Len(before) \/ p = Len(after)
        BY <2>6, <2>9
      <4> QED
        BY <2>9, <3>1, <3>2, <4>1
    <3> QED
      BY <2>5, <3>3 DEF Nested
  <2>10. Nested(t, i)
    <3>1. CASE t[i].what = "end" /\ Len(after) = 0
      BY <2>8, <3>1
    <3>2. CASE t[i].what = "end" /\ Len(after) # 0
      <4>1. Len(after) = Len(before) - 1 /\ \A p \in 1 .. Len(after) : after[p] = before[p]
        BY <2>6, <3>2 DEF Follows
      <4>2. \A p \in 1 .. Len(after) : p \in 1 .. Len(before)
        BY <2>6, <4>1
      <4> QED
        BY <2>8, <4>1, <4>2
    <3>3. CASE t[i].what # "end" /\ Opens(t, i, before)
      <4>1. /\ Len(after) = Len(before) + 1 /\ after[Len(after)] = i
            /\ \A p \in 1 .. Len(before) : after[p] = before[p]
        BY <2>6, <3>3 DEF Follows
      <4> QED
        BY <2>9, <3>3, <4>1
    <3>4. CASE t[i].what # "end" /\ ~Opens(t, i, before)
      <4>1. after = before
        BY <2>6, <3>4 DEF Follows
      <4> QED
        BY <2>8, <4>1
    <3> QED
      BY <3>1, <3>2, <3>3, <3>4
  <2> QED
    BY <2>1, <2>10
<1> QED
  BY <1>1

IsOpener(t, i) == t[i].what # "end" /\ Opens(t, i, Around(t)[i - 1])
Top(s) == s[Len(s)]

(* What is around an event, as numbers of earlier events.                  *)
LEMMA AroundFacts ==
    ASSUME NEW t \in Seq(Events), NEW i \in 0 .. Len(t)
    PROVE  /\ Around(t)[i] \in Seq(1 .. Len(t)) /\ Len(Around(t)[i]) \in Nat
           /\ Elements(Around(t)[i]) = {Around(t)[i][p] : p \in 1 .. Len(Around(t)[i])}
           /\ \A p \in 1 .. Len(Around(t)[i]) : /\ Around(t)[i][p] \in 1 .. i
                                                /\ Since(t, i, p, Around(t)[i][p])
<1>1. Around(t)[i] \in Seq(1 .. Len(t))
  BY AroundByEvents
<1>2. Len(Around(t)[i]) \in Nat /\ DOMAIN Around(t)[i] = 1 .. Len(Around(t)[i])
  BY <1>1, LenProperties
<1>3. Nested(t, i)
  BY AroundNested
<1> QED
  BY <1>1, <1>2, <1>3 DEF Nested, Since, Elements

LEMMA AroundElements ==
    ASSUME NEW t \in Seq(Events), NEW i \in 0 .. Len(t)
    PROVE  Elements(Around(t)[i]) \subseteq 1 .. i
<1>1. Elements(Around(t)[i]) = {Around(t)[i][p] : p \in 1 .. Len(Around(t)[i])}
  BY AroundFacts
<1>2. \A p \in 1 .. Len(Around(t)[i]) : Around(t)[i][p] \in 1 .. i
  BY AroundFacts
<1> QED
  BY <1>1, <1>2

(* What is open has no end yet, and what is not open has one.              *)
LEMMA OpenHasNoEnd ==
    ASSUME NEW t \in Seq(Events), NEW o \in Elements(Around(t)[Len(t)])
    PROVE  ~Closed(t, o) /\ IsOpener(t, o) /\ o \in 1 .. Len(t)
<1>1. Len(t) \in Nat /\ Len(t) \in 0 .. Len(t)
  BY TextFacts
<1>2. PICK p \in 1 .. Len(Around(t)[Len(t)]) : o = Around(t)[Len(t)][p]
  BY <1>1, AroundFacts
<1>3. Since(t, Len(t), p, o) /\ o \in 1 .. Len(t)
  BY <1>1, <1>2, AroundFacts
<1>4. Len(Around(t)[o]) = p /\ \A j \in o .. Len(t) : p <= Len(Around(t)[j])
  BY <1>3 DEF Since
<1>5. ASSUME NEW j \in o + 1 .. Len(t), Len(Around(t)[j]) < Len(Around(t)[o])
      PROVE  FALSE
  <2>1. j \in o .. Len(t) /\ j \in 0 .. Len(t)
    BY <1>1, <1>3
  <2>2. p <= Len(Around(t)[j]) /\ Len(Around(t)[j]) \in Nat
    BY <1>4, <2>1, AroundFacts
  <2> QED
    BY <1>4, <1>5, <2>2
<1>6. Ends(t, o) = {}
  BY <1>5 DEF Ends
<1>7. IsOpener(t, o)
  BY <1>3 DEF Since, IsOpener
<1> QED
  BY <1>3, <1>6, <1>7 DEF Closed

(* What has no end is still open at the end of the text.                   *)
LEMMA NoEndIsOpen ==
    ASSUME NEW t \in Seq(Events), NEW o \in 1 .. Len(t), IsOpener(t, o), ~Closed(t, o)
    PROVE  o \in Elements(Around(t)[Len(t)])
<1>0. Len(t) \in Nat /\ o \in 0 .. Len(t) /\ o - 1 \in 0 .. Len(t)
  BY TextFacts
<1>1. PICK p \in Nat : p = Len(Around(t)[o]) /\ p >= 1 /\ Around(t)[o][p] = o
  <2>1. Follows(t, o, Around(t)[o - 1], Around(t)[o])
    BY AroundByEvents
  <2>2. Len(Around(t)[o - 1]) \in Nat /\ Len(Around(t)[o]) \in Nat
    BY <1>0, AroundFacts
  <2>3. Len(Around(t)[o]) = Len(Around(t)[o - 1]) + 1 /\ Around(t)[o][Len(Around(t)[o])] = o
    BY <2>1 DEF Follows, IsOpener
  <2> QED
    BY <2>2, <2>3
<1>2. ASSUME NEW j \in o .. Len(t)
      PROVE  p <= Len(Around(t)[j])
  <2>1. j # o => j \in o + 1 .. Len(t)
    BY <1>0
  <2>2. Len(Around(t)[j]) \in Nat
    BY <1>0, AroundFacts
  <2>3. j # o => ~(Len(Around(t)[j]) < p)
    BY <1>1, <2>1 DEF Closed, Ends
  <2> QED
    BY <1>1, <2>2, <2>3
<1> DEFINE Wrong == {j \in o .. Len(t) : Around(t)[j][p] # o}
<1>3. ASSUME Wrong # {}
      PROVE  FALSE
  <2>0. Wrong \subseteq Nat
    BY <1>0
  <2>1. PICK j \in Wrong : \A k \in Wrong : j <= k
    BY <1>3, <2>0, LeastNumber
  <2>2. j # o
    BY <1>1, <2>1
  <2>3. j \in 1 .. Len(t) /\ j - 1 \in o .. Len(t) /\ j - 1 \notin Wrong /\ j - 1 \in 0 .. Len(t)
    BY <1>0, <2>1, <2>2
  <2>4. PICK before, after : before = Around(t)[j - 1] /\ after = Around(t)[j]
    OBVIOUS
  <2>5. before[p] = o /\ p <= Len(before) /\ p <= Len(after)
    BY <1>2, <2>1, <2>3, <2>4
  <2>6. Follows(t, j, before, after)
    BY <2>3, <2>4, AroundByEvents
  <2>7. Len(before) \in Nat /\ Len(after) \in Nat
    BY <2>1, <2>3, <2>4, AroundFacts
  <2>8. p \in 1 .. Len(before) /\ p \in 1 .. Len(after)
    BY <1>1, <2>5, <2>7
  <2>9. after[p] = before[p]
    BY <2>6, <2>7, <2>8 DEF Follows
  <2> QED
    BY <2>1, <2>4, <2>5, <2>9
<1>4. Around(t)[Len(t)][p] = o /\ p \in 1 .. Len(Around(t)[Len(t)])
  <2>1. Len(t) \in o .. Len(t) /\ Len(t) \in 0 .. Len(t)
    BY <1>0
  <2>2. Len(Around(t)[Len(t)]) \in Nat
    BY <2>1, AroundFacts
  <2> QED
    BY <1>1, <1>2, <1>3, <2>1, <2>2
<1>5. Elements(Around(t)[Len(t)]) = {Around(t)[Len(t)][q] : q \in 1 .. Len(Around(t)[Len(t)])}
  <2>1. Len(t) \in 0 .. Len(t)
    BY <1>0
  <2> QED
    BY <2>1, AroundFacts
<1> QED
  BY <1>4, <1>5

(* The smallest and the largest of a set of numbers.                       *)
LEMMA SmallestIs ==
    ASSUME NEW S, S \subseteq Nat, S # {}
    PROVE  Smallest(S) \in S /\ \A n \in S : Smallest(S) <= n
BY LeastNumber DEF Smallest

(* The set is bounded, so it has a largest member.                         *)
LEMMA LargestIs ==
    ASSUME NEW n \in Nat, NEW S, S \subseteq 0 .. n, S # {}
    PROVE  Largest(S) \in S /\ \A k \in S : k <= Largest(S)
<1> DEFINE Bounds == {b \in 0 .. n : \A k \in S : k <= b}
<1>1. n \in Bounds /\ Bounds \subseteq Nat
  OBVIOUS
<1>2. PICK b \in Bounds : \A c \in Bounds : b <= c
  BY <1>1, LeastNumber
<1>3. b \in S
  <2>1. ASSUME b \notin S
        PROVE  FALSE
    <3>1. PICK k \in S : k \in 0 .. n
      OBVIOUS
    <3>2. k <= b /\ k # b
      BY <1>2, <2>1, <3>1
    <3>3. b - 1 \in 0 .. n /\ ~(b <= b - 1)
      BY <1>2, <3>1, <3>2
    <3>4. \A l \in S : l <= b - 1
      BY <1>2, <2>1
    <3> QED
      BY <1>2, <3>3, <3>4
  <2> QED
    BY <2>1
<1>4. \E m \in S : \A k \in S : k <= m
  BY <1>2, <1>3
<1> QED
  BY <1>4 DEF Largest

LEMMA LargestIsThe ==
    ASSUME NEW n \in Nat, NEW S, S \subseteq 0 .. n, NEW m \in S, \A k \in S : k <= m
    PROVE  Largest(S) = m
<1>1. Largest(S) \in S /\ \A k \in S : k <= Largest(S)
  BY LargestIs
<1>2. Largest(S) <= m /\ m <= Largest(S) /\ m \in 0 .. n /\ Largest(S) \in 0 .. n
  BY <1>1
<1> QED
  BY <1>2

LEMMA SmallestIsThe ==
    ASSUME NEW S, S \subseteq Nat, NEW m \in S, \A k \in S : m <= k
    PROVE  Smallest(S) = m
<1>1. Smallest(S) \in S /\ \A k \in S : Smallest(S) <= k
  BY SmallestIs
<1>2. Smallest(S) <= m /\ m <= Smallest(S) /\ m \in Nat /\ Smallest(S) \in Nat
  BY <1>1
<1> QED
  BY <1>2

(* How ends grow with the text: only the innermost construct can end.      *)
LEMMA EndsOfLonger ==
    ASSUME NEW t, NEW u, Longer(t, u), NEW i \in 1 .. Len(t)
    PROVE  /\ Ends(t, i) \subseteq i + 1 .. Len(t)
           /\ Ends(u, i) = Ends(t, i)
                  \cup {j \in {Len(t) + 1} : Len(Around(u)[j]) < Len(Around(t)[i])}
<1>0. Len(t) \in Nat /\ Len(u) = Len(t) + 1
  BY TextFacts DEF Longer
<1>1. \A j \in 0 .. Len(t) : Around(u)[j] = Around(t)[j]
  BY AroundOfLonger
<1>2. ASSUME NEW j \in i + 1 .. Len(u)
      PROVE  (j \in i + 1 .. Len(t) /\ Around(u)[j] = Around(t)[j]) \/ j = Len(t) + 1
  BY <1>0, <1>1
<1>3. i + 1 .. Len(u) = (i + 1 .. Len(t)) \cup {Len(t) + 1}
  BY <1>0
<1>4. Around(u)[i] = Around(t)[i] /\ \A j \in i + 1 .. Len(t) : Around(u)[j] = Around(t)[j]
  BY <1>0, <1>1
<1>5. Ends(u, i) = {j \in (i + 1 .. Len(t)) \cup {Len(t) + 1} : Len(Around(u)[j]) < Len(Around(t)[i])}
  BY <1>3, <1>4 DEF Ends
<1> QED
  BY <1>4, <1>5 DEF Ends

(* What has ended keeps its end; what ends now ends with the last event.   *)
LEMMA ClosedOfLonger ==
    ASSUME NEW t, NEW u, Longer(t, u), NEW i \in 1 .. Len(t)
    PROVE  /\ Closed(t, i) => /\ Closed(u, i) /\ Smallest(Ends(u, i)) = Smallest(Ends(t, i))
                              /\ Smallest(Ends(t, i)) \in i + 1 .. Len(t)
           /\ ~Closed(t, i) /\ Closed(u, i) => Smallest(Ends(u, i)) = Len(t) + 1
<1>0. Len(t) \in Nat /\ Len(u) = Len(t) + 1
  BY TextFacts DEF Longer
<1> DEFINE More == {j \in {Len(t) + 1} : Len(Around(u)[j]) < Len(Around(t)[i])}
<1>1. Ends(t, i) \subseteq i + 1 .. Len(t) /\ Ends(u, i) = Ends(t, i) \cup More
  BY EndsOfLonger
<1>2. More \subseteq {Len(t) + 1}
  OBVIOUS
<1> HIDE DEF More
<1>3. ASSUME Closed(t, i)
      PROVE  /\ Closed(u, i) /\ Smallest(Ends(u, i)) = Smallest(Ends(t, i))
             /\ Smallest(Ends(t, i)) \in i + 1 .. Len(t)
  <2>1. Ends(t, i) # {} /\ Ends(t, i) \subseteq Nat
    BY <1>0, <1>1, <1>3 DEF Closed
  <2>2. PICK m : m = Smallest(Ends(t, i)) /\ m \in Ends(t, i) /\ \A n \in Ends(t, i) : m <= n
    BY <2>1, SmallestIs
  <2>3. m \in i + 1 .. Len(t) /\ m <= Len(t) + 1
    BY <1>0, <1>1, <2>2
  <2>4. Ends(u, i) \subseteq Nat /\ m \in Ends(u, i) /\ \A n \in Ends(u, i) : m <= n
    <3>1. ASSUME NEW n \in Ends(u, i)
          PROVE  n \in Nat /\ m <= n
      <4>1. n \in Ends(t, i) \/ n = Len(t) + 1
        BY <1>1, <1>2
      <4> QED
        BY <1>0, <1>1, <2>2, <2>3, <4>1
    <3>2. m \in Ends(u, i)
      BY <1>1, <2>2
    <3> QED
      BY <3>1, <3>2
  <2>5. Smallest(Ends(u, i)) = m
    BY <2>4, SmallestIsThe
  <2> QED
    BY <2>2, <2>3, <2>4, <2>5 DEF Closed
<1>4. ASSUME ~Closed(t, i), Closed(u, i)
      PROVE  Smallest(Ends(u, i)) = Len(t) + 1
  <2>1. Ends(u, i) = {Len(t) + 1}
    BY <1>1, <1>2, <1>4 DEF Closed
  <2>2. Len(t) + 1 \in Nat
    BY <1>0
  <2> QED
    BY <2>1, <2>2, SmallestIsThe
<1> QED
  BY <1>3, <1>4

(* What the next event ends. *)
EndsNow(t, u, i) ==
    /\ u[Len(t) + 1].what = "end" /\ Len(Around(t)[Len(t)]) > 0
    /\ i = Top(Around(t)[Len(t)])

LEMMA ClosedNow ==
    ASSUME NEW t, NEW u, Longer(t, u), NEW i \in 1 .. Len(t), IsOpener(t, i), ~Closed(t, i)
    PROVE  Closed(u, i) <=> EndsNow(t, u, i)
<1>0. /\ t \in Seq(Events) /\ u \in Seq(Events) /\ Len(t) \in Nat /\ Len(u) = Len(t) + 1
      /\ Len(t) \in 0 .. Len(t) /\ i \in 0 .. Len(t)
  BY TextFacts DEF Longer
<1>1. PICK before, after : before = Around(t)[Len(t)] /\ after = Around(u)[Len(t) + 1]
  OBVIOUS
<1>2. Follows(u, Len(t) + 1, before, after) /\ Len(before) \in Nat /\ Len(after) \in Nat
  <2>1. before = Around(u)[Len(t)] /\ Len(t) + 1 \in 1 .. Len(u) /\ Len(t) + 1 - 1 = Len(t)
    BY <1>0, <1>1, AroundOfLonger
  <2>2. Follows(u, Len(t) + 1, before, after)
    BY <1>0, <1>1, <2>1, AroundByEvents
  <2>3. Len(t) + 1 \in 0 .. Len(u)
    BY <1>0
  <2> QED
    BY <1>0, <1>1, <2>2, <2>3, AroundFacts
<1>3. i \in Elements(before)
  BY <1>0, <1>1, NoEndIsOpen
<1>4. PICK p \in 1 .. Len(before) : before[p] = i /\ Len(Around(t)[i]) = p
  <2>1. PICK p \in 1 .. Len(before) : before[p] = i
    <3>1. Elements(Around(t)[Len(t)]) = {Around(t)[Len(t)][q] : q \in 1 .. Len(Around(t)[Len(t)])}
      BY <1>0, AroundFacts
    <3> QED
      BY <1>1, <1>3, <3>1
  <2>2. Since(t, Len(t), p, i)
    BY <1>0, <1>1, <2>1, AroundFacts
  <2> QED
    BY <2>1, <2>2 DEF Since
<1>5. Closed(u, i) <=> Len(after) < p
  <2>1. Ends(u, i) = {j \in {Len(t) + 1} : Len(Around(u)[j]) < p}
    BY <1>4, EndsOfLonger DEF Closed
  <2> QED
    BY <1>1, <2>1 DEF Closed
<1>6. Len(after) < p <=> u[Len(t) + 1].what = "end" /\ p = Len(before)
  <2>1. Len(after) < Len(before) <=> u[Len(t) + 1].what = "end"
    BY <1>2, <1>4 DEF Follows
  <2>2. u[Len(t) + 1].what = "end" => Len(after) = Len(before) - 1
    BY <1>2, <1>4 DEF Follows
  <2> QED
    BY <1>2, <1>4, <2>1, <2>2
<1>7. p = Len(before) <=> i = before[Len(before)]
  <2>0. Len(before) \in 1 .. Len(before)
    BY <1>2, <1>4
  <2>1. Since(t, Len(t), Len(before), before[Len(before)])
    BY <1>0, <1>1, <2>0, AroundFacts
  <2>2. Len(Around(t)[before[Len(before)]]) = Len(before)
    BY <2>1 DEF Since
  <2> QED
    BY <1>4, <2>2
<1>8. Len(before) > 0
  BY <1>2, <1>4
<1> QED
  BY <1>1, <1>5, <1>6, <1>7, <1>8 DEF EndsNow, Top

(* The innermost construct of a kind is one of those around, or none.      *)
LEMMA EnclosingFacts ==
    ASSUME NEW t \in Seq(Events), NEW i \in 1 .. Len(t) + 1, NEW what
    PROVE  /\ Enclosing(t, i, what) \subseteq 1 .. i - 1
           /\ Innermost(t, i, what) \in {0} \cup Enclosing(t, i, what)
           /\ \A j \in Enclosing(t, i, what) : j <= Innermost(t, i, what)
<1>0. Len(t) \in Nat /\ i \in Nat /\ i - 1 \in 0 .. Len(t)
  BY TextFacts
<1>1. Elements(Around(t)[i - 1]) \subseteq 1 .. i - 1
  BY <1>0, AroundElements
<1>2. Enclosing(t, i, what) \subseteq 1 .. i - 1
  BY <1>1 DEF Enclosing
<1>3. {0} \cup Enclosing(t, i, what) \subseteq 0 .. i - 1 /\ i - 1 \in Nat
  BY <1>0, <1>2
<1>4. /\ Innermost(t, i, what) \in {0} \cup Enclosing(t, i, what)
      /\ \A j \in {0} \cup Enclosing(t, i, what) : j <= Innermost(t, i, what)
  <2>1. {0} \cup Enclosing(t, i, what) # {}
    OBVIOUS
  <2> QED
    BY <1>3, <2>1, LargestIs DEF Innermost
<1> QED
  BY <1>2, <1>4

(* A longer text does not change what encloses an event.                   *)
LEMMA InnermostOfLonger ==
    ASSUME NEW t, NEW u, Longer(t, u), NEW i \in 1 .. Len(t) + 1, NEW what
    PROVE  Enclosing(u, i, what) = Enclosing(t, i, what) /\ Innermost(u, i, what) = Innermost(t, i, what)
<1>0. t \in Seq(Events) /\ Len(t) \in Nat /\ i \in Nat /\ i - 1 \in 0 .. Len(t)
  BY TextFacts DEF Longer
<1>1. Around(u)[i - 1] = Around(t)[i - 1]
  BY <1>0, AroundOfLonger
<1>2. Elements(Around(t)[i - 1]) \subseteq 1 .. i - 1
  BY <1>0, AroundElements
<1>3. \A j \in Elements(Around(t)[i - 1]) : u[j] = t[j]
  BY <1>0, <1>2 DEF Longer
<1>4. Enclosing(u, i, what) = Enclosing(t, i, what)
  BY <1>1, <1>3 DEF Enclosing
<1> QED
  BY <1>4 DEF Innermost

(* When a binding is complete.                                             *)
LEMMA EffectFacts ==
    ASSUME NEW t \in Seq(Events), NEW i \in 1 .. Len(t)
    PROVE  /\ Effect(t, i) \in Nat /\ i <= Effect(t, i) /\ Effect(t, i) <= Len(t) + 1
           /\ t[i].what # "binding" => Effect(t, i) = i
           /\ t[i].what = "binding" => /\ IsOpener(t, i) /\ i < Effect(t, i)
                                       /\ Closed(t, i) <=> Effect(t, i) <= Len(t)
<1>0. Len(t) \in Nat
  BY TextFacts
<1>1. CASE t[i].what # "binding"
  BY <1>0, <1>1 DEF Effect
<1>2. CASE t[i].what = "binding" /\ Closed(t, i)
  <2>1. Ends(t, i) # {} /\ Ends(t, i) \subseteq i + 1 .. Len(t)
    BY <1>2 DEF Closed, Ends
  <2>2. i + 1 .. Len(t) \subseteq Nat
    BY <1>0
  <2>3. Smallest(Ends(t, i)) \in i + 1 .. Len(t)
    <3>1. Ends(t, i) \subseteq Nat
      BY <2>1, <2>2
    <3> QED
      BY <2>1, <3>1, SmallestIs
  <2>4. Effect(t, i) = Smallest(Ends(t, i))
    BY <1>2 DEF Effect
  <2>5. IsOpener(t, i)
    BY <1>2 DEF IsOpener, Opens
  <2> QED
    BY <1>0, <1>2, <2>3, <2>4, <2>5
<1>3. CASE t[i].what = "binding" /\ ~Closed(t, i)
  <2>1. IsOpener(t, i)
    BY <1>3 DEF IsOpener, Opens
  <2>2. Effect(t, i) = Len(t) + 1
    BY <1>3 DEF Effect
  <2> QED
    BY <1>0, <1>3, <2>1, <2>2
<1> QED
  BY <1>1, <1>2, <1>3

(* A longer text completes the binding that its last event ends, and no other. *)
LEMMA EffectOfLonger ==
    ASSUME NEW t, NEW u, Longer(t, u), NEW i \in 1 .. Len(t)
    PROVE  /\ Effect(t, i) <= Len(t) => Effect(u, i) = Effect(t, i)
           /\ Effect(t, i) > Len(t) =>
                  /\ t[i].what = "binding"
                  /\ Effect(u, i) = IF EndsNow(t, u, i) THEN Len(t) + 1 ELSE Len(t) + 2
           /\ t[i].what = "binding" /\ EndsNow(t, u, i) => Effect(t, i) > Len(t)
<1>0. /\ t \in Seq(Events) /\ u \in Seq(Events) /\ Len(t) \in Nat /\ Len(u) = Len(t) + 1
      /\ u[i] = t[i] /\ Len(t) + 1 + 1 = Len(t) + 2
  BY TextFacts DEF Longer
<1>1. CASE t[i].what # "binding"
  BY <1>0, <1>1, EffectFacts DEF Effect
<1>2. CASE t[i].what = "binding" /\ Closed(t, i)
  <2>1. Closed(u, i) /\ Smallest(Ends(u, i)) = Smallest(Ends(t, i))
    BY <1>2, ClosedOfLonger
  <2>2. Effect(u, i) = Effect(t, i) /\ Effect(t, i) <= Len(t) /\ Effect(t, i) \in Nat
    BY <1>0, <1>2, <2>1, EffectFacts DEF Effect
  <2>3. ~EndsNow(t, u, i)
    <3>1. ASSUME EndsNow(t, u, i)
          PROVE  FALSE
      <4>1. Len(t) \in 0 .. Len(t)
        BY <1>0
      <4>2. Len(Around(t)[Len(t)]) \in 1 .. Len(Around(t)[Len(t)])
        BY <3>1, <4>1, <1>0, AroundFacts DEF EndsNow
      <4>3. Elements(Around(t)[Len(t)]) = {Around(t)[Len(t)][q] : q \in 1 .. Len(Around(t)[Len(t)])}
        BY <1>0, <4>1, AroundFacts
      <4>4. i \in Elements(Around(t)[Len(t)])
        BY <3>1, <4>2, <4>3 DEF EndsNow, Top
      <4> QED
        BY <1>0, <1>2, <4>4, OpenHasNoEnd
    <3> QED
      BY <3>1
  <2> QED
    BY <1>0, <2>2, <2>3
<1>3. CASE t[i].what = "binding" /\ ~Closed(t, i)
  <2>1. Effect(t, i) = Len(t) + 1
    BY <1>3 DEF Effect
  <2>2. IsOpener(t, i)
    BY <1>0, <1>3, EffectFacts
  <2>3. Closed(u, i) <=> EndsNow(t, u, i)
    BY <1>3, <2>2, ClosedNow
  <2>4. Closed(u, i) => Smallest(Ends(u, i)) = Len(t) + 1
    BY <1>3, ClosedOfLonger
  <2>5. Effect(u, i) = IF EndsNow(t, u, i) THEN Len(t) + 1 ELSE Len(t) + 2
    BY <1>0, <1>3, <2>3, <2>4 DEF Effect
  <2> QED
    BY <1>0, <1>3, <2>1, <2>5
<1> QED
  BY <1>1, <1>2, <1>3

(* The symbols a text binds, and those that count at its end.              *)
InEffect(t) == {s \in Bindings(t) : Effect(t, s[1]) <= Len(t)}

LEMMA EventFacts ==
    ASSUME NEW e \in Events
    PROVE  /\ e.what \in {"template", "pattern", "binding"} =>
                 /\ e.names \in Seq(Names) /\ e.kind \in {"variable", "type", "mutability"}
                 /\ e.kind = "mutability" => Len(e.names) = 1
           /\ e.what = "use" => e.names \in Seq(Names) /\ Len(e.names) = 1
           /\ e.what = "pattern" => e.kind = "variable"
           /\ e.what = "binding" => e.kind \in {"variable", "type"}
<1>1. CASE e \in [what : {"template"}, names : {<<n>> : n \in Names}, kind : {"type", "mutability"}]
  <2>1. PICK n \in Names : e.names = <<n>>
    BY <1>1
  <2>2. e.what = "template" /\ e.kind \in {"type", "mutability"}
    BY <1>1
  <2>3. <<n>> \in Seq(Names) /\ Len(<<n>>) = 1
    OBVIOUS
  <2> QED
    BY <2>1, <2>2, <2>3
<1>2. CASE e \in [what : {"pattern"}, names : Seq(Names), kind : {"variable"}]
  BY <1>2
<1>3. CASE e \in [what : {"binding"}, names : Seq(Names), kind : {"variable", "type"}]
  BY <1>3
<1>4. CASE e \in [what : {"use"}, names : {<<n>> : n \in Names}]
  BY <1>4
<1>5. CASE e \in [what : {"block", "loop", "break", "continue", "end"}]
  BY <1>5
<1> QED
  BY <1>1, <1>2, <1>3, <1>4, <1>5 DEF Events

(* A symbol of a text: the place that binds it and which of its names it is. *)
LEMMA BindingFacts ==
    ASSUME NEW t \in Seq(Events), NEW s \in Bindings(t)
    PROVE  /\ s = <<s[1], s[2]>> /\ s[1] \in Binding(t) /\ s[1] \in 1 .. Len(t)
           /\ t[s[1]].names \in Seq(Names)
           /\ s[2] \in DOMAIN t[s[1]].names /\ s[2] \in 1 .. Len(t[s[1]].names) /\ s[2] \in Nat
           /\ NameOf(t, s) \in Names
           /\ t[s[1]].kind \in {"variable", "type", "mutability"}
           /\ IsFixed(t, s) => Len(t[s[1]].names) = 1
<1>1. PICK i \in Binding(t) : s \in {i} \X DOMAIN t[i].names
  BY DEF Bindings
<1>2. s = <<s[1], s[2]>> /\ s[1] = i /\ s[2] \in DOMAIN t[i].names
  BY <1>1
<1>3. i \in 1 .. Len(t) /\ t[i] \in Events /\ t[i].what \in {"template", "pattern", "binding"}
  BY <1>1, TextFacts DEF Binding
<1>4. t[i].names \in Seq(Names) /\ t[i].kind \in {"variable", "type", "mutability"}
      /\ (t[i].kind = "mutability" => Len(t[i].names) = 1)
  BY <1>3, EventFacts
<1>5. DOMAIN t[i].names = 1 .. Len(t[i].names) /\ Len(t[i].names) \in Nat
  BY <1>4, LenProperties
<1>6. s[2] \in 1 .. Len(t[i].names) /\ s[2] \in Nat
  BY <1>2, <1>5
<1>7. NameOf(t, s) \in Names
  BY <1>2, <1>4, <1>6, ElementOfSeq DEF NameOf
<1> QED
  BY <1>1, <1>2, <1>3, <1>4, <1>6, <1>7 DEF IsFixed

(* What a longer text says of the bindings that counted already.           *)
AgreeOn(t, u, D) ==
    \A s \in D : /\ Effect(u, s[1]) = Effect(t, s[1]) /\ Effect(t, s[1]) \in Nat
                 /\ NameOf(u, s) = NameOf(t, s) /\ ScopeOf(u, s) = ScopeOf(t, s)
                 /\ u[s[1]] = t[s[1]] /\ IsFixed(u, s) = IsFixed(t, s)

(* The binding that is completed by the last event of u. *)
BindsNow(t, u, at) ==
    \/ at = Len(t) + 1 /\ u[at].what \in {"template", "pattern"}
    \/ at \in 1 .. Len(t) /\ t[at].what = "binding" /\ EndsNow(t, u, at)
Bound(u, at, k) == {<<at, j>> : j \in 1 .. k}

(* What the last event completes is what takes effect with it.             *)
LEMMA BindsNowByEffect ==
    ASSUME NEW t, NEW u, Longer(t, u), NEW at \in Binding(u)
    PROVE  Effect(u, at) = Len(t) + 1 <=> BindsNow(t, u, at)
<1>0. /\ t \in Seq(Events) /\ u \in Seq(Events) /\ Len(t) \in Nat /\ Len(u) = Len(t) + 1
      /\ at \in 1 .. Len(u) /\ u[at].what \in {"template", "pattern", "binding"}
  BY TextFacts DEF Longer, Binding
<1>1. CASE at = Len(t) + 1
  <2>1. at \notin 1 .. Len(t)
    BY <1>0, <1>1
  <2>2. u[at].what = "binding" => Effect(u, at) # at
    <3>1. Effect(u, at) \in Nat /\ (u[at].what = "binding" => at < Effect(u, at))
      BY <1>0, EffectFacts
    <3> QED
      BY <1>0, <3>1
  <2>3. u[at].what # "binding" => Effect(u, at) = at
    BY <1>0, EffectFacts
  <2> QED
    BY <1>0, <1>1, <2>1, <2>2, <2>3 DEF BindsNow
<1>2. CASE at # Len(t) + 1
  <2>1. at \in 1 .. Len(t) /\ t[at] = u[at]
    BY <1>0, <1>2 DEF Longer
  <2>2. t[at].what # "binding" => Effect(u, at) = at
    BY <1>0, <2>1, EffectFacts
  <2>3. Effect(t, at) \in Nat
    BY <1>0, <2>1, EffectFacts
  <2>4. /\ Effect(t, at) <= Len(t) => Effect(u, at) = Effect(t, at)
        /\ Effect(t, at) > Len(t) =>
                  /\ t[at].what = "binding"
                  /\ Effect(u, at) = IF EndsNow(t, u, at) THEN Len(t) + 1 ELSE Len(t) + 2
        /\ t[at].what = "binding" /\ EndsNow(t, u, at) => Effect(t, at) > Len(t)
    BY <2>1, EffectOfLonger
  <2> QED
    BY <1>0, <1>2, <2>1, <2>2, <2>3, <2>4 DEF BindsNow
<1> QED
  BY <1>1, <1>2

(* A longer text has the bindings of the text, and those of its last event. *)
LEMMA BindingsOfLonger ==
    ASSUME NEW t, NEW u, Longer(t, u), NEW s
    PROVE  /\ s \in Bindings(t) <=> s \in Bindings(u) /\ s[1] \in 1 .. Len(t)
           /\ s \in Bindings(u) /\ s[1] \notin 1 .. Len(t) => s[1] = Len(t) + 1
<1>0. /\ t \in Seq(Events) /\ u \in Seq(Events) /\ Len(t) \in Nat /\ Len(u) = Len(t) + 1
      /\ DOMAIN t = 1 .. Len(t) /\ DOMAIN u = 1 .. Len(u)
      /\ \A i \in 1 .. Len(t) : u[i] = t[i] /\ i \in 1 .. Len(u)
  BY TextFacts DEF Longer
<1>1. \A i \in 1 .. Len(t) : i \in Binding(t) <=> i \in Binding(u)
  BY <1>0 DEF Binding
<1>2. ASSUME s \in Bindings(t)
      PROVE  s \in Bindings(u) /\ s[1] \in 1 .. Len(t)
  <2>1. s = <<s[1], s[2]>> /\ s[1] \in Binding(t) /\ s[1] \in 1 .. Len(t) /\ s[2] \in DOMAIN t[s[1]].names
    BY <1>0, <1>2, BindingFacts
  <2>2. s[1] \in Binding(u) /\ s[2] \in DOMAIN u[s[1]].names
    BY <1>0, <1>1, <2>1
  <2>3. s \in {s[1]} \X DOMAIN u[s[1]].names
    BY <2>1, <2>2
  <2> QED
    BY <2>1, <2>2, <2>3 DEF Bindings
<1>3. ASSUME s \in Bindings(u)
      PROVE  /\ s[1] \in 1 .. Len(t) => s \in Bindings(t)
             /\ s[1] \notin 1 .. Len(t) => s[1] = Len(t) + 1
  <2>1. s = <<s[1], s[2]>> /\ s[1] \in Binding(u) /\ s[1] \in 1 .. Len(u) /\ s[2] \in DOMAIN u[s[1]].names
    BY <1>0, <1>3, BindingFacts
  <2>2. s[1] \in 1 .. Len(t) => s[1] \in Binding(t) /\ s[2] \in DOMAIN t[s[1]].names
    BY <1>0, <1>1, <2>1
  <2>3. s[1] \in 1 .. Len(t) => s \in {s[1]} \X DOMAIN t[s[1]].names
    BY <2>1, <2>2
  <2>4. s[1] \notin 1 .. Len(t) => s[1] = Len(t) + 1
    BY <1>0, <2>1
  <2> QED
    BY <2>2, <2>3, <2>4 DEF Bindings
<1> QED
  BY <1>2, <1>3

(* The bindings that count already count in the same way.                  *)
LEMMA InEffectOfLonger ==
    ASSUME NEW t, NEW u, Longer(t, u)
    PROVE  /\ AgreeOn(t, u, InEffect(t))
           /\ InEffect(t) \subseteq InEffect(u)
           /\ \A s \in Bindings(u) : Effect(u, s[1]) <= Len(t) => s \in InEffect(t)
           /\ \A s \in InEffect(u) : s \in InEffect(t) \/ BindsNow(t, u, s[1])
           /\ \A s \in InEffect(t) : ~BindsNow(t, u, s[1]) /\ s \in Bindings(u)
<1>0. /\ t \in Seq(Events) /\ u \in Seq(Events) /\ Len(t) \in Nat /\ Len(u) = Len(t) + 1
      /\ \A i \in 1 .. Len(t) : u[i] = t[i] /\ i \in 1 .. Len(u) /\ i \in 1 .. Len(t) + 1
  BY TextFacts DEF Longer
<1>1. ASSUME NEW s \in InEffect(t)
      PROVE  /\ Effect(u, s[1]) = Effect(t, s[1]) /\ Effect(t, s[1]) \in Nat
             /\ NameOf(u, s) = NameOf(t, s) /\ ScopeOf(u, s) = ScopeOf(t, s)
             /\ u[s[1]] = t[s[1]] /\ IsFixed(u, s) = IsFixed(t, s)
             /\ s \in Bindings(u) /\ Effect(u, s[1]) <= Len(t) /\ s[1] \in Binding(u)
  <2>1. s \in Bindings(t) /\ Effect(t, s[1]) <= Len(t) /\ s[1] \in 1 .. Len(t)
    BY <1>0, BindingFacts DEF InEffect
  <2>2. Effect(u, s[1]) = Effect(t, s[1]) /\ Effect(t, s[1]) \in Nat
    BY <1>0, <2>1, EffectOfLonger, EffectFacts
  <2>3. u[s[1]] = t[s[1]]
    BY <1>0, <2>1
  <2>4. NameOf(u, s) = NameOf(t, s) /\ IsFixed(u, s) = IsFixed(t, s)
    BY <2>3 DEF NameOf, IsFixed
  <2>5. ScopeOf(u, s) = ScopeOf(t, s)
    BY <1>0, <2>1, InnermostOfLonger DEF ScopeOf
  <2>6. s \in Bindings(u)
    BY <2>1, BindingsOfLonger
  <2>7. s[1] \in Binding(u)
    BY <1>0, <2>6, BindingFacts
  <2> QED
    BY <2>1, <2>2, <2>3, <2>4, <2>5, <2>6, <2>7
<1>2. AgreeOn(t, u, InEffect(t))
  BY <1>1 DEF AgreeOn
<1>3. ASSUME NEW s \in InEffect(t)
      PROVE  s \in InEffect(u) /\ ~BindsNow(t, u, s[1])
  <2>1. Effect(u, s[1]) \in Nat /\ Effect(u, s[1]) <= Len(t) /\ s \in Bindings(u) /\ s[1] \in Binding(u)
    BY <1>1
  <2>2. Effect(u, s[1]) <= Len(u) /\ Effect(u, s[1]) # Len(t) + 1
    BY <1>0, <2>1
  <2> QED
    BY <2>1, <2>2, BindsNowByEffect DEF InEffect
<1>4. ASSUME NEW s \in Bindings(u)
      PROVE  /\ Effect(u, s[1]) <= Len(t) => s \in InEffect(t)
             /\ Effect(u, s[1]) <= Len(u) => s \in InEffect(t) \/ BindsNow(t, u, s[1])
  <2>1. s[1] \in Binding(u) /\ s[1] \in 1 .. Len(u)
    BY <1>0, BindingFacts
  <2>2. s[1] <= Effect(u, s[1]) /\ Effect(u, s[1]) \in Nat
    BY <1>0, <2>1, EffectFacts
  <2>3. Effect(u, s[1]) = Len(t) + 1 => BindsNow(t, u, s[1])
    BY <2>1, BindsNowByEffect
  <2>4. ASSUME Effect(u, s[1]) <= Len(t)
        PROVE  s \in InEffect(t)
    <3>1. s[1] \in 1 .. Len(t)
      BY <1>0, <2>1, <2>2, <2>4
    <3>2. s \in Bindings(t)
      BY <3>1, BindingsOfLonger
    <3>3. Effect(t, s[1]) \in Nat
      BY <1>0, <3>1, EffectFacts
    <3>4. /\ Effect(t, s[1]) <= Len(t) => Effect(u, s[1]) = Effect(t, s[1])
          /\ Effect(t, s[1]) > Len(t) =>
                 Effect(u, s[1]) = IF EndsNow(t, u, s[1]) THEN Len(t) + 1 ELSE Len(t) + 2
      BY <3>1, EffectOfLonger
    <3>5. Effect(t, s[1]) <= Len(t)
      BY <1>0, <2>4, <3>3, <3>4
    <3> QED
      BY <3>2, <3>5 DEF InEffect
  <2> QED
    BY <1>0, <2>2, <2>3, <2>4
<1>5. \A s \in InEffect(u) : s \in Bindings(u) /\ Effect(u, s[1]) <= Len(u)
  BY DEF InEffect
<1> QED
  BY <1>1, <1>2, <1>3, <1>4, <1>5

(* The bindings that begin to count, when one is completed and when none   *)
(* is.                                                                     *)
LEMMA NewInEffect ==
    ASSUME NEW t, NEW u, Longer(t, u), NEW at, BindsNow(t, u, at)
    PROVE  /\ at \in Binding(u) /\ Effect(u, at) = Len(t) + 1
           /\ Len(u[at].names) \in Nat
           /\ InEffect(u) = InEffect(t) \cup Bound(u, at, Len(u[at].names))
<1>0. /\ t \in Seq(Events) /\ u \in Seq(Events) /\ Len(t) \in Nat /\ Len(u) = Len(t) + 1
      /\ DOMAIN t = 1 .. Len(t) /\ DOMAIN u = 1 .. Len(u)
      /\ \A i \in 1 .. Len(t) : u[i] = t[i] /\ i \in 1 .. Len(u) /\ i # Len(t) + 1
  BY TextFacts DEF Longer
<1>1. at \in Binding(u) /\ at \in 1 .. Len(u)
  BY <1>0 DEF BindsNow, Binding
<1>2. Effect(u, at) = Len(t) + 1
  BY <1>1, BindsNowByEffect
<1>3. u[at].names \in Seq(Names)
  <2>1. u[at] \in Events /\ u[at].what \in {"template", "pattern", "binding"}
    BY <1>0, <1>1, TextFacts DEF Binding
  <2> QED
    BY <2>1, EventFacts
<1>4. Len(u[at].names) \in Nat /\ DOMAIN u[at].names = 1 .. Len(u[at].names)
  BY <1>3, LenProperties
<1>5. ASSUME NEW s \in InEffect(u), s \notin InEffect(t)
      PROVE  s \in Bound(u, at, Len(u[at].names))
  <2>1. BindsNow(t, u, s[1]) /\ s \in Bindings(u)
    BY <1>5, InEffectOfLonger DEF InEffect
  <2>2. s[1] = at
    BY <1>0, <2>1 DEF BindsNow, EndsNow
  <2>3. s = <<s[1], s[2]>> /\ s[2] \in DOMAIN u[s[1]].names
    BY <1>0, <2>1, BindingFacts
  <2>4. s = <<at, s[2]>> /\ s[2] \in 1 .. Len(u[at].names)
    BY <1>4, <2>2, <2>3
  <2> QED
    BY <2>4 DEF Bound
<1>6. ASSUME NEW j \in 1 .. Len(u[at].names)
      PROVE  <<at, j>> \in InEffect(u)
  <2>1. <<at, j>> \in {at} \X DOMAIN u[at].names
    BY <1>4
  <2>2. <<at, j>> \in Bindings(u)
    BY <1>1, <2>1 DEF Bindings
  <2>3. Effect(u, <<at, j>>[1]) <= Len(u)
    BY <1>0, <1>2
  <2> QED
    BY <2>2, <2>3 DEF InEffect
<1>7. Bound(u, at, Len(u[at].names)) \subseteq InEffect(u)
  BY <1>6 DEF Bound
<1>8. InEffect(t) \subseteq InEffect(u)
  BY InEffectOfLonger
<1> QED
  BY <1>1, <1>2, <1>4, <1>5, <1>7, <1>8

(* An event that completes no binding makes none count.                    *)
LEMMA NothingNewInEffect ==
    ASSUME NEW t, NEW u, Longer(t, u), \A at \in Binding(u) : ~BindsNow(t, u, at)
    PROVE  InEffect(u) = InEffect(t)
<1>0. u \in Seq(Events)
  BY DEF Longer
<1>1. ASSUME NEW s \in InEffect(u)
      PROVE  s \in InEffect(t)
  <2>1. s \in Bindings(u)
    BY DEF InEffect
  <2>2. s[1] \in Binding(u)
    BY <1>0, <2>1, BindingFacts
  <2> QED
    BY <2>2, InEffectOfLonger
<1> QED
  BY <1>1, InEffectOfLonger

(* Which binding of a scope stands, without a choice.                      *)
Of(t, D, name, scope) == {s \in D : NameOf(t, s) = name /\ ScopeOf(t, s) = scope}
Stands(t, m, S) ==
    /\ m \in S
    /\ IF IsFixed(t, m) THEN \A r \in S : IsFixed(t, r) => r = m \/ Before(t, m, r)
       ELSE \A r \in S : ~IsFixed(t, r) /\ (r = m \/ Before(t, r, m))
Shows(t, m, S) == IF S = {} THEN m = Unbound ELSE Stands(t, m, S)

LEMMA BeforeIsAsymmetric ==
    ASSUME NEW t \in Seq(Events), NEW r \in Bindings(t), NEW s \in Bindings(t)
    PROVE  ~(Before(t, r, s) /\ Before(t, s, r))
<1>1. s[1] \in 1 .. Len(t) /\ r[1] \in 1 .. Len(t) /\ r[2] \in Nat /\ s[2] \in Nat
  BY BindingFacts
<1>2. Effect(t, r[1]) \in Nat /\ Effect(t, s[1]) \in Nat
  BY <1>1, EffectFacts
<1>3. PICK a, b, k, l \in Nat : a = Effect(t, r[1]) /\ b = Effect(t, s[1]) /\ k = r[2] /\ l = s[2]
  BY <1>1, <1>2
<1>4. r[1] = s[1] => a = b
  BY <1>3
<1> QED
  BY <1>3, <1>4 DEF Before

(* The choice of the properties is the binding that stands.                *)
LEMMA StandsIsStanding ==
    ASSUME NEW t \in Seq(Events), NEW S, S \subseteq Bindings(t), NEW m, Stands(t, m, S)
    PROVE  Standing(t, S) = m
<1> DEFINE fixed == {s \in S : IsFixed(t, s)}
<1>1. CASE IsFixed(t, m)
  <2>1. m \in fixed /\ \A r \in fixed \ {m} : Before(t, m, r)
    BY <1>1 DEF Stands
  <2>2. \E s \in fixed : \A r \in fixed \ {s} : Before(t, s, r)
    BY <2>1
  <2>3. PICK e : e = Earliest(t, fixed)
    OBVIOUS
  <2>4. e \in fixed /\ \A r \in fixed \ {e} : Before(t, e, r)
    <3> HIDE DEF fixed
    <3> QED
      BY <2>2, <2>3 DEF Earliest
  <2>5. e = m
    BY <2>1, <2>4, BeforeIsAsymmetric
  <2>6. Standing(t, S) = Earliest(t, fixed)
    BY <2>1 DEF Standing
  <2> QED
    BY <2>3, <2>5, <2>6
<1>2. CASE ~IsFixed(t, m)
  <2>1. fixed = {} /\ m \in S /\ \A r \in S \ {m} : Before(t, r, m)
    BY <1>2 DEF Stands
  <2>2. PICK e : e = Latest(t, S)
    OBVIOUS
  <2>3. e \in S /\ \A r \in S \ {e} : Before(t, r, e)
    BY <2>1, <2>2 DEF Latest
  <2>4. e = m
    BY <2>1, <2>3, BeforeIsAsymmetric
  <2>5. Standing(t, S) = Latest(t, S)
    BY <2>1 DEF Standing
  <2> QED
    BY <2>2, <2>4, <2>5
<1> QED
  BY <1>1, <1>2

(* What stands, stands in a longer text. *)
LEMMA StandsInLonger ==
    ASSUME NEW t, NEW u, NEW D, AgreeOn(t, u, D), NEW S, S \subseteq D, NEW m
    PROVE  Stands(u, m, S) <=> Stands(t, m, S)
<1>1. \A s \in S : IsFixed(u, s) = IsFixed(t, s)
  BY DEF AgreeOn
<1>2. \A r, s \in S : Before(u, r, s) <=> Before(t, r, s)
  BY DEF AgreeOn, Before
<1> QED
  BY <1>1, <1>2 DEF Stands

(* The bindings of a name in a scope are the same in a longer text.        *)
LEMMA OfInLonger ==
    ASSUME NEW t, NEW u, NEW D, AgreeOn(t, u, D)
    PROVE  \A name, scope : Of(u, D, name, scope) = Of(t, D, name, scope)
BY DEF AgreeOn, Of

(* Those in effect at an event do not change after it.                     *)
LEMMA BindersOfLonger ==
    ASSUME NEW t, NEW u, Longer(t, u), NEW i \in Nat, i <= Len(t) + 1, NEW name, NEW scope
    PROVE  /\ Binders(u, name, scope, i) = Binders(t, name, scope, i)
           /\ Binders(t, name, scope, i) \subseteq InEffect(t)
<1>0. t \in Seq(Events) /\ u \in Seq(Events) /\ Len(t) \in Nat
  BY TextFacts DEF Longer
<1>1. ASSUME NEW s \in Binders(t, name, scope, i)
      PROVE  s \in Binders(u, name, scope, i) /\ s \in InEffect(t)
  <2>1. s \in Bindings(t) /\ NameOf(t, s) = name /\ ScopeOf(t, s) = scope /\ Effect(t, s[1]) < i
    BY DEF Binders
  <2>2. Effect(t, s[1]) \in Nat
    BY <1>0, <2>1, BindingFacts, EffectFacts
  <2>3. s \in InEffect(t)
    BY <1>0, <2>1, <2>2 DEF InEffect
  <2>4. s \in Bindings(u) /\ AgreeOn(t, u, InEffect(t))
    BY <2>3, InEffectOfLonger
  <2>5. NameOf(u, s) = name /\ ScopeOf(u, s) = scope /\ Effect(u, s[1]) < i
    BY <2>1, <2>3, <2>4 DEF AgreeOn
  <2> QED
    BY <2>3, <2>4, <2>5 DEF Binders
<1>2. ASSUME NEW s \in Binders(u, name, scope, i)
      PROVE  s \in Binders(t, name, scope, i)
  <2>1. s \in Bindings(u) /\ NameOf(u, s) = name /\ ScopeOf(u, s) = scope /\ Effect(u, s[1]) < i
    BY DEF Binders
  <2>2. Effect(u, s[1]) \in Nat
    BY <1>0, <2>1, BindingFacts, EffectFacts
  <2>3. s \in InEffect(t) /\ AgreeOn(t, u, InEffect(t))
    BY <1>0, <2>1, <2>2, InEffectOfLonger
  <2>4. NameOf(t, s) = name /\ ScopeOf(t, s) = scope /\ Effect(t, s[1]) < i
    BY <2>1, <2>3 DEF AgreeOn
  <2> QED
    BY <2>3, <2>4 DEF Binders, InEffect
<1> QED
  BY <1>1, <1>2

(* At the end of the text, all that count are in effect.                   *)
LEMMA BindersAtEnd ==
    ASSUME NEW t \in Seq(Events), NEW name, NEW scope
    PROVE  Binders(t, name, scope, Len(t) + 1) = Of(t, InEffect(t), name, scope)
<1>1. ASSUME NEW s \in Bindings(t)
      PROVE  Effect(t, s[1]) < Len(t) + 1 <=> Effect(t, s[1]) <= Len(t)
  <2>1. Effect(t, s[1]) \in Nat /\ Len(t) \in Nat
    BY BindingFacts, EffectFacts, TextFacts
  <2> QED
    BY <2>1
<1> QED
  BY <1>1 DEF Binders, Of, InEffect

(* What could not be bound: a mutability of its name came before.          *)
LEMMA HiddenInLonger ==
    ASSUME NEW t, NEW u, Longer(t, u), NEW s \in InEffect(t)
    PROVE  Hidden(u, s) <=> Hidden(t, s)
<1>0. t \in Seq(Events) /\ Len(t) \in Nat
  BY TextFacts DEF Longer
<1>1. AgreeOn(t, u, InEffect(t)) /\ Effect(t, s[1]) <= Len(t)
  BY InEffectOfLonger DEF InEffect
<1>2. /\ NameOf(u, s) = NameOf(t, s) /\ ScopeOf(u, s) = ScopeOf(t, s)
      /\ Effect(u, s[1]) = Effect(t, s[1]) /\ Effect(t, s[1]) \in Nat
  BY <1>1 DEF AgreeOn
<1>3. PICK B : B = Binders(t, NameOf(t, s), ScopeOf(t, s), Effect(t, s[1]))
  OBVIOUS
<1>4. Effect(t, s[1]) <= Len(t) + 1
  BY <1>0, <1>1, <1>2
<1>5. B = Binders(u, NameOf(u, s), ScopeOf(u, s), Effect(u, s[1])) /\ B \subseteq InEffect(t)
  BY <1>2, <1>3, <1>4, BindersOfLonger
<1>6. \A r \in B : IsFixed(u, r) = IsFixed(t, r)
  BY <1>1, <1>5 DEF AgreeOn
<1> QED
  BY <1>3, <1>5, <1>6 DEF Hidden

(* Whether a binding that is completed now could not be bound.             *)
LEMMA HiddenWhenNew ==
    ASSUME NEW t, NEW u, Longer(t, u), NEW at, BindsNow(t, u, at), NEW s, s[1] = at
    PROVE  Hidden(u, s) <=> \E r \in Of(u, InEffect(t), NameOf(u, s), ScopeOf(u, s)) : IsFixed(u, r)
<1>0. t \in Seq(Events) /\ Len(t) \in Nat
  BY TextFacts DEF Longer
<1>1. Effect(u, s[1]) = Len(t) + 1
  BY NewInEffect
<1>2. PICK name, scope : name = NameOf(u, s) /\ scope = ScopeOf(u, s)
  OBVIOUS
<1>3. Len(t) + 1 \in Nat /\ Len(t) + 1 <= Len(t) + 1
  BY <1>0
<1>4. Binders(u, name, scope, Len(t) + 1) = Binders(t, name, scope, Len(t) + 1)
  BY <1>3, BindersOfLonger
<1>5. Binders(t, name, scope, Len(t) + 1) = Of(t, InEffect(t), name, scope)
  BY <1>0, BindersAtEnd
<1>6. Of(t, InEffect(t), name, scope) = Of(u, InEffect(t), name, scope)
  BY InEffectOfLonger, OfInLonger
<1> QED
  BY <1>1, <1>2, <1>4, <1>5, <1>6 DEF Hidden

(* What stands is not hidden. *)
LEMMA StandingIsNotHidden ==
    ASSUME NEW t \in Seq(Events), NEW name, NEW scope, NEW D, D \subseteq Bindings(t),
           NEW m, Stands(t, m, Of(t, D, name, scope)),
           \A r \in Bindings(t) : Effect(t, r[1]) < Effect(t, m[1]) => r \in D
    PROVE  ~Hidden(t, m)
<1>1. m \in D /\ NameOf(t, m) = name /\ ScopeOf(t, m) = scope
  BY DEF Stands, Of
<1>2. ASSUME NEW r \in Binders(t, NameOf(t, m), ScopeOf(t, m), Effect(t, m[1])), IsFixed(t, r)
      PROVE  FALSE
  <2>1. r \in Bindings(t) /\ Effect(t, r[1]) < Effect(t, m[1]) /\ NameOf(t, r) = name /\ ScopeOf(t, r) = scope
    BY <1>1, <1>2 DEF Binders
  <2>2. r \in Of(t, D, name, scope)
    BY <2>1 DEF Of
  <2>3. IsFixed(t, m) /\ (r = m \/ Before(t, m, r))
    BY <1>2, <2>2 DEF Stands
  <2>4. Effect(t, r[1]) \in Nat /\ Effect(t, m[1]) \in Nat
    BY <1>1, <2>1, BindingFacts, EffectFacts
  <2>5. Before(t, r, m)
    BY <2>1 DEF Before
  <2>6. ~Before(t, m, r)
    BY <1>1, <2>1, <2>5, BeforeIsAsymmetric
  <2>7. r # m
    BY <2>1, <2>4
  <2> QED
    BY <2>3, <2>6, <2>7
<1> QED
  BY <1>2 DEF Hidden

(* What a name means at an event, without a choice.                        *)
Candidates(t, name, i) ==
    {scope \in {0} \cup Enclosing(t, i, "block") : Binders(t, name, scope, i) # {}}
Denotes(t, name, i, s) ==
    IF Candidates(t, name, i) = {} THEN s = Unbound
    ELSE Stands(t, s, Binders(t, name, Largest(Candidates(t, name, i)), i))

(* The choice of the properties is what the name denotes.                  *)
LEMMA DenotedIsLocal ==
    ASSUME NEW t \in Seq(Events), NEW name, NEW i, NEW s, Denotes(t, name, i, s)
    PROVE  Local(t, name, i) = s
<1>1. PICK C : C = Candidates(t, name, i)
  OBVIOUS
<1>2. Local(t, name, i) = IF C = {} THEN Unbound ELSE Standing(t, Binders(t, name, Largest(C), i))
  BY <1>1 DEF Local, Candidates
<1>3. Binders(t, name, Largest(C), i) \subseteq Bindings(t)
  BY DEF Binders
<1>4. C # {} => Standing(t, Binders(t, name, Largest(C), i)) = s
  BY <1>1, <1>3, StandsIsStanding DEF Denotes
<1> QED
  BY <1>1, <1>2, <1>4 DEF Denotes

(* What a name denotes at an event does not change after it.               *)
LEMMA DenotedInLonger ==
    ASSUME NEW t, NEW u, Longer(t, u), NEW i \in 1 .. Len(t) + 1, NEW name, NEW s
    PROVE  Denotes(u, name, i, s) <=> Denotes(t, name, i, s)
<1>0. i \in Nat /\ i <= Len(t) + 1
  BY TextFacts DEF Longer
<1>1. Enclosing(u, i, "block") = Enclosing(t, i, "block")
  BY InnermostOfLonger
<1>2. \A scope : /\ Binders(u, name, scope, i) = Binders(t, name, scope, i)
                 /\ Binders(t, name, scope, i) \subseteq InEffect(t)
  BY <1>0, BindersOfLonger
<1>3. PICK C : C = Candidates(t, name, i) /\ C = Candidates(u, name, i)
  BY <1>1, <1>2 DEF Candidates
<1>4. PICK B : /\ B = Binders(t, name, Largest(C), i) /\ B = Binders(u, name, Largest(C), i)
               /\ B \subseteq InEffect(t)
  BY <1>2
<1>5. Stands(u, s, B) <=> Stands(t, s, B)
  BY <1>4, InEffectOfLonger, StandsInLonger
<1> QED
  BY <1>3, <1>4, <1>5 DEF Denotes
-----------------------------------------------------------------------------
(* Environments and symbols.                                               *)

Keys == {Global(n) : n \in Names} \cup (Nat \X Nat)
Kinds == {"definition", "variable", "type", "mutability"}
Entries == [name : Names, kind : Kinds, uses : Nat, warned : Nat]
Environments == [map : [Names -> {Unbound} \cup Keys], parent : Nat]

(* What an environment holds is a symbol. *)
IsArena(a) ==
    /\ a = [environments |-> a.environments, symbols |-> a.symbols]
    /\ a.environments \in Seq(Environments)
    /\ DOMAIN a.symbols \subseteq Keys
    /\ a.symbols \in [DOMAIN a.symbols -> Entries]
    /\ \A e \in 1 .. Len(a.environments), n \in Names :
          a.environments[e].map[n] \in {Unbound} \cup DOMAIN a.symbols

LEMMA Distinct ==
    /\ \A s \in Nat \X Nat : Len(s) = 2 /\ s # Unbound
    /\ \A n : Len(Global(n)) = 1 /\ Global(n) # Unbound /\ Global(n) \notin Nat \X Nat
    /\ Unbound \notin Keys
<1>1. ASSUME NEW s \in Nat \X Nat
      PROVE  Len(s) = 2 /\ s # Unbound
  <2>1. PICK i, k \in Nat : s = <<i, k>>
    OBVIOUS
  <2>2. Len(<<i, k>>) = 2 /\ Len(Unbound) = 0
    BY DEF Unbound
  <2> QED
    BY <2>1, <2>2
<1>2. ASSUME NEW n
      PROVE  Len(Global(n)) = 1 /\ Global(n) # Unbound /\ Global(n) \notin Nat \X Nat
  <2>1. Len(Global(n)) = 1 /\ Len(Unbound) = 0
    BY DEF Global, Unbound
  <2> QED
    BY <1>1, <2>1
<1> QED
  BY <1>1, <1>2 DEF Keys

(* The entries of an arena.                                                *)
LEMMA ArenaFacts ==
    ASSUME NEW a, IsArena(a)
    PROVE  /\ Len(a.environments) \in Nat /\ DOMAIN a.environments = 1 .. Len(a.environments)
           /\ \A e \in 1 .. Len(a.environments) : /\ a.environments[e] \in Environments
                                                  /\ a.environments[e].map \in [Names -> {Unbound} \cup Keys]
                                                  /\ a.environments[e].parent \in Nat
                                                  /\ a.environments[e] = [map |-> a.environments[e].map,
                                                                          parent |-> a.environments[e].parent]
           /\ \A s \in DOMAIN a.symbols : /\ a.symbols[s] \in Entries /\ s \in Keys /\ s # Unbound
                                          /\ a.symbols[s].name \in Names /\ a.symbols[s].kind \in Kinds
                                          /\ a.symbols[s].uses \in Nat /\ a.symbols[s].warned \in Nat
<1>1. Len(a.environments) \in Nat /\ DOMAIN a.environments = 1 .. Len(a.environments)
  BY LenProperties DEF IsArena
<1>2. ASSUME NEW e \in 1 .. Len(a.environments)
      PROVE  /\ a.environments[e] \in Environments
             /\ a.environments[e].map \in [Names -> {Unbound} \cup Keys]
             /\ a.environments[e].parent \in Nat
             /\ a.environments[e] = [map |-> a.environments[e].map, parent |-> a.environments[e].parent]
  <2>1. a.environments[e] \in Environments
    BY ElementOfSeq DEF IsArena
  <2> QED
    BY <2>1 DEF Environments
<1>3. ASSUME NEW s \in DOMAIN a.symbols
      PROVE  /\ a.symbols[s] \in Entries /\ s \in Keys /\ s # Unbound
             /\ a.symbols[s].name \in Names /\ a.symbols[s].kind \in Kinds
             /\ a.symbols[s].uses \in Nat /\ a.symbols[s].warned \in Nat
  <2>1. a.symbols[s] \in Entries /\ s \in Keys
    BY DEF IsArena
  <2>2. s # Unbound
    BY <2>1, Distinct
  <2> QED
    BY <2>1, <2>2 DEF Entries
<1> QED
  BY <1>1, <1>2, <1>3

(* An unused symbol is reported. *)
Reported(entry) == IF IsUnused(entry) THEN [entry EXCEPT !.warned = @ + 1] ELSE entry

(* A report changes the number of warnings only.                           *)
LEMMA ReportedFacts ==
    ASSUME NEW entry \in Entries
    PROVE  /\ Reported(entry) \in Entries
           /\ Reported(entry).name = entry.name /\ Reported(entry).kind = entry.kind
           /\ Reported(entry).uses = entry.uses /\ IsUnused(Reported(entry)) = IsUnused(entry)
           /\ Reported(entry).warned = IF IsUnused(entry) THEN entry.warned + 1 ELSE entry.warned
BY DEF Reported, Entries, IsUnused

(* Warning of one symbol leaves the others.                                *)
LEMMA WarnUnusedIs ==
    ASSUME NEW a, IsArena(a), NEW s \in DOMAIN a.symbols, NEW b, b = WarnUnused(a, s)
    PROVE  /\ IsArena(b) /\ b.environments = a.environments /\ DOMAIN b.symbols = DOMAIN a.symbols
           /\ b.symbols[s] = Reported(a.symbols[s])
           /\ \A r \in DOMAIN a.symbols : r # s => b.symbols[r] = a.symbols[r]
<1>1. CASE ~IsUnused(a.symbols[s])
  BY <1>1 DEF WarnUnused, Reported
<1>2. CASE IsUnused(a.symbols[s])
  <2>1. b = [a EXCEPT !.symbols[s].warned = @ + 1]
    BY <1>2 DEF WarnUnused
  <2>2. a = [environments |-> a.environments, symbols |-> a.symbols]
    BY DEF IsArena
  <2>3. b = [environments |-> a.environments,
             symbols |-> [a.symbols EXCEPT ![s].warned = @ + 1]]
    BY <2>1, <2>2
  <2>4. PICK f : f = b.symbols
    OBVIOUS
  <2>5. b = [environments |-> a.environments, symbols |-> f] /\ f = [a.symbols EXCEPT ![s].warned = @ + 1]
    BY <2>3, <2>4
  <2>6. a.symbols \in [DOMAIN a.symbols -> Entries]
    BY DEF IsArena
  <2>7. DOMAIN f = DOMAIN a.symbols /\ f[s] = [a.symbols[s] EXCEPT !.warned = @ + 1]
        /\ \A r \in DOMAIN a.symbols : r # s => f[r] = a.symbols[r]
    BY <2>5, <2>6
  <2>8. f[s] = Reported(a.symbols[s]) /\ f[s] \in Entries
    BY <1>2, <2>7, ArenaFacts, ReportedFacts DEF Reported
  <2>9. f \in [DOMAIN f -> Entries]
    BY <2>5, <2>6, <2>7, <2>8
  <2>10. IsArena(b)
    BY <2>5, <2>7, <2>9 DEF IsArena
  <2> QED
    BY <2>5, <2>7, <2>8, <2>10
<1> QED
  BY <1>1, <1>2

(* A name is entered into an environment. *)
Enters(a, b, env, name, s) ==
    /\ Len(b.environments) = Len(a.environments) /\ b.symbols = a.symbols
    /\ \A e \in 1 .. Len(a.environments) :
          /\ b.environments[e].parent = a.environments[e].parent
          /\ \A n \in Names : b.environments[e].map[n] =
                 IF e = env /\ n = name THEN s ELSE a.environments[e].map[n]

LEMMA EnterNameIs ==
    ASSUME NEW a, IsArena(a), NEW env \in 1 .. Len(a.environments), NEW name \in Names,
           NEW s \in DOMAIN a.symbols, NEW b, b = [a EXCEPT !.environments[env].map[name] = s]
    PROVE  IsArena(b) /\ Enters(a, b, env, name, s)
<1>1. PICK old, new : /\ old = a.environments /\ new = b.environments
  OBVIOUS
<1>2. a = [environments |-> old, symbols |-> a.symbols]
  BY <1>1 DEF IsArena
<1>3. b = [environments |-> new, symbols |-> a.symbols] /\ new = [old EXCEPT ![env].map[name] = s]
  BY <1>1, <1>2
<1>4. PICK entry : entry = [old[env] EXCEPT !.map[name] = s] /\ new = [old EXCEPT ![env] = entry]
  BY <1>3
<1>5. old \in Seq(Environments) /\ env \in 1 .. Len(old) /\ old[env] \in Environments
  BY <1>1, ArenaFacts DEF IsArena
<1>6. PICK map : map = [old[env].map EXCEPT ![name] = s] /\ entry = [old[env] EXCEPT !.map = map]
  BY <1>4
<1>7. old[env].map \in [Names -> {Unbound} \cup Keys] /\ s \in Keys
  BY <1>5, ArenaFacts DEF Environments
<1>8. /\ map \in [Names -> {Unbound} \cup Keys]
      /\ \A n \in Names : map[n] = IF n = name THEN s ELSE old[env].map[n]
  BY <1>6, <1>7
<1>9. entry = [map |-> map, parent |-> old[env].parent] /\ entry \in Environments
  BY <1>5, <1>6, <1>8 DEF Environments
<1>10. /\ new \in Seq(Environments) /\ Len(new) = Len(old)
       /\ \A e \in 1 .. Len(old) : new[e] = IF e = env THEN entry ELSE old[e]
  BY <1>4, <1>5, <1>9, ExceptSeq
<1>11. ASSUME NEW e \in 1 .. Len(old)
       PROVE  /\ new[e].parent = old[e].parent
              /\ \A n \in Names : new[e].map[n] = IF e = env /\ n = name THEN s ELSE old[e].map[n]
  BY <1>8, <1>9, <1>10
<1>12. \A e \in 1 .. Len(new), n \in Names : new[e].map[n] \in {Unbound} \cup DOMAIN a.symbols
  BY <1>1, <1>10, <1>11 DEF IsArena
<1>13. IsArena(b)
  <2>1. b.environments = new /\ b.symbols = a.symbols
    <3>1. b = [environments |-> new, symbols |-> a.symbols]
      BY <1>3
    <3> QED
      BY <3>1
  <2>2. b = [environments |-> b.environments, symbols |-> b.symbols]
    BY <1>3, <2>1
  <2>3. DOMAIN a.symbols \subseteq Keys /\ a.symbols \in [DOMAIN a.symbols -> Entries]
    BY DEF IsArena
  <2> QED
    BY <1>10, <1>12, <2>1, <2>2, <2>3 DEF IsArena
<1> QED
  BY <1>1, <1>3, <1>10, <1>11, <1>13 DEF Enters

(* A symbol is added. *)
Adds(a, b, s, entry) ==
    /\ b.environments = a.environments
    /\ DOMAIN b.symbols = {s} \cup DOMAIN a.symbols /\ b.symbols[s] = entry
    /\ \A r \in DOMAIN a.symbols : r # s => b.symbols[r] = a.symbols[r]

LEMMA AddSymbolIs ==
    ASSUME NEW a, IsArena(a), NEW s \in Nat \X Nat, NEW entry \in Entries,
           NEW b, b = [a EXCEPT !.symbols = Put(@, s, entry)]
    PROVE  IsArena(b) /\ Adds(a, b, s, entry)
<1>1. PICK f : f = Put(a.symbols, s, entry)
  OBVIOUS
<1>2. a = [environments |-> a.environments, symbols |-> a.symbols]
  BY DEF IsArena
<1>3. b = [environments |-> a.environments, symbols |-> f]
  BY <1>1, <1>2
<1>4. /\ DOMAIN f = {s} \cup DOMAIN a.symbols /\ f[s] = entry
      /\ \A r \in DOMAIN a.symbols : r # s => f[r] = a.symbols[r]
      /\ f = [r \in {s} \cup DOMAIN a.symbols |-> f[r]]
  BY <1>1 DEF Put
<1>5. a.symbols \in [DOMAIN a.symbols -> Entries] /\ DOMAIN a.symbols \subseteq Keys /\ s \in Keys
  BY DEF IsArena, Keys
<1>6. \A r \in DOMAIN f : f[r] \in Entries
  BY <1>4, <1>5
<1>7. f \in [DOMAIN f -> Entries] /\ DOMAIN f \subseteq Keys
  BY <1>4, <1>5, <1>6
<1>8. IsArena(b)
  BY <1>3, <1>4, <1>7 DEF IsArena
<1> QED
  BY <1>3, <1>4, <1>8 DEF Adds

(* What one binding does.                                                  *)
Old(a, env, name) == a.environments[env].map[name]
Stays(a, env, name) == Old(a, env, name) # Unbound /\ ~CanShadow(a.symbols[Old(a, env, name)].kind)
Binds(a, b, env, name, s, kind) ==
    /\ Len(b.environments) = Len(a.environments)
    /\ DOMAIN b.symbols = {s} \cup DOMAIN a.symbols
    /\ \A e \in 1 .. Len(a.environments) :
          /\ b.environments[e].parent = a.environments[e].parent
          /\ \A n \in Names : b.environments[e].map[n] =
                 IF e = env /\ n = name /\ ~Stays(a, env, name) THEN s ELSE a.environments[e].map[n]
    /\ s \notin DOMAIN a.symbols =>
          /\ b.symbols[s] = Symbol(name, kind)
          /\ \A r \in DOMAIN a.symbols : b.symbols[r] =
                 IF r = Old(a, env, name) /\ ~Stays(a, env, name) THEN Reported(a.symbols[r])
                 ELSE a.symbols[r]

LEMMA BindSymbolIs ==
    ASSUME NEW a, IsArena(a), NEW env \in 1 .. Len(a.environments), NEW name \in Names,
           NEW s \in Nat \X Nat, NEW kind \in Kinds,
           NEW b, b = BindSymbol(a, env, name, s, kind)
    PROVE  IsArena(b) /\ Binds(a, b, env, name, s, kind)
<1>1. PICK old : old = Old(a, env, name) /\ old \in {Unbound} \cup DOMAIN a.symbols
  BY DEF Old, IsArena
<1>2. PICK new : new = [a EXCEPT !.symbols = Put(@, s, Symbol(name, kind))]
  OBVIOUS
<1>3. Symbol(name, kind) \in Entries
  BY DEF Symbol, Entries
<1>4a. IsArena(new) /\ Adds(a, new, s, Symbol(name, kind))
  BY <1>2, <1>3, AddSymbolIs
<1>4. /\ IsArena(new) /\ new.environments = a.environments
      /\ DOMAIN new.symbols = {s} \cup DOMAIN a.symbols /\ new.symbols[s] = Symbol(name, kind)
      /\ \A r \in DOMAIN a.symbols : r # s => new.symbols[r] = a.symbols[r]
  BY <1>4a DEF Adds
<1>5. PICK met : met = IF old = Unbound THEN new ELSE WarnUnused(new, old)
  OBVIOUS
<1>6. b = IF Stays(a, env, name) THEN new ELSE [met EXCEPT !.environments[env].map[name] = s]
  BY <1>1, <1>2, <1>5 DEF BindSymbol, Stays, Old
<1>7. CASE Stays(a, env, name)
  BY <1>4, <1>6, <1>7 DEF Binds
<1>8. CASE ~Stays(a, env, name)
  <2>1. /\ IsArena(met) /\ met.environments = a.environments /\ DOMAIN met.symbols = {s} \cup DOMAIN a.symbols
        /\ old # Unbound => met.symbols[old] = Reported(new.symbols[old])
        /\ \A r \in DOMAIN new.symbols : r # old => met.symbols[r] = new.symbols[r]
    <3>1. CASE old = Unbound
      BY <1>4, <1>5, <3>1
    <3>2. CASE old # Unbound
      <4>1. old \in DOMAIN new.symbols /\ met = WarnUnused(new, old)
        BY <1>1, <1>4, <1>5, <3>2
      <4> QED
        BY <1>4, <4>1, WarnUnusedIs
    <3> QED
      BY <3>1, <3>2
  <2>2. b = [met EXCEPT !.environments[env].map[name] = s]
    BY <1>6, <1>8
  <2>3. s \in DOMAIN met.symbols /\ env \in 1 .. Len(met.environments)
    BY <2>1
  <2>4a. IsArena(b) /\ Enters(met, b, env, name, s)
    BY <2>1, <2>2, <2>3, EnterNameIs
  <2>4. /\ IsArena(b) /\ Len(b.environments) = Len(met.environments) /\ b.symbols = met.symbols
        /\ \A e \in 1 .. Len(met.environments) :
              /\ b.environments[e].parent = met.environments[e].parent
              /\ \A n \in Names : b.environments[e].map[n] =
                     IF e = env /\ n = name THEN s ELSE met.environments[e].map[n]
    BY <2>4a DEF Enters
  <2>5. /\ Len(b.environments) = Len(a.environments)
        /\ \A e \in 1 .. Len(a.environments) :
              /\ b.environments[e].parent = a.environments[e].parent
              /\ \A n \in Names : b.environments[e].map[n] =
                     IF e = env /\ n = name /\ ~Stays(a, env, name) THEN s ELSE a.environments[e].map[n]
    BY <1>8, <2>1, <2>4
  <2>6. ASSUME s \notin DOMAIN a.symbols
        PROVE  /\ b.symbols[s] = Symbol(name, kind)
               /\ \A r \in DOMAIN a.symbols : b.symbols[r] =
                     IF r = old /\ ~Stays(a, env, name) THEN Reported(a.symbols[r]) ELSE a.symbols[r]
    <3>1. s # old
      BY <1>1, <2>6, Distinct
    <3>2. b.symbols[s] = Symbol(name, kind)
      BY <1>4, <2>1, <2>4, <3>1
    <3>3. ASSUME NEW r \in DOMAIN a.symbols
          PROVE  b.symbols[r] = IF r = old THEN Reported(a.symbols[r]) ELSE a.symbols[r]
      <4>1. r # s /\ r \in DOMAIN new.symbols /\ new.symbols[r] = a.symbols[r] /\ r # Unbound
        BY <1>4, <2>6, ArenaFacts
      <4> QED
        BY <2>1, <2>4, <4>1
    <3> QED
      BY <1>8, <3>2, <3>3
  <2> QED
    BY <1>1, <2>1, <2>4, <2>5, <2>6 DEF Binds
<1> QED
  BY <1>7, <1>8

(* The names of a pattern are bound one after the other.                   *)
IsBinding(bound, a, env, at, names, kind) ==
    /\ bound[0] = a
    /\ \A k \in 1 .. Len(names) :
          /\ IsArena(bound[k - 1]) /\ env \in 1 .. Len(bound[k - 1].environments)
          /\ IsArena(bound[k]) /\ Binds(bound[k - 1], bound[k], env, names[k], <<at, k>>, kind)
          /\ bound[k] = BindSymbol(bound[k - 1], env, names[k], <<at, k>>, kind)

LEMMA BindPatternIs ==
    ASSUME NEW a, IsArena(a), NEW env \in 1 .. Len(a.environments), NEW at \in Nat,
           NEW names \in Seq(Names), NEW kind \in Kinds
    PROVE  \E bound : /\ IsBinding(bound, a, env, at, names, kind)
                      /\ BindPattern(a, env, at, names, kind) = bound[Len(names)]
<1> DEFINE n == Len(names)
           Records == [environments : Seq(Environments), symbols : UNION {[K -> Entries] : K \in SUBSET Keys}]
           S == {b \in Records : IsArena(b) /\ Len(b.environments) = Len(a.environments)}
           step == [k \in 1 .. n |-> [b \in S |-> BindSymbol(b, env, names[k], <<at, k>>, kind)]]
           Value(f, k) == IF k = 0 THEN a ELSE BindSymbol(f[k - 1], env, names[k], <<at, k>>, kind)
           Solution(f) == f = [k \in 0 .. n |-> Value(f, k)]
<1>1. n \in Nat /\ \A k \in 1 .. n : names[k] \in Names /\ <<at, k>> \in Nat \X Nat
  BY LenProperties, ElementOfSeq
<1>2. ASSUME NEW b, IsArena(b), Len(b.environments) = Len(a.environments)
      PROVE  b \in S
  <2>1. /\ b = [environments |-> b.environments, symbols |-> b.symbols]
        /\ b.environments \in Seq(Environments) /\ DOMAIN b.symbols \subseteq Keys
        /\ b.symbols \in [DOMAIN b.symbols -> Entries]
    BY <1>2 DEF IsArena
  <2>2. b.symbols \in UNION {[K -> Entries] : K \in SUBSET Keys}
    BY <2>1
  <2>3. b \in Records
    BY <2>1, <2>2
  <2> QED
    BY <1>2, <2>3
<1>3. \A b \in S : IsArena(b) /\ Len(b.environments) = Len(a.environments)
  OBVIOUS
<1>4. ASSUME NEW k \in 1 .. n, NEW b \in S
      PROVE  /\ step[k][b] = BindSymbol(b, env, names[k], <<at, k>>, kind) /\ step[k][b] \in S
             /\ Binds(b, step[k][b], env, names[k], <<at, k>>, kind)
  <2>1. step[k][b] = BindSymbol(b, env, names[k], <<at, k>>, kind)
    OBVIOUS
  <2>2. IsArena(b) /\ Len(b.environments) = Len(a.environments) /\ env \in 1 .. Len(b.environments)
    BY <1>3
  <2>3. PICK c : c = step[k][b]
    OBVIOUS
  <2>4. IsArena(c) /\ Binds(b, c, env, names[k], <<at, k>>, kind)
    <3> HIDE DEF step, S
    <3> QED
      BY <1>1, <2>1, <2>2, <2>3, BindSymbolIs
  <2>5. Len(c.environments) = Len(a.environments)
    BY <2>2, <2>4 DEF Binds
  <2>6. c \in S
    BY <1>2, <2>4, <2>5
  <2> HIDE DEF step, S
  <2> QED
    BY <2>1, <2>3, <2>4, <2>6
<1>5. a \in S
  BY <1>2
<1> HIDE DEF S, step
<1>6. PICK f \in [0 .. n -> S] : Counts(f, n, a, step)
  <2>1. StepsStay(n, S, step)
    BY <1>4 DEF StepsStay
  <2> HIDE DEF n
  <2> QED
    BY <1>1, <1>5, <2>1, DefinedByCount
<1>7. /\ f[0] = a
      /\ \A k \in 1 .. n : f[k - 1] \in S /\ f[k] \in S /\ f[k] = step[k][f[k - 1]]
  <2>1. \A k \in 1 .. n : k - 1 \in 0 .. n /\ k \in 0 .. n
    BY <1>1
  <2> QED
    BY <1>6, <2>1 DEF Counts
<1>8. ASSUME NEW k \in 0 .. n
      PROVE  f[k] = Value(f, k)
  <2>1. k # 0 => k \in 1 .. n
    BY <1>1
  <2> QED
    BY <1>4, <1>7, <2>1
<1>9. Solution(f)
  <2>1. f = [k \in 0 .. n |-> f[k]]
    OBVIOUS
  <2> HIDE DEF Value
  <2> QED
    BY <1>8, <2>1
<1>10. PICK g : g = CHOOSE h : Solution(h)
  OBVIOUS
<1>11. Solution(g)
  <2> HIDE DEF Solution
  <2> QED
    BY <1>9, <1>10
<1>12. BindPattern(a, env, at, names, kind) = g[n]
  BY <1>10 DEF BindPattern
<1>13. \A k \in 0 .. n : g[k] = Value(g, k)
  <2>1. g = [k \in 0 .. n |-> Value(g, k)]
    BY <1>11
  <2> HIDE DEF Value
  <2> QED
    BY <2>1
<1> DEFINE Wrong == {k \in 0 .. n : g[k] # f[k]}
<1>14. ASSUME Wrong # {}
       PROVE  FALSE
  <2>0. Wrong \subseteq Nat
    OBVIOUS
  <2>1. PICK k \in Wrong : \A j \in Wrong : k <= j
    BY <1>14, <2>0, LeastNumber
  <2>2. k # 0 => k - 1 \in 0 .. n /\ k - 1 \notin Wrong
    BY <1>1, <2>1
  <2>3. k # 0 => g[k - 1] = f[k - 1]
    BY <2>2
  <2>4. Value(g, k) = Value(f, k)
    BY <2>3
  <2> HIDE DEF Value
  <2> QED
    BY <1>8, <1>13, <2>1, <2>4
<1>15. g[n] = f[n]
  <2>1. n \in 0 .. n
    BY <1>1
  <2> QED
    BY <1>14, <2>1
<1>16. ASSUME NEW k \in 1 .. n
       PROVE  /\ IsArena(f[k - 1]) /\ env \in 1 .. Len(f[k - 1].environments)
              /\ IsArena(f[k]) /\ Binds(f[k - 1], f[k], env, names[k], <<at, k>>, kind)
              /\ f[k] = BindSymbol(f[k - 1], env, names[k], <<at, k>>, kind)
  <2>1. f[k - 1] \in S /\ f[k] \in S /\ f[k] = step[k][f[k - 1]]
    BY <1>7
  <2> QED
    BY <1>3, <1>4, <2>1
<1>17. IsBinding(f, a, env, at, names, kind)
  BY <1>7, <1>16 DEF IsBinding
<1> QED
  BY <1>12, <1>15, <1>17

(* A pattern of one name is that name.                                     *)
LEMMA BindOneNameIs ==
    ASSUME NEW a, IsArena(a), NEW env \in 1 .. Len(a.environments), NEW at \in Nat,
           NEW name \in Names, NEW kind \in Kinds
    PROVE  BindPattern(a, env, at, <<name>>, kind) = BindSymbol(a, env, name, <<at, 1>>, kind)
<1>0. <<name>> \in Seq(Names) /\ Len(<<name>>) = 1 /\ <<name>>[1] = name
  OBVIOUS
<1>1. PICK names : names = <<name>> /\ names \in Seq(Names) /\ Len(names) = 1 /\ names[1] = name
  BY <1>0, Zenon
<1>2. PICK bound : /\ IsBinding(bound, a, env, at, names, kind)
                   /\ BindPattern(a, env, at, names, kind) = bound[Len(names)]
  BY <1>1, BindPatternIs
<1>3. bound[0] = a /\ bound[1] = BindSymbol(bound[0], env, names[1], <<at, 1>>, kind)
  <2>1. 1 \in 1 .. Len(names) /\ 1 - 1 = 0
    BY <1>1
  <2> QED
    BY <1>2, <2>1 DEF IsBinding
<1> QED
  BY <1>1, <1>2, <1>3

(* The arena that belongs to a text: D are the bindings that count, V the  *)
(* scopes in view with their environments, U the uses and f what they      *)
(* refer to.                                                               *)
IsView(V, a) ==
    /\ \A v \in V : v[2] \in 2 .. Len(a.environments)
    /\ \A v, w \in V : (v[1] = w[1] \/ v[2] = w[2]) => v = w
Mapped(a, V) == {a.environments[v[2]].map[n] : v \in V, n \in Names}
MapsFollow(t, D, V, a) ==
    \A v \in V, n \in Names : Shows(t, a.environments[v[2]].map[n], Of(t, D, n, v[1]))
GlobalsFollow(a) ==
    \A n \in Names : a.environments[Module].map[n] =
                         IF Global(n) \in DOMAIN a.symbols THEN Global(n) ELSE Unbound
SymbolsFollow(t, D, a) ==
    /\ D \subseteq DOMAIN a.symbols
    /\ \A s \in DOMAIN a.symbols : s \in D \/ \E n \in Names : s = Global(n)
    /\ \A s \in D : a.symbols[s].name = NameOf(t, s) /\ a.symbols[s].kind = t[s[1]].kind
WarningsFollow(t, D, a, M) ==
    \A s \in D : a.symbols[s].warned =
        IF ~Hidden(t, s) /\ s \notin M /\ IsUnused(a.symbols[s]) THEN 1 ELSE 0
UsesFollow(a, U, f) ==
    /\ \A s \in DOMAIN a.symbols : a.symbols[s].uses = 0 <=> \A i \in U : f[i] # s
    /\ \A i \in U : f[i] \in {Unbound} \cup DOMAIN a.symbols
Follow(t, D, V, a, U, f) ==
    /\ IsArena(a) /\ MapsFollow(t, D, V, a) /\ GlobalsFollow(a) /\ SymbolsFollow(t, D, a)
    /\ WarningsFollow(t, D, a, Mapped(a, V)) /\ UsesFollow(a, U, f)

LEMMA BindingIsKey ==
    ASSUME NEW t \in Seq(Events), NEW s \in Bindings(t)
    PROVE  /\ s \in Nat \X Nat /\ s # Unbound /\ \A n : s # Global(n)
           /\ CanShadow(t[s[1]].kind) <=> ~IsFixed(t, s)
           /\ t[s[1]].kind \in Kinds
<1>1. /\ s = <<s[1], s[2]>> /\ s[1] \in 1 .. Len(t) /\ s[2] \in Nat
      /\ t[s[1]].kind \in {"variable", "type", "mutability"}
  BY BindingFacts
<1>2. s \in Nat \X Nat
  BY <1>1
<1> QED
  BY <1>1, <1>2, Distinct DEF CanShadow, IsFixed, Kinds

(* One name is bound, behind all that count already. *)
NextBound(t, D, s) ==
    /\ s \in Bindings(t) \ D /\ \A r \in D : Before(t, r, s)
    /\ \A m \in D, r \in Bindings(t) : Effect(t, r[1]) < Effect(t, m[1]) => r \in D
    /\ Hidden(t, s) <=> \E r \in Of(t, D, NameOf(t, s), ScopeOf(t, s)) : IsFixed(t, r)

LEMMA OneBound ==
    ASSUME NEW t \in Seq(Events), NEW D, D \subseteq Bindings(t), NEW V, NEW a, NEW b, NEW U, NEW f,
           IsView(V, a), Follow(t, D, V, a, U, f),
           NEW s, NextBound(t, D, s), NEW v \in V, v[1] = ScopeOf(t, s),
           IsArena(b), Binds(a, b, v[2], NameOf(t, s), s, t[s[1]].kind)
    PROVE  Follow(t, D \cup {s}, V, b, U, f)
<1> DEFINE name == NameOf(t, s)
           old == Old(a, v[2], name)
           S == Of(t, D, name, v[1])
<1>1. /\ s \in Bindings(t) /\ s \notin D /\ \A r \in D : Before(t, r, s)
      /\ Hidden(t, s) <=> \E r \in S : IsFixed(t, r)
  BY DEF NextBound
<1>2. s \in Nat \X Nat /\ s # Unbound /\ (\A n : s # Global(n)) /\ name \in Names
  BY <1>1, BindingIsKey, BindingFacts
<1>3. s \notin DOMAIN a.symbols
  BY <1>1, <1>2 DEF Follow, SymbolsFollow
<1>4. Shows(t, old, S)
  BY <1>2 DEF Follow, MapsFollow, Old
<1>5. S \subseteq D /\ S \subseteq Bindings(t)
  BY DEF Of
<1>6. old = Unbound <=> S = {}
  <2>1. old \in S => old # Unbound
    BY <1>5, BindingIsKey
  <2> QED
    BY <1>4, <2>1 DEF Shows, Stands
<1>7. old # Unbound => old \in S /\ Stands(t, old, S) /\ old \in DOMAIN a.symbols
                       /\ (CanShadow(a.symbols[old].kind) <=> ~IsFixed(t, old))
  <2>1. ASSUME old # Unbound
        PROVE  old \in S /\ Stands(t, old, S) /\ old \in DOMAIN a.symbols /\ a.symbols[old].kind = t[old[1]].kind
    <3>1. Stands(t, old, S) /\ old \in S
      BY <1>4, <1>6, <2>1 DEF Shows, Stands
    <3> QED
      BY <1>5, <3>1 DEF Follow, SymbolsFollow
  <2> QED
    BY <1>5, <2>1, BindingIsKey
<1>8. Stays(a, v[2], name) <=> old # Unbound /\ IsFixed(t, old)
  BY <1>7 DEF Stays
<1>9. v[2] \in 2 .. Len(a.environments) /\ \A w \in V : w[2] \in 1 .. Len(a.environments)
  BY DEF IsView
<1>10. /\ Len(b.environments) = Len(a.environments)
       /\ DOMAIN b.symbols = {s} \cup DOMAIN a.symbols
       /\ \A e \in 1 .. Len(a.environments) : \A n \in Names : b.environments[e].map[n] =
             IF e = v[2] /\ n = name /\ ~Stays(a, v[2], name) THEN s ELSE a.environments[e].map[n]
       /\ b.symbols[s] = Symbol(name, t[s[1]].kind)
       /\ \A r \in DOMAIN a.symbols : b.symbols[r] =
             IF r = old /\ ~Stays(a, v[2], name) THEN Reported(a.symbols[r]) ELSE a.symbols[r]
  BY <1>3 DEF Binds
<1>11. \A r \in DOMAIN a.symbols : a.symbols[r] \in Entries /\ a.symbols[r].warned \in Nat
  BY ArenaFacts DEF Follow
<1>12. ASSUME NEW r \in DOMAIN a.symbols
       PROVE  /\ b.symbols[r].name = a.symbols[r].name /\ b.symbols[r].kind = a.symbols[r].kind
              /\ b.symbols[r].uses = a.symbols[r].uses /\ IsUnused(b.symbols[r]) = IsUnused(a.symbols[r])
  BY <1>10, <1>11, ReportedFacts
<1>13. b.symbols[s].name = name /\ b.symbols[s].kind = t[s[1]].kind
       /\ b.symbols[s].uses = 0 /\ b.symbols[s].warned = 0
  BY <1>10 DEF Symbol
<1>14. MapsFollow(t, D \cup {s}, V, b)
  <2>1. ASSUME NEW w \in V, NEW n \in Names
        PROVE  Shows(t, b.environments[w[2]].map[n], Of(t, D \cup {s}, n, w[1]))
    <3>1. Shows(t, a.environments[w[2]].map[n], Of(t, D, n, w[1]))
      BY DEF Follow, MapsFollow
    <3>2. CASE n # name \/ w # v
      <4>1. Of(t, D \cup {s}, n, w[1]) = Of(t, D, n, w[1])
        <5>1. NameOf(t, s) # n \/ ScopeOf(t, s) # w[1]
          BY <3>2 DEF IsView
        <5> QED
          BY <5>1 DEF Of
      <4>2. b.environments[w[2]].map[n] = a.environments[w[2]].map[n]
        <5>1. w[2] # v[2] \/ n # name
          BY <3>2 DEF IsView
        <5> QED
          BY <1>9, <1>10, <5>1
      <4> QED
        BY <3>1, <4>1, <4>2
    <3>3. CASE n = name /\ w = v
      <4>1. Of(t, D \cup {s}, n, w[1]) = S \cup {s}
        BY <3>3 DEF Of
      <4>2. \A r \in S : Before(t, r, s)
        BY <1>1, <1>5
      <4>3. CASE Stays(a, v[2], name)
        <5>1. b.environments[w[2]].map[n] = old
          BY <1>9, <1>10, <3>3, <4>3 DEF Old
        <5>2. Stands(t, old, S \cup {s})
          BY <1>7, <1>8, <4>2, <4>3 DEF Stands
        <5> QED
          BY <4>1, <5>1, <5>2 DEF Shows
      <4>4. CASE ~Stays(a, v[2], name)
        <5>1. b.environments[w[2]].map[n] = s
          BY <1>9, <1>10, <3>3, <4>4
        <5>2. \A r \in S : ~IsFixed(t, r)
          BY <1>6, <1>7, <1>8, <4>4 DEF Stands
        <5>3. Stands(t, s, S \cup {s})
          BY <4>2, <5>2 DEF Stands
        <5> QED
          BY <4>1, <5>1, <5>3 DEF Shows
      <4> QED
        BY <4>3, <4>4
    <3> QED
      BY <3>2, <3>3
  <2> QED
    BY <2>1 DEF MapsFollow
<1>15. GlobalsFollow(b)
  <2>1. ASSUME NEW n \in Names
        PROVE  b.environments[Module].map[n] = IF Global(n) \in DOMAIN b.symbols THEN Global(n) ELSE Unbound
    <3>1. Module # v[2] /\ Module \in 1 .. Len(a.environments)
      BY <1>9, ArenaFacts DEF Module, Follow
    <3>2. b.environments[Module].map[n] = a.environments[Module].map[n]
      BY <1>10, <3>1
    <3>3. Global(n) \in DOMAIN b.symbols <=> Global(n) \in DOMAIN a.symbols
      BY <1>2, <1>10
    <3> QED
      BY <3>2, <3>3 DEF Follow, GlobalsFollow
  <2> QED
    BY <2>1 DEF GlobalsFollow
<1>16. SymbolsFollow(t, D \cup {s}, b)
  BY <1>10, <1>12, <1>13 DEF SymbolsFollow, Follow
<1>17. UsesFollow(b, U, f)
  <2>1. \A i \in U : f[i] \in {Unbound} \cup DOMAIN a.symbols /\ f[i] # s
    BY <1>2, <1>3 DEF Follow, UsesFollow
  <2>2. ASSUME NEW r \in DOMAIN b.symbols
        PROVE  b.symbols[r].uses = 0 <=> \A i \in U : f[i] # r
    <3>1. CASE r = s
      BY <1>13, <2>1, <3>1
    <3>2. CASE r # s
      BY <1>10, <1>12, <3>2 DEF Follow, UsesFollow
    <3> QED
      BY <3>1, <3>2
  <2> QED
    BY <1>10, <2>1, <2>2 DEF UsesFollow
<1>18. \A w \in V, n \in Names : a.environments[w[2]].map[n] = old /\ old # Unbound => w = v /\ n = name
  <2>1. ASSUME NEW w \in V, NEW n \in Names, a.environments[w[2]].map[n] = old, old # Unbound
        PROVE  w = v /\ n = name
    <3>1. Shows(t, old, Of(t, D, n, w[1]))
      BY <2>1 DEF Follow, MapsFollow
    <3>2. old \in Of(t, D, n, w[1])
      BY <2>1, <3>1 DEF Shows, Stands
    <3>3. old \in S
      BY <1>7, <2>1
    <3>4. n = name /\ w[1] = v[1]
      BY <3>2, <3>3 DEF Of
    <3> QED
      BY <3>4 DEF IsView
  <2> QED
    BY <2>1
<1>19. WarningsFollow(t, D \cup {s}, b, Mapped(b, V))
  <2>1. \A w \in V, n \in Names : /\ w[2] \in 1 .. Len(a.environments)
                                  /\ a.environments[w[2]].map[n] \in {Unbound} \cup DOMAIN a.symbols
    BY <1>9 DEF Follow, IsArena
  <2>2. CASE Stays(a, v[2], name)
    <3>1. Mapped(b, V) = Mapped(a, V)
      BY <1>9, <1>10, <2>2 DEF Mapped
    <3>2. \A r \in D : b.symbols[r] = a.symbols[r]
      BY <1>10, <2>2 DEF Follow, SymbolsFollow
    <3>3. Hidden(t, s)
      BY <1>1, <1>7, <1>8, <2>2
    <3>4. ASSUME NEW r \in D \cup {s}
          PROVE  b.symbols[r].warned =
                     IF ~Hidden(t, r) /\ r \notin Mapped(b, V) /\ IsUnused(b.symbols[r]) THEN 1 ELSE 0
      BY <1>13, <3>1, <3>2, <3>3 DEF Follow, WarningsFollow
    <3> QED
      BY <3>4 DEF WarningsFollow
  <2>3. CASE ~Stays(a, v[2], name)
    <3>1. s \in Mapped(b, V)
      <4>1. b.environments[v[2]].map[name] = s
        BY <1>2, <1>9, <1>10, <2>3
      <4> QED
        BY <1>2, <4>1 DEF Mapped
    <3>2. ASSUME NEW r \in D, r # old
          PROVE  r \in Mapped(b, V) <=> r \in Mapped(a, V)
      <4>1. ASSUME r \in Mapped(b, V)
            PROVE  r \in Mapped(a, V)
        <5>1. PICK w \in V, n \in Names : r = b.environments[w[2]].map[n]
          BY <4>1 DEF Mapped
        <5>2. r = a.environments[w[2]].map[n]
          BY <1>1, <1>9, <1>10, <5>1
        <5> QED
          BY <5>2 DEF Mapped
      <4>2. ASSUME r \in Mapped(a, V)
            PROVE  r \in Mapped(b, V)
        <5>1. PICK w \in V, n \in Names : r = a.environments[w[2]].map[n]
          BY <4>2 DEF Mapped
        <5>2. w[2] # v[2] \/ n # name
          BY <3>2, <5>1 DEF Old
        <5>3. r = b.environments[w[2]].map[n]
          BY <1>9, <1>10, <5>1, <5>2
        <5> QED
          BY <5>3 DEF Mapped
      <4> QED
        BY <4>1, <4>2
    <3>3. ASSUME old # Unbound
          PROVE  old \in Mapped(a, V) /\ old \notin Mapped(b, V) /\ ~Hidden(t, old)
      <4>1. old \in Mapped(a, V)
        BY <1>2 DEF Mapped, Old
      <4>2. old \notin Mapped(b, V)
        <5>1. ASSUME NEW w \in V, NEW n \in Names, old = b.environments[w[2]].map[n]
              PROVE  FALSE
          <6>1. old # s
            BY <1>3, <1>7, <3>3
          <6>2. old = a.environments[w[2]].map[n] /\ ~(w[2] = v[2] /\ n = name)
            BY <1>9, <1>10, <2>3, <5>1, <6>1
          <6> QED
            BY <1>18, <3>3, <6>2
        <5> QED
          BY <5>1 DEF Mapped
      <4>3. \A r \in Bindings(t) : Effect(t, r[1]) < Effect(t, old[1]) => r \in D
        BY <1>5, <1>7, <3>3 DEF NextBound
      <4>4. ~Hidden(t, old)
        BY <1>7, <3>3, <4>3, StandingIsNotHidden
      <4> QED
        BY <4>1, <4>2, <4>4
    <3>4. ASSUME NEW r \in D
          PROVE  b.symbols[r].warned =
                     IF ~Hidden(t, r) /\ r \notin Mapped(b, V) /\ IsUnused(b.symbols[r]) THEN 1 ELSE 0
      <4>1. r \in DOMAIN a.symbols /\ r # Unbound
        BY BindingIsKey DEF Follow, SymbolsFollow
      <4>2. a.symbols[r].warned =
                IF ~Hidden(t, r) /\ r \notin Mapped(a, V) /\ IsUnused(a.symbols[r]) THEN 1 ELSE 0
        BY DEF Follow, WarningsFollow
      <4>3. CASE r # old
        <5>1. b.symbols[r] = a.symbols[r]
          BY <1>10, <4>1, <4>3
        <5> QED
          BY <3>2, <4>2, <4>3, <5>1
      <4>4. CASE r = old
        <5>1. old # Unbound
          BY <4>1, <4>4
        <5>2. a.symbols[r].warned = 0
          BY <3>3, <4>2, <4>4, <5>1
        <5>3. b.symbols[r] = Reported(a.symbols[r])
          BY <1>10, <2>3, <4>1, <4>4
        <5>4. b.symbols[r].warned = IF IsUnused(a.symbols[r]) THEN 1 ELSE 0
          BY <1>11, <4>1, <5>2, <5>3, ReportedFacts
        <5> QED
          BY <1>12, <3>3, <4>1, <4>4, <5>1, <5>4
      <4> QED
        BY <4>3, <4>4
    <3> QED
      BY <1>13, <3>1, <3>4 DEF WarningsFollow
  <2> QED
    BY <2>2, <2>3
<1> QED
  BY <1>14, <1>15, <1>16, <1>17, <1>19 DEF Follow

(* A longer text says the same of the bindings that count already.         *)
LEMMA FollowInLonger ==
    ASSUME NEW t, NEW u, Longer(t, u), NEW V, NEW a, NEW U, NEW f,
           Follow(t, InEffect(t), V, a, U, f)
    PROVE  Follow(u, InEffect(t), V, a, U, f)
<1> DEFINE D == InEffect(t)
<1>1. AgreeOn(t, u, D)
  BY InEffectOfLonger
<1>2. \A s \in D : Hidden(u, s) <=> Hidden(t, s)
  BY HiddenInLonger
<1> HIDE DEF D
<1>3. MapsFollow(u, D, V, a)
  <2>1. ASSUME NEW v \in V, NEW n \in Names
        PROVE  Shows(u, a.environments[v[2]].map[n], Of(u, D, n, v[1]))
    <3>1. Shows(t, a.environments[v[2]].map[n], Of(t, D, n, v[1]))
      BY DEF Follow, MapsFollow, D
    <3>a. Of(u, D, n, v[1]) = Of(t, D, n, v[1])
      BY <1>1, OfInLonger
    <3>b. Of(t, D, n, v[1]) \subseteq D
      BY DEF Of
    <3>2. PICK S : S = Of(t, D, n, v[1]) /\ S = Of(u, D, n, v[1]) /\ S \subseteq D
      BY <3>a, <3>b
    <3>3. \A m : Stands(u, m, S) <=> Stands(t, m, S)
      BY <1>1, <3>2, StandsInLonger
    <3> QED
      BY <3>1, <3>2, <3>3 DEF Shows
  <2> QED
    BY <2>1 DEF MapsFollow
<1>4. SymbolsFollow(u, D, a)
  BY <1>1 DEF AgreeOn, SymbolsFollow, Follow, D
<1>5. WarningsFollow(u, D, a, Mapped(a, V))
  BY <1>2 DEF WarningsFollow, Follow, D
<1> QED
  BY <1>3, <1>4, <1>5 DEF Follow, D

(* Environments stay where they are, and definitions of the module remain. *)
SameGlobals(a, b) == \A n \in Names : Global(n) \in DOMAIN b.symbols <=> Global(n) \in DOMAIN a.symbols
Keeps(a, b) ==
    /\ Len(b.environments) = Len(a.environments)
    /\ \A e \in 1 .. Len(a.environments) : b.environments[e].parent = a.environments[e].parent
    /\ SameGlobals(a, b)

(* A pattern is bound, in the scope it stands in.                          *)
LEMMA PatternBound ==
    ASSUME NEW t, NEW u, Longer(t, u), NEW at, BindsNow(t, u, at),
           NEW V, NEW a, NEW U, NEW f, IsView(V, a), Follow(t, InEffect(t), V, a, U, f),
           NEW v \in V, v[1] = Innermost(u, at, "block"),
           NEW b, b = BindPattern(a, v[2], at, u[at].names, u[at].kind)
    PROVE  Follow(u, InEffect(u), V, b, U, f) /\ Keeps(a, b)
<1> DEFINE names == u[at].names
           kind == u[at].kind
           D(k) == InEffect(t) \cup Bound(u, at, k)
<1>0. t \in Seq(Events) /\ u \in Seq(Events) /\ Len(t) \in Nat
  BY TextFacts DEF Longer
<1>1. /\ at \in Binding(u) /\ Effect(u, at) = Len(t) + 1
      /\ Len(names) \in Nat /\ InEffect(u) = D(Len(names))
  BY NewInEffect
<1>2. /\ at \in 1 .. Len(u) /\ names \in Seq(Names) /\ DOMAIN names = 1 .. Len(names) /\ kind \in Kinds
      /\ kind = "mutability" => Len(names) = 1
  <2>1. at \in 1 .. Len(u) /\ u[at] \in Events /\ u[at].what \in {"template", "pattern", "binding"}
    BY <1>0, <1>1, TextFacts DEF Binding
  <2>2. /\ u[at].names \in Seq(Names) /\ u[at].kind \in {"variable", "type", "mutability"}
        /\ u[at].kind = "mutability" => Len(u[at].names) = 1
    BY <2>1, EventFacts
  <2> QED
    BY <2>1, <2>2, LenProperties DEF Kinds
<1>3. v[2] \in 1 .. Len(a.environments) /\ at \in Nat /\ IsArena(a)
  <2>1. v[2] \in 2 .. Len(a.environments) /\ IsArena(a)
    BY DEF IsView, Follow
  <2>2. Len(a.environments) \in Nat /\ Len(u) \in Nat
    BY <1>0, <2>1, ArenaFacts, TextFacts
  <2> QED
    BY <1>2, <2>1, <2>2
<1>4. PICK bound : IsBinding(bound, a, v[2], at, names, kind) /\ b = bound[Len(names)]
  <2> HIDE DEF names, kind
  <2> QED
    BY <1>2, <1>3, BindPatternIs DEF names, kind
<1>5. Follow(u, InEffect(t), V, a, U, f)
  BY FollowInLonger
<1>6. ASSUME NEW k \in 1 .. Len(names)
      PROVE  /\ <<at, k>> \in Bindings(u) /\ ScopeOf(u, <<at, k>>) = v[1] /\ NameOf(u, <<at, k>>) = names[k]
             /\ IsFixed(u, <<at, k>>) <=> kind = "mutability"
             /\ u[<<at, k>>[1]].kind = kind
  <2>1. <<at, k>> \in {at} \X DOMAIN u[at].names
    BY <1>2
  <2>2. <<at, k>> \in Bindings(u)
    BY <1>1, <2>1 DEF Bindings
  <2> QED
    BY <2>2 DEF ScopeOf, NameOf, IsFixed
<1>7. \A r \in InEffect(t) : /\ r \in Bindings(u) /\ Effect(u, r[1]) \in Nat /\ Effect(u, r[1]) <= Len(t)
  BY InEffectOfLonger DEF AgreeOn, InEffect
<1> DEFINE Good(k) == Follow(u, D(k), V, bound[k], U, f) /\ Keeps(a, bound[k])
           Wrong == {k \in 0 .. Len(names) : ~Good(k)}
<1>8. Good(0)
  <2>1. D(0) = InEffect(t)
    BY DEF Bound
  <2>2. bound[0] = a
    BY <1>4 DEF IsBinding
  <2> QED
    BY <1>5, <2>1, <2>2 DEF Keeps, SameGlobals
<1>9. ASSUME NEW k \in 1 .. Len(names), Good(k - 1)
      PROVE  Good(k)
  <2>1. PICK p \in Nat : p = k - 1 /\ p + 1 = k
    BY <1>1
  <2>2. PICK E, s, x, y : E = D(p) /\ s = <<at, k>> /\ x = bound[p] /\ y = bound[k]
    OBVIOUS
  <2>3. Follow(u, E, V, x, U, f) /\ Keeps(a, x)
    BY <1>9, <2>1, <2>2
  <2>4. s \in Bindings(u) /\ ScopeOf(u, s) = v[1] /\ NameOf(u, s) = names[k]
        /\ (IsFixed(u, s) <=> kind = "mutability") /\ u[s[1]].kind = kind
    BY <1>6, <2>2
  <2>5. IsArena(y) /\ Binds(x, y, v[2], names[k], s, kind)
    BY <1>4, <2>1, <2>2 DEF IsBinding
  <2>6. ASSUME NEW r \in E
        PROVE  \/ r \in InEffect(t)
               \/ \E j \in 1 .. Len(names) : r = <<at, j>> /\ j < k
    <3>1. r \in InEffect(t) \/ r \in Bound(u, at, p)
      BY <2>2
    <3>2. \A j \in 1 .. p : j \in 1 .. Len(names) /\ j < k
      BY <1>1, <2>1
    <3> QED
      BY <3>1, <3>2 DEF Bound
  <2>7. E \subseteq Bindings(u)
    BY <1>6, <1>7, <2>6
  <2>8. s \notin E
    <3>1. ASSUME s \in InEffect(t)
          PROVE  FALSE
      <4>1. Effect(u, s[1]) <= Len(t) /\ s[1] = at
        BY <1>7, <2>2, <3>1
      <4> QED
        BY <1>0, <1>1, <4>1
    <3>2. \A j \in 1 .. Len(names) : s = <<at, j>> => ~(j < k)
      BY <2>2
    <3> QED
      BY <2>6, <3>1, <3>2
  <2>9. ASSUME NEW r \in E
        PROVE  Before(u, r, s)
    <3>1. CASE r \in InEffect(t)
      <4>1. Effect(u, r[1]) \in Nat /\ Effect(u, r[1]) <= Len(t) /\ Effect(u, s[1]) = Len(t) + 1
        BY <1>1, <1>7, <2>2, <3>1
      <4> QED
        BY <1>0, <4>1 DEF Before
    <3>2. ASSUME NEW j \in 1 .. Len(names), r = <<at, j>>, j < k
          PROVE  Before(u, r, s)
      BY <2>2, <3>2 DEF Before
    <3> QED
      BY <2>6, <3>1, <3>2
  <2>10. ASSUME NEW m \in E, NEW r \in Bindings(u), Effect(u, r[1]) < Effect(u, m[1])
         PROVE  r \in E
    <3>1. Effect(u, m[1]) <= Len(t) + 1 /\ Effect(u, m[1]) \in Nat
      <4>1. CASE m \in InEffect(t)
        BY <1>0, <1>7, <4>1
      <4>2. ASSUME NEW j \in 1 .. Len(names), m = <<at, j>>
            PROVE  Effect(u, m[1]) = Len(t) + 1
        BY <1>1, <4>2
      <4> QED
        BY <1>0, <2>6, <4>1, <4>2
    <3>2. Effect(u, r[1]) \in Nat
      BY <1>0, BindingFacts, EffectFacts
    <3>3. Effect(u, r[1]) <= Len(t)
      BY <1>0, <2>10, <3>1, <3>2
    <3>4. r \in InEffect(t)
      BY <3>3, InEffectOfLonger
    <3> QED
      BY <2>2, <3>4
  <2>11. Hidden(u, s) <=> \E r \in Of(u, E, NameOf(u, s), ScopeOf(u, s)) : IsFixed(u, r)
    <3>1. Hidden(u, s) <=> \E r \in Of(u, InEffect(t), NameOf(u, s), ScopeOf(u, s)) : IsFixed(u, r)
      <4>1. s[1] = at
        BY <2>2
      <4> QED
        BY <4>1, HiddenWhenNew
    <3>2. ASSUME NEW r \in E, IsFixed(u, r)
          PROVE  r \in InEffect(t)
      <4>1. ASSUME NEW j \in 1 .. Len(names), r = <<at, j>>, j < k
            PROVE  FALSE
        <5>1. kind = "mutability"
          BY <1>6, <3>2, <4>1
        <5>2. Len(names) = 1
          BY <1>2, <5>1
        <5> QED
          BY <4>1, <5>2
      <4> QED
        BY <2>6, <4>1
    <3>3. InEffect(t) \subseteq E
      BY <2>2
    <3> QED
      BY <3>1, <3>2, <3>3 DEF Of
  <2>12. NextBound(u, E, s)
    BY <2>4, <2>8, <2>9, <2>10, <2>11 DEF NextBound
  <2>13. IsView(V, x)
    BY <2>3 DEF IsView, Keeps
  <2>14. Follow(u, E \cup {s}, V, y, U, f)
    BY <1>0, <2>3, <2>4, <2>5, <2>7, <2>12, <2>13, OneBound
  <2>15. D(k) = E \cup {s}
    <3>1. 1 .. k = (1 .. p) \cup {k}
      BY <2>1
    <3>2. Bound(u, at, k) = Bound(u, at, p) \cup {s}
      BY <2>2, <3>1 DEF Bound
    <3> QED
      BY <2>2, <3>2
  <2>16. Keeps(a, y)
    <3>1. \A n : s # Global(n)
      BY <1>0, <2>4, BindingIsKey
    <3> QED
      BY <2>3, <2>5, <3>1 DEF Keeps, SameGlobals, Binds
  <2> QED
    BY <2>2, <2>14, <2>15, <2>16
<1>10. ASSUME Wrong # {}
       PROVE  FALSE
  <2>0. Wrong \subseteq Nat
    OBVIOUS
  <2>1. PICK k \in Wrong : \A j \in Wrong : k <= j
    BY <1>10, <2>0, LeastNumber
  <2>2. k # 0
    BY <1>8, <2>1
  <2>3. k \in 1 .. Len(names) /\ k - 1 \in 0 .. Len(names) /\ ~(k <= k - 1)
    <3>1. k \in 0 .. Len(names)
      OBVIOUS
    <3> QED
      BY <1>1, <2>2, <3>1
  <2>4. Good(k - 1)
    BY <2>1, <2>3
  <2> HIDE DEF Good
  <2> QED
    BY <1>9, <2>1, <2>3, <2>4
<1>11. Good(Len(names))
  <2>1. Len(names) \in 0 .. Len(names)
    BY <1>1
  <2> HIDE DEF Good
  <2> QED
    BY <1>10, <2>1
<1> QED
  BY <1>1, <1>4, <1>11

-----------------------------------------------------------------------------
(* The constructs that are open, and the scopes in view.                   *)

Frames == [at : Nat, env : Nat, outer : [at : Nat, result : Nat]]
OpenFollows(t, o) ==
    /\ o \in Seq(Frames) /\ Len(o) = Len(Around(t)[Len(t)])
    /\ \A p \in 1 .. Len(o) : o[p].at = Around(t)[Len(t)][p]

Env(o, p) == IF p = 0 THEN Signature ELSE o[p].env
Scope(o, p) == IF p = 0 THEN 0 ELSE o[p].at
IsScope(t, o, p) == p = 0 \/ t[o[p].at].what = "block"
View(t, o) == {<<Scope(o, p), Env(o, p)>> : p \in {q \in 0 .. Len(o) : IsScope(t, o, q)}}

Parents(a) ==
    /\ Len(a.environments) >= 2
    /\ a.environments[Module].parent = 0 /\ a.environments[Signature].parent = Module
    /\ \A e \in 1 .. Len(a.environments) : a.environments[e].parent \in 0 .. e - 1
Chained(t, o, a) ==
    /\ \A p \in 0 .. Len(o) : Env(o, p) \in 2 .. Len(a.environments)
    /\ \A p \in 1 .. Len(o) : IF IsScope(t, o, p) THEN a.environments[Env(o, p)].parent = Env(o, p - 1)
                              ELSE Env(o, p) = Env(o, p - 1)
    /\ \A p, q \in 0 .. Len(o) : p < q =>
          /\ Env(o, p) <= Env(o, q)
          /\ Env(o, p) = Env(o, q) <=> \A r \in p + 1 .. q : ~IsScope(t, o, r)

LEMMA OpenFacts ==
    ASSUME NEW t \in Seq(Events), NEW o, OpenFollows(t, o)
    PROVE  /\ Len(o) \in Nat /\ Len(t) \in Nat /\ \A p \in 1 .. Len(o) : o[p] \in Frames
           /\ \A p \in 1 .. Len(o) : /\ o[p].at \in 1 .. Len(t) /\ IsOpener(t, o[p].at) /\ ~Closed(t, o[p].at)
                                     /\ Since(t, Len(t), p, o[p].at)
           /\ \A p, q \in 1 .. Len(o) : q < p => o[q].at < o[p].at
           /\ \A what : Enclosing(t, Len(t) + 1, what) = {o[p].at : p \in {q \in 1 .. Len(o) : t[o[q].at].what = what}}
<1>1. Len(o) \in Nat /\ Len(t) \in Nat /\ \A p \in 1 .. Len(o) : o[p] \in Frames
  BY LenProperties, ElementOfSeq, TextFacts DEF OpenFollows
<1>2. PICK R : R = Around(t)[Len(t)]
  OBVIOUS
<1>3. Len(o) = Len(R) /\ \A p \in 1 .. Len(o) : o[p].at = R[p]
  BY <1>2 DEF OpenFollows
<1>4. Len(t) \in 0 .. Len(t) /\ Len(t) + 1 - 1 = Len(t)
  BY <1>1
<1>5. Elements(Around(t)[Len(t)]) = {Around(t)[Len(t)][p] : p \in 1 .. Len(Around(t)[Len(t)])}
  BY <1>4, AroundFacts
<1>6. Elements(R) = {R[p] : p \in 1 .. Len(R)}
  BY <1>2, <1>5
<1>7. ASSUME NEW p \in 1 .. Len(o)
      PROVE  /\ o[p].at \in 1 .. Len(t) /\ IsOpener(t, o[p].at) /\ ~Closed(t, o[p].at)
             /\ Since(t, Len(t), p, o[p].at)
  <2>1. o[p].at \in Elements(R)
    BY <1>3, <1>6
  <2>2. Since(t, Len(t), p, Around(t)[Len(t)][p])
    BY <1>2, <1>3, <1>4, AroundFacts
  <2> QED
    BY <1>2, <1>3, <2>1, <2>2, OpenHasNoEnd
<1>8. ASSUME NEW p \in 1 .. Len(o), NEW q \in 1 .. Len(o), q < p
      PROVE  o[q].at < o[p].at
  <2>1. \A k \in 1 .. p - 1 : Around(t)[Len(t)][k] < o[p].at
    BY <1>7 DEF Since
  <2>2. q \in 1 .. p - 1
    BY <1>1, <1>8
  <2> QED
    BY <1>2, <1>3, <2>1, <2>2
<1>9. ASSUME NEW what
      PROVE  Enclosing(t, Len(t) + 1, what) = {o[p].at : p \in {q \in 1 .. Len(o) : t[o[q].at].what = what}}
  <2>1. Enclosing(t, Len(t) + 1, what) = {j \in Elements(R) : t[j].what = what}
    BY <1>2, <1>4 DEF Enclosing
  <2> QED
    BY <1>3, <1>6, <2>1
<1> QED
  BY <1>1, <1>7, <1>8, <1>9

(* Scopes in view are as different as their environments.                  *)
LEMMA ViewIsView ==
    ASSUME NEW t \in Seq(Events), NEW o, OpenFollows(t, o), NEW a, Chained(t, o, a), IsArena(a)
    PROVE  IsView(View(t, o), a)
<1>1. Len(o) \in Nat /\ Len(a.environments) \in Nat
  BY OpenFacts, ArenaFacts
<1>2. ASSUME NEW p \in 0 .. Len(o), NEW q \in 0 .. Len(o), p < q, IsScope(t, o, q)
      PROVE  Scope(o, p) # Scope(o, q) /\ Env(o, p) # Env(o, q)
  <2>1. q \in p + 1 .. q /\ q \in 1 .. Len(o)
    BY <1>1, <1>2
  <2>2. Env(o, p) # Env(o, q)
    BY <1>2, <2>1 DEF Chained
  <2>3. o[q].at \in 1 .. Len(t) /\ (p # 0 => p \in 1 .. Len(o))
    BY <1>1, <2>1, OpenFacts
  <2>4. p # 0 => o[p].at \in 1 .. Len(t) /\ o[p].at < o[q].at
    BY <1>2, <2>1, <2>3, OpenFacts
  <2>5. Len(t) \in Nat
    BY TextFacts
  <2>6. Scope(o, p) # Scope(o, q)
    BY <2>1, <2>3, <2>4, <2>5 DEF Scope
  <2> QED
    BY <2>2, <2>6
<1>3. ASSUME NEW p \in 0 .. Len(o), NEW q \in 0 .. Len(o), IsScope(t, o, p), IsScope(t, o, q),
             Scope(o, p) = Scope(o, q) \/ Env(o, p) = Env(o, q)
      PROVE  p = q
  <2>1. p < q \/ q < p \/ p = q
    BY <1>1
  <2> QED
    BY <1>2, <1>3, <2>1
<1>4. \A p \in 0 .. Len(o) : Env(o, p) \in 2 .. Len(a.environments)
  BY DEF Chained
<1>5. ASSUME NEW v \in View(t, o)
      PROVE  \E p \in 0 .. Len(o) : IsScope(t, o, p) /\ v = <<Scope(o, p), Env(o, p)>>
  BY DEF View
<1>6. \A v \in View(t, o) : v[2] \in 2 .. Len(a.environments)
  BY <1>4, <1>5
<1>7. ASSUME NEW v \in View(t, o), NEW w \in View(t, o), v[1] = w[1] \/ v[2] = w[2]
      PROVE  v = w
  <2>1. PICK p \in 0 .. Len(o) : IsScope(t, o, p) /\ v = <<Scope(o, p), Env(o, p)>>
    BY <1>5
  <2>2. PICK q \in 0 .. Len(o) : IsScope(t, o, q) /\ w = <<Scope(o, q), Env(o, q)>>
    BY <1>5
  <2>3. p = q
    BY <1>3, <1>7, <2>1, <2>2
  <2> QED
    BY <2>1, <2>2, <2>3
<1> QED
  BY <1>6, <1>7 DEF IsView

(* The environment in use is that of the innermost block. *)
LEMMA InnermostIsInView ==
    ASSUME NEW t \in Seq(Events), NEW o, OpenFollows(t, o), NEW a, Chained(t, o, a)
    PROVE  <<Innermost(t, Len(t) + 1, "block"), Env(o, Len(o))>> \in View(t, o)
<1>1. Len(o) \in Nat /\ Len(t) \in Nat
  BY OpenFacts
<1> DEFINE P == {p \in 0 .. Len(o) : IsScope(t, o, p)}
<1>2. P \subseteq 0 .. Len(o) /\ 0 \in P
  BY <1>1 DEF IsScope
<1>3. PICK h : h = Largest(P) /\ h \in P /\ \A p \in P : p <= h
  <2> HIDE DEF P
  <2> QED
    BY <1>1, <1>2, LargestIs
<1>4. h \in 0 .. Len(o) /\ IsScope(t, o, h)
  BY <1>3
<1>5. Env(o, h) = Env(o, Len(o))
  <2>1. ASSUME NEW r \in h + 1 .. Len(o)
        PROVE  ~IsScope(t, o, r)
    <3>1. r \in 0 .. Len(o) /\ ~(r <= h)
      BY <1>1, <1>4
    <3> QED
      BY <1>3, <3>1
  <2>2. Len(o) \in 0 .. Len(o) /\ (h = Len(o) \/ h < Len(o))
    BY <1>1, <1>4
  <2> QED
    BY <1>4, <2>1, <2>2 DEF Chained
<1>6. Innermost(t, Len(t) + 1, "block") = Scope(o, h)
  <2>1. Len(t) + 1 \in 1 .. Len(t) + 1 /\ Len(t) + 1 - 1 = Len(t)
    BY <1>1
  <2>2. PICK B : B = Enclosing(t, Len(t) + 1, "block") /\ B \subseteq 1 .. Len(t)
    BY <2>1, EnclosingFacts
  <2>3. B = {o[p].at : p \in {q \in 1 .. Len(o) : t[o[q].at].what = "block"}}
    BY <2>2, OpenFacts
  <2>4. {0} \cup B \subseteq 0 .. Len(t)
    BY <1>1, <2>2
  <2>5. Scope(o, h) \in {0} \cup B
    <3>1. CASE h = 0
      BY <3>1 DEF Scope
    <3>2. CASE h # 0
      <4>1. h \in 1 .. Len(o) /\ t[o[h].at].what = "block"
        BY <1>1, <1>4, <3>2 DEF IsScope
      <4> QED
        BY <2>3, <3>2, <4>1 DEF Scope
    <3> QED
      BY <3>1, <3>2
  <2>6. ASSUME NEW j \in {0} \cup B
        PROVE  j <= Scope(o, h)
    <3>1. Scope(o, h) \in Nat
      BY <1>1, <2>4, <2>5
    <3>2. CASE j = 0
      BY <3>1, <3>2
    <3>3. CASE j \in B
      <4>1. PICK q \in 1 .. Len(o) : t[o[q].at].what = "block" /\ j = o[q].at
        BY <2>3, <3>3
      <4>2. q \in P /\ q <= h
        <5>1. q \in 0 .. Len(o) /\ IsScope(t, o, q)
          BY <1>1, <4>1 DEF IsScope
        <5> QED
          BY <1>3, <5>1
      <4>3. h \in 1 .. Len(o) /\ (q = h \/ q < h)
        BY <1>1, <1>4, <4>2
      <4>4. q < h => o[q].at < o[h].at
        BY <4>3, OpenFacts
      <4>5. o[q].at \in 1 .. Len(t) /\ o[h].at \in 1 .. Len(t)
        BY <4>3, OpenFacts
      <4>6. o[q].at <= o[h].at
        BY <1>1, <4>3, <4>4, <4>5
      <4> QED
        BY <4>1, <4>3, <4>6 DEF Scope
    <3> QED
      BY <3>2, <3>3
  <2>7. Largest({0} \cup B) = Scope(o, h)
    BY <1>1, <2>4, <2>5, <2>6, LargestIsThe
  <2> QED
    BY <2>2, <2>7 DEF Innermost
<1> QED
  BY <1>4, <1>5, <1>6 DEF View

(* Looking up a name climbs from environment to environment.               *)
Climbs(climb, a, env, name) ==
    \A e \in 0 .. env : /\ climb[e] \in 0 .. e
                        /\ climb[e] = IF e = 0 \/ a.environments[e].map[name] # Unbound THEN e
                                      ELSE climb[a.environments[e].parent]

LEMMA Below ==
    ASSUME NEW e \in Nat, NEW p \in 0 .. e - 1
    PROVE  p < e /\ p \in Nat /\ ~(e <= p)
OBVIOUS

(* The climb of find_starting_point, by its equation.                      *)
LEMMA StartingPointClimbs ==
    ASSUME NEW a, IsArena(a), Parents(a), NEW env \in 1 .. Len(a.environments), NEW name
    PROVE  \E climb : Climbs(climb, a, env, name) /\ StartingPoint(a, env, name) = climb[env]
<1>1. Len(a.environments) \in Nat /\ env \in Nat
  BY ArenaFacts
<1> DEFINE D == 0 .. env
           Value(g, e) == IF e = 0 \/ a.environments[e].map[name] # Unbound THEN e
                          ELSE g[a.environments[e].parent]
           value == [e \in D |-> [g \in [D -> D] |-> Value(g, e)]]
           rank == [e \in D |-> e]
           Solution(g) == g = [e \in D |-> Value(g, e)]
<1>2. ASSUME NEW e \in D, e # 0
      PROVE  a.environments[e].parent \in 0 .. e - 1 /\ a.environments[e].parent \in D
  <2>1. e \in 1 .. Len(a.environments)
    BY <1>1, <1>2
  <2>2. a.environments[e].parent \in 0 .. e - 1
    BY <2>1 DEF Parents
  <2> QED
    BY <1>1, <1>2, <2>2
<1>3. ASSUME NEW e \in D, NEW g \in [D -> D], NEW h \in [D -> D]
      PROVE  /\ value[e][g] \in D
             /\ (\A d \in D : rank[d] < rank[e] => g[d] = h[d]) => value[e][g] = value[e][h]
  <2>1. value[e][g] = Value(g, e) /\ value[e][h] = Value(h, e)
    OBVIOUS
  <2>2. Value(g, e) \in D
    BY <1>2
  <2>3. ASSUME \A d \in D : rank[d] < rank[e] => g[d] = h[d]
        PROVE  Value(g, e) = Value(h, e)
    <3>1. e # 0 => rank[a.environments[e].parent] < rank[e] /\ a.environments[e].parent \in D
      <4>1. e # 0 => a.environments[e].parent \in D /\ a.environments[e].parent \in 0 .. e - 1
        BY <1>2
      <4>2. e \in Nat
        BY <1>1
      <4>3. e # 0 => a.environments[e].parent < e
        BY <4>1, <4>2, Below, Zenon
      <4> QED
        BY <4>1, <4>3
    <3> QED
      BY <2>3, <3>1
  <2> QED
    BY <2>1, <2>2, <2>3
<1>4. LooksDown(D, D, rank, value)
  BY <1>3 DEF LooksDown
<1>5. rank \in [D -> 0 .. env] /\ 0 \in D
  BY <1>1
<1>6. PICK f \in [D -> D] : \A e \in D : f[e] = value[e][f]
  <2> DEFINE S == D
  <2>1. env \in Nat /\ 0 \in S /\ rank \in [D -> 0 .. env]
    BY <1>1, <1>5
  <2>2. LooksDown(D, S, rank, value)
    BY <1>4
  <2>3. \E f \in [D -> S] : \A e \in D : f[e] = value[e][f]
    <3> HIDE DEF D, S, value, rank
    <3> QED
      BY <2>1, <2>2, DefinedByRank
  <2> QED
    BY <2>3
<1>7. Solution(f)
  <2>1. \A e \in D : f[e] = Value(f, e)
    BY <1>6
  <2>2. f = [e \in D |-> f[e]]
    BY <1>6
  <2> HIDE DEF Value
  <2> QED
    BY <2>1, <2>2
<1>8. PICK g : g = CHOOSE h : Solution(h)
  OBVIOUS
<1>9. Solution(g)
  <2> HIDE DEF Solution
  <2> QED
    BY <1>7, <1>8
<1>10. \A e \in D : g[e] = Value(g, e)
  <2>1. g = [e \in D |-> Value(g, e)]
    BY <1>9
  <2> HIDE DEF Value
  <2> QED
    BY <2>1
<1>11. StartingPoint(a, env, name) = g[env]
  BY <1>8 DEF StartingPoint
<1> DEFINE Wrong == {e \in D : g[e] \notin 0 .. e}
<1> HIDE DEF value, rank, Solution
<1>12. ASSUME Wrong # {}
       PROVE  FALSE
  <2>0. Wrong \subseteq Nat
    OBVIOUS
  <2>1. PICK e \in Wrong : \A d \in Wrong : e <= d
    BY <1>12, <2>0, LeastNumber
  <2>2. e \in D /\ g[e] \notin 0 .. e /\ e \in Nat /\ e \in 0 .. e
    BY <2>1
  <2>3. g[e] # e /\ e # 0
    <3>1. g[e] # e
      BY <2>2
    <3>2. e = 0 => g[e] = e
      BY <1>10, <2>2
    <3> QED
      BY <3>1, <3>2
  <2>4. g[e] = g[a.environments[e].parent]
    BY <1>10, <2>2, <2>3
  <2>5. PICK p : p = a.environments[e].parent /\ p \in 0 .. e - 1 /\ p \in D
    BY <1>2, <2>2, <2>3
  <2>6. p \notin Wrong
    <3>1. ~(e <= p)
      BY <2>2, <2>5, Below, Zenon
    <3> QED
      BY <2>1, <3>1
  <2>7. g[p] \in 0 .. p /\ p < e /\ p \in Nat
    <3>1. g[p] \in 0 .. p
      BY <2>5, <2>6
    <3>2. p < e /\ p \in Nat
      BY <2>2, <2>5, Below, Zenon
    <3> QED
      BY <3>1, <3>2
  <2>8. g[p] \in 0 .. e
    BY <2>2, <2>7
  <2> QED
    BY <2>2, <2>4, <2>5, <2>8
<1>13. Climbs(g, a, env, name)
  BY <1>10, <1>12 DEF Climbs
<1> QED
  BY <1>11, <1>13

(* What is found there is what the text says.                              *)
Found(climb, a, name, e) == IF climb[e] = 0 THEN Unbound ELSE a.environments[climb[e]].map[name]
Here(t, name, scope) == Of(t, InEffect(t), name, scope)
Upto(t, o, name, p) ==
    {scope \in {Scope(o, q) : q \in {r \in 0 .. p : IsScope(t, o, r)}} : Here(t, name, scope) # {}}
FoundUpto(t, o, a, name, p, found) ==
    IF Upto(t, o, name, p) = {} THEN found = a.environments[Module].map[name]
    ELSE Stands(t, found, Here(t, name, Largest(Upto(t, o, name, p)))) /\ found \in Mapped(a, View(t, o))

LEMMA NameIsFound ==
    ASSUME NEW t \in Seq(Events), NEW o, OpenFollows(t, o), NEW a, Chained(t, o, a), Parents(a), IsArena(a),
           MapsFollow(t, InEffect(t), View(t, o), a), NEW name \in Names,
           NEW climb, NEW env, env = Env(o, Len(o)), Climbs(climb, a, env, name)
    PROVE  FoundUpto(t, o, a, name, Len(o), Found(climb, a, name, env))
<1>0. Len(o) \in Nat /\ Len(t) \in Nat /\ Len(a.environments) \in Nat
  BY OpenFacts, ArenaFacts
<1>1. ASSUME NEW p \in 0 .. Len(o)
      PROVE  Env(o, p) \in 2 .. Len(a.environments) /\ Env(o, p) \in 1 .. env /\ Env(o, p) \in Nat
  <2>1. Env(o, p) \in 2 .. Len(a.environments) /\ env \in 2 .. Len(a.environments)
    BY <1>0 DEF Chained
  <2>2. p = Len(o) \/ p < Len(o)
    BY <1>0
  <2>3. Len(o) \in 0 .. Len(o)
    BY <1>0
  <2>4. Env(o, p) <= env
    BY <2>1, <2>2, <2>3 DEF Chained
  <2> QED
    BY <1>0, <2>1, <2>4
<1>2. ASSUME NEW e \in 1 .. env
      PROVE  Found(climb, a, name, e) = IF a.environments[e].map[name] # Unbound
                                        THEN a.environments[e].map[name]
                                        ELSE Found(climb, a, name, a.environments[e].parent)
  <2>1. env \in Nat
    BY <1>0, <1>1
  <2>2. e \in 0 .. env /\ e # 0
    BY <2>1
  <2> QED
    BY <2>2 DEF Climbs, Found
<1>3. Found(climb, a, name, Module) = a.environments[Module].map[name]
  <2>1. Module \in 1 .. env /\ 0 \in 0 .. env
    <3>1. 0 \in 0 .. Len(o)
      BY <1>0
    <3> QED
      BY <1>1, <3>1 DEF Module
  <2>2. Found(climb, a, name, 0) = Unbound
    BY <2>1 DEF Climbs, Found
  <2>3. a.environments[Module].parent = 0
    BY DEF Parents
  <2> QED
    BY <1>2, <2>1, <2>2, <2>3
<1> DEFINE Good(p) == FoundUpto(t, o, a, name, p, Found(climb, a, name, Env(o, p)))
           Wrong == {p \in 0 .. Len(o) : ~Good(p)}
<1>4. ASSUME NEW p \in 0 .. Len(o), IsScope(t, o, p), NEW m, m = a.environments[Env(o, p)].map[name]
      PROVE  /\ m = Unbound <=> Here(t, name, Scope(o, p)) = {}
             /\ m # Unbound => Stands(t, m, Here(t, name, Scope(o, p))) /\ m \in Mapped(a, View(t, o))
  <2>1. PICK v : v = <<Scope(o, p), Env(o, p)>>
    OBVIOUS
  <2>2. v \in View(t, o)
    BY <1>4, <2>1 DEF View
  <2>3. PICK S : S = Here(t, name, Scope(o, p)) /\ Shows(t, m, S)
    BY <1>4, <2>1, <2>2 DEF MapsFollow, Here
  <2>4. S \subseteq Bindings(t)
    BY <2>3 DEF Here, Of, InEffect
  <2>5. m \in S => m # Unbound
    BY <2>4, BindingIsKey
  <2>6. m \in Mapped(a, View(t, o))
    BY <1>4, <2>1, <2>2 DEF Mapped
  <2> QED
    BY <2>3, <2>5, <2>6 DEF Shows, Stands
<1>5. Good(0)
  <2>1. 0 \in 0 .. Len(o) /\ IsScope(t, o, 0) /\ Scope(o, 0) = 0 /\ Env(o, 0) = Signature
    BY <1>0 DEF IsScope, Scope, Env
  <2>2. Upto(t, o, name, 0) = {scope \in {0} : Here(t, name, scope) # {}}
    <3>1. {Scope(o, q) : q \in {r \in 0 .. 0 : IsScope(t, o, r)}} = {0}
      <4>1. {r \in 0 .. 0 : IsScope(t, o, r)} = {0}
        BY <2>1
      <4> QED
        BY <2>1, <4>1
    <3> QED
      BY <3>1 DEF Upto
  <2>3. a.environments[Signature].parent = Module
    BY DEF Parents
  <2>4. PICK m : m = a.environments[Signature].map[name]
    OBVIOUS
  <2>5. Found(climb, a, name, Signature) = IF m # Unbound THEN m ELSE a.environments[Module].map[name]
    BY <1>1, <1>2, <1>3, <2>1, <2>3, <2>4
  <2>6. CASE m = Unbound
    <3>1. Upto(t, o, name, 0) = {}
      BY <1>4, <2>1, <2>2, <2>4, <2>6
    <3> QED
      BY <2>1, <2>5, <2>6, <3>1 DEF FoundUpto
  <2>7. CASE m # Unbound
    <3>1. Upto(t, o, name, 0) = {0}
      BY <1>4, <2>1, <2>2, <2>4, <2>7
    <3>2. Largest({0}) = 0
      <4>1. {0} \subseteq 0 .. 0 /\ 0 \in {0} /\ (\A k \in {0} : k <= 0) /\ 0 \in Nat
        OBVIOUS
      <4> QED
        BY <4>1, LargestIsThe
    <3>3. Stands(t, m, Here(t, name, 0)) /\ m \in Mapped(a, View(t, o))
      BY <1>4, <2>1, <2>4, <2>7
    <3> QED
      BY <2>1, <2>5, <2>7, <3>1, <3>2, <3>3 DEF FoundUpto
  <2> QED
    BY <2>6, <2>7
<1>6. ASSUME NEW p \in 1 .. Len(o), Good(p - 1)
      PROVE  Good(p)
  <2>1. p \in 0 .. Len(o) /\ p - 1 \in 0 .. Len(o) /\ p # 0
    BY <1>0
  <2>2. {q \in 0 .. p : IsScope(t, o, q)} =
            {q \in 0 .. p - 1 : IsScope(t, o, q)} \cup {q \in {p} : IsScope(t, o, q)}
    <3>1. 0 .. p = (0 .. p - 1) \cup {p}
      BY <2>1
    <3> QED
      BY <3>1
  <2>3. CASE ~IsScope(t, o, p)
    <3>1. Env(o, p) = Env(o, p - 1)
      BY <2>3 DEF Chained
    <3>2. {q \in 0 .. p : IsScope(t, o, q)} = {q \in 0 .. p - 1 : IsScope(t, o, q)}
      BY <2>2, <2>3
    <3>3. Upto(t, o, name, p) = Upto(t, o, name, p - 1)
      BY <3>2 DEF Upto
    <3> QED
      BY <1>6, <3>1, <3>3 DEF FoundUpto
  <2>4. CASE IsScope(t, o, p)
    <3>1. PICK m : m = a.environments[Env(o, p)].map[name]
      OBVIOUS
    <3>2. a.environments[Env(o, p)].parent = Env(o, p - 1)
      BY <2>4 DEF Chained
    <3>3. Found(climb, a, name, Env(o, p)) = IF m # Unbound THEN m ELSE Found(climb, a, name, Env(o, p - 1))
      BY <1>1, <1>2, <2>1, <3>1, <3>2
    <3>4. PICK A : A = Upto(t, o, name, p - 1)
      OBVIOUS
    <3>5. Upto(t, o, name, p) = A \cup {scope \in {Scope(o, p)} : Here(t, name, scope) # {}}
      <4>1. {q \in 0 .. p : IsScope(t, o, q)} = {q \in 0 .. p - 1 : IsScope(t, o, q)} \cup {p}
        BY <2>2, <2>4
      <4>2. {Scope(o, q) : q \in {r \in 0 .. p : IsScope(t, o, r)}} =
                {Scope(o, q) : q \in {r \in 0 .. p - 1 : IsScope(t, o, r)}} \cup {Scope(o, p)}
        BY <4>1
      <4> QED
        BY <3>4, <4>2 DEF Upto
    <3>6. CASE m = Unbound
      <4>1. Upto(t, o, name, p) = A
        BY <1>4, <2>1, <2>4, <3>1, <3>5, <3>6
      <4> QED
        BY <1>6, <3>3, <3>4, <3>6, <4>1 DEF FoundUpto
    <3>7. CASE m # Unbound
      <4>1. Upto(t, o, name, p) = A \cup {Scope(o, p)}
        BY <1>4, <2>1, <2>4, <3>1, <3>5, <3>7
      <4>2. Scope(o, p) \in 1 .. Len(t)
        BY <2>1, OpenFacts DEF Scope
      <4>3. ASSUME NEW scope \in A
            PROVE  scope \in 0 .. Len(t) /\ scope <= Scope(o, p)
        <5>1. PICK q \in 0 .. p - 1 : scope = Scope(o, q)
          BY <3>4 DEF Upto
        <5>2. q # 0 => q \in 1 .. Len(o) /\ q < p
          BY <2>1
        <5>3. q # 0 => o[q].at \in 1 .. Len(t) /\ o[q].at < o[p].at
          BY <5>2, OpenFacts
        <5> QED
          BY <1>0, <2>1, <4>2, <5>1, <5>3 DEF Scope
      <4>4. Largest(A \cup {Scope(o, p)}) = Scope(o, p)
        <5>1. A \cup {Scope(o, p)} \subseteq 0 .. Len(t)
          BY <1>0, <4>2, <4>3
        <5>2. \A scope \in A \cup {Scope(o, p)} : scope <= Scope(o, p)
          BY <1>0, <4>2, <4>3
        <5> QED
          BY <1>0, <5>1, <5>2, LargestIsThe
      <4>5. Stands(t, m, Here(t, name, Scope(o, p))) /\ m \in Mapped(a, View(t, o))
        BY <1>4, <2>1, <2>4, <3>1, <3>7
      <4> QED
        BY <3>3, <3>7, <4>1, <4>4, <4>5 DEF FoundUpto
    <3> QED
      BY <3>6, <3>7
  <2> QED
    BY <2>3, <2>4
<1> HIDE DEF Good
<1>7. ASSUME Wrong # {}
      PROVE  FALSE
  <2>0. Wrong \subseteq Nat
    OBVIOUS
  <2>1. PICK p \in Wrong : \A q \in Wrong : p <= q
    BY <1>7, <2>0, LeastNumber
  <2>2. p # 0
    BY <1>5, <2>1
  <2>3. p \in 0 .. Len(o) /\ ~Good(p)
    BY <2>1
  <2>4. p \in 1 .. Len(o) /\ p - 1 \in 0 .. Len(o) /\ ~(p <= p - 1)
    BY <1>0, <2>2, <2>3
  <2>5. Good(p - 1)
    BY <2>1, <2>4
  <2> QED
    BY <1>6, <2>3, <2>4, <2>5
<1>8. Good(Len(o))
  <2>1. Len(o) \in 0 .. Len(o)
    BY <1>0
  <2> QED
    BY <1>7, <2>1
<1> QED
  BY <1>8 DEF Good

(* A use refers to what its name means.                                    *)
Meaning(a, name, d) == IF d # Unbound THEN d
                       ELSE IF Global(name) \in DOMAIN a.symbols THEN Global(name) ELSE Unbound
Looked(a, env, name) == LET start == StartingPoint(a, env, name)
                        IN  IF start = 0 THEN Unbound ELSE a.environments[start].map[name]

LEMMA LookedUpIsDenoted ==
    ASSUME NEW t \in Seq(Events), NEW o, OpenFollows(t, o), NEW a, Chained(t, o, a), Parents(a), IsArena(a),
           MapsFollow(t, InEffect(t), View(t, o), a), GlobalsFollow(a), NEW name \in Names,
           NEW s, s = Looked(a, Env(o, Len(o)), name)
    PROVE  /\ \E d : Denotes(t, name, Len(t) + 1, d) /\ s = Meaning(a, name, d)
           /\ s \in {Unbound} \cup DOMAIN a.symbols
           /\ s \in InEffect(t) => s \in Mapped(a, View(t, o))
<1>0. Len(o) \in Nat /\ Len(t) \in Nat /\ Len(a.environments) \in Nat
  BY OpenFacts, ArenaFacts
<1>1. PICK env : env = Env(o, Len(o))
  OBVIOUS
<1>2. env \in 1 .. Len(a.environments) /\ env \in Nat
  <2>1. Len(o) \in 0 .. Len(o)
    BY <1>0
  <2>2. env \in 2 .. Len(a.environments)
    BY <1>1, <2>1 DEF Chained
  <2> QED
    BY <1>0, <2>2
<1>3. PICK climb : Climbs(climb, a, env, name) /\ StartingPoint(a, env, name) = climb[env]
  BY <1>2, StartingPointClimbs
<1>4. s = Found(climb, a, name, env)
  BY <1>1, <1>3 DEF Looked, Found
<1>5. FoundUpto(t, o, a, name, Len(o), s)
  BY <1>1, <1>3, <1>4, NameIsFound
<1>6. PICK C : C = Candidates(t, name, Len(t) + 1)
  OBVIOUS
<1>7. \A scope : Binders(t, name, scope, Len(t) + 1) = Here(t, name, scope)
  BY BindersAtEnd DEF Here
<1>8. C = Upto(t, o, name, Len(o))
  <2>1. Enclosing(t, Len(t) + 1, "block") = {o[p].at : p \in {q \in 1 .. Len(o) : t[o[q].at].what = "block"}}
    BY OpenFacts
  <2>2. {0} \cup Enclosing(t, Len(t) + 1, "block") =
            {Scope(o, q) : q \in {r \in 0 .. Len(o) : IsScope(t, o, r)}}
    <3>1. ASSUME NEW j \in {0} \cup Enclosing(t, Len(t) + 1, "block")
          PROVE  \E q \in 0 .. Len(o) : IsScope(t, o, q) /\ j = Scope(o, q)
      <4>1. CASE j = 0
        BY <1>0, <4>1 DEF IsScope, Scope
      <4>2. CASE j # 0
        <5>1. PICK p \in 1 .. Len(o) : t[o[p].at].what = "block" /\ j = o[p].at
          BY <2>1, <4>2
        <5>2. p \in 0 .. Len(o) /\ p # 0
          BY <1>0
        <5> QED
          BY <5>1, <5>2 DEF IsScope, Scope
      <4> QED
        BY <4>1, <4>2
    <3>2. ASSUME NEW q \in 0 .. Len(o), IsScope(t, o, q)
          PROVE  Scope(o, q) \in {0} \cup Enclosing(t, Len(t) + 1, "block")
      <4>1. q # 0 => q \in 1 .. Len(o)
        BY <1>0
      <4> QED
        BY <2>1, <3>2, <4>1 DEF IsScope, Scope
    <3> QED
      BY <3>1, <3>2
  <2>3. C = {scope \in {0} \cup Enclosing(t, Len(t) + 1, "block") : Here(t, name, scope) # {}}
    BY <1>6, <1>7 DEF Candidates
  <2> QED
    BY <2>2, <2>3 DEF Upto
<1>9. s \in {Unbound} \cup DOMAIN a.symbols
  <2>1. climb[env] \in 0 .. env
    BY <1>2, <1>3 DEF Climbs
  <2>2. climb[env] # 0 => climb[env] \in 1 .. Len(a.environments)
    BY <1>0, <1>2, <2>1
  <2> QED
    BY <1>4, <2>2 DEF Found, IsArena
<1>10. CASE C = {}
  <2>1. s = a.environments[Module].map[name]
    BY <1>5, <1>8, <1>10 DEF FoundUpto
  <2>2. s = Meaning(a, name, Unbound)
    BY <2>1 DEF GlobalsFollow, Meaning
  <2>3. Denotes(t, name, Len(t) + 1, Unbound)
    BY <1>6, <1>10 DEF Denotes
  <2>4. s \notin InEffect(t)
    <3>1. s \in InEffect(t) => s # Unbound /\ s # Global(name)
      BY BindingIsKey DEF InEffect
    <3> QED
      BY <2>2, <3>1 DEF Meaning
  <2> QED
    BY <1>9, <2>2, <2>3, <2>4
<1>11. CASE C # {}
  <2>1. Stands(t, s, Here(t, name, Largest(C))) /\ s \in Mapped(a, View(t, o))
    BY <1>5, <1>8, <1>11 DEF FoundUpto
  <2>2. Denotes(t, name, Len(t) + 1, s)
    BY <1>6, <1>7, <1>11, <2>1 DEF Denotes
  <2>3. s # Unbound
    <3>1. s \in Bindings(t)
      BY <2>1 DEF Stands, Here, Of, InEffect
    <3> QED
      BY <3>1, BindingIsKey
  <2>4. s = Meaning(a, name, s)
    BY <2>3 DEF Meaning
  <2> QED
    BY <1>9, <2>1, <2>2, <2>4
<1> QED
  BY <1>10, <1>11
-----------------------------------------------------------------------------
(* What the steps do to the stack and the arena.                           *)

Pop(o) == SubSeq(o, 1, Len(o) - 1)

LEMMA PopFacts ==
    ASSUME NEW S, NEW o \in Seq(S), o # <<>>
    PROVE  /\ Len(o) \in Nat /\ Len(o) > 0 /\ Len(o) \in 1 .. Len(o)
           /\ Pop(o) \in Seq(S) /\ Len(Pop(o)) = Len(o) - 1
           /\ \A p \in 1 .. Len(Pop(o)) : Pop(o)[p] = o[p] /\ p \in 1 .. Len(o)
<1>1. Len(o) \in Nat \ {0} /\ \A p \in 1 .. Len(o) : o[p] \in S
  BY EmptySeq, ElementOfSeq
<1>2. PICK k \in Nat : k = Len(o) - 1 /\ k + 1 = Len(o) /\ k - 1 + 1 = k
  BY <1>1
<1>3. PICK r : r = SubSeq(o, 1, k) /\ r = Pop(o)
  BY <1>2 DEF Pop
<1>4. \A p \in 1 .. k : o[p] \in S
  BY <1>1, <1>2
<1>5. /\ r \in Seq(S) /\ Len(r) = IF 1 <= k THEN k - 1 + 1 ELSE 0
      /\ \A p \in 1 .. k - 1 + 1 : r[p] = o[1 + p - 1]
  BY <1>3, <1>4, SubSeqProperties
<1>6. Len(r) = k
  BY <1>2, <1>5
<1>7. \A p \in 1 .. k : r[p] = o[p] /\ p \in 1 .. Len(o)
  BY <1>2, <1>5
<1> QED
  BY <1>1, <1>2, <1>3, <1>5, <1>6, <1>7

(* The last event of u opens a construct, ends one, or does neither.       *)
LEMMA OpenOfLonger ==
    ASSUME NEW t, NEW u, Longer(t, u), NEW o, OpenFollows(t, o)
    PROVE  /\ Follows(u, Len(t) + 1, Around(t)[Len(t)], Around(u)[Len(u)])
           /\ Len(Around(u)[Len(u)]) \in Nat
           /\ Around(u)[Len(t)] = Around(t)[Len(t)] /\ Len(t) + 1 - 1 = Len(t)
           /\ Len(t) \in Nat /\ Len(o) \in Nat /\ Len(u) = Len(t) + 1
<1>0. /\ t \in Seq(Events) /\ u \in Seq(Events) /\ Len(t) \in Nat /\ Len(u) = Len(t) + 1
      /\ Len(o) \in Nat /\ Len(t) + 1 - 1 = Len(t)
  BY OpenFacts DEF Longer
<1>1. Len(u) \in 1 .. Len(u) /\ Len(u) \in 0 .. Len(u) /\ Len(t) \in 0 .. Len(t)
  BY <1>0
<1>2. Follows(u, Len(u), Around(u)[Len(u) - 1], Around(u)[Len(u)]) /\ Len(Around(u)[Len(u)]) \in Nat
  BY <1>0, <1>1, AroundByEvents, AroundFacts
<1>3. Around(u)[Len(t)] = Around(t)[Len(t)]
  BY <1>1, AroundOfLonger
<1> QED
  BY <1>0, <1>2, <1>3

(* The stack is what the text has open when a construct begins,            *)
LEMMA OpenPushed ==
    ASSUME NEW t, NEW u, Longer(t, u), NEW o, OpenFollows(t, o),
           u[Len(t) + 1].what # "end", Opens(u, Len(t) + 1, Around(t)[Len(t)]),
           NEW frame \in Frames, frame.at = Len(t) + 1
    PROVE  OpenFollows(u, Append(o, frame))
<1>1. PICK before, after : before = Around(t)[Len(t)] /\ after = Around(u)[Len(u)]
  OBVIOUS
<1>2. /\ Len(after) = Len(before) + 1 /\ after[Len(after)] = Len(t) + 1
      /\ \A p \in 1 .. Len(before) : after[p] = before[p]
  BY <1>1, OpenOfLonger DEF Follows
<1>3. /\ o \in Seq(Frames) /\ Len(o) \in Nat /\ Len(o) = Len(before)
      /\ \A p \in 1 .. Len(o) : o[p].at = before[p]
  BY <1>1, OpenOfLonger DEF OpenFollows
<1>4. PICK q : q = Append(o, frame)
  OBVIOUS
<1>5. /\ q \in Seq(Frames) /\ Len(q) = Len(o) + 1 /\ q[Len(o) + 1] = frame
      /\ \A p \in 1 .. Len(o) : q[p] = o[p]
  BY <1>3, <1>4, AppendProperties
<1>6. ASSUME NEW p \in 1 .. Len(q)
      PROVE  q[p].at = after[p]
  <2>1. p \in 1 .. Len(o) \/ p = Len(o) + 1
    BY <1>3, <1>5
  <2> QED
    BY <1>2, <1>3, <1>5, <2>1
<1> QED
  BY <1>1, <1>2, <1>3, <1>4, <1>5, <1>6 DEF OpenFollows

(* when one ends,                                                          *)
LEMMA OpenPopped ==
    ASSUME NEW t, NEW u, Longer(t, u), NEW o, OpenFollows(t, o), u[Len(t) + 1].what = "end", o # <<>>
    PROVE  OpenFollows(u, Pop(o))
<1>1. PICK before, after : before = Around(t)[Len(t)] /\ after = Around(u)[Len(u)]
  OBVIOUS
<1>2. PICK q : q = Pop(o)
  OBVIOUS
<1>3. o \in Seq(Frames) /\ Len(o) = Len(before) /\ \A p \in 1 .. Len(o) : o[p].at = before[p]
  BY <1>1 DEF OpenFollows
<1>4. /\ Len(o) \in Nat /\ Len(o) > 0 /\ q \in Seq(Frames) /\ Len(q) = Len(o) - 1
      /\ \A p \in 1 .. Len(q) : q[p] = o[p] /\ p \in 1 .. Len(o)
  BY <1>2, <1>3, PopFacts
<1>5. Len(after) = Len(before) - 1 /\ \A p \in 1 .. Len(after) : after[p] = before[p]
  BY <1>1, <1>3, <1>4, OpenOfLonger DEF Follows
<1> QED
  BY <1>1, <1>2, <1>3, <1>4, <1>5 DEF OpenFollows

(* and when an event does neither.                                         *)
LEMMA OpenKept ==
    ASSUME NEW t, NEW u, Longer(t, u), NEW o, OpenFollows(t, o),
           u[Len(t) + 1].what # "end", ~Opens(u, Len(t) + 1, Around(t)[Len(t)])
    PROVE  OpenFollows(u, o)
<1>1. Around(u)[Len(u)] = Around(t)[Len(t)]
  BY OpenOfLonger DEF Follows
<1> QED
  BY <1>1 DEF OpenFollows

(* Scopes in view, and their environments, when the stack changes.         *)
LEMMA ViewOfLonger ==
    ASSUME NEW t, NEW u, Longer(t, u), NEW o, OpenFollows(t, o), NEW a, NEW b, Keeps(a, b)
    PROVE  /\ Chained(t, o, a) => Chained(u, o, b)
           /\ View(u, o) = View(t, o)
           /\ \A p \in 0 .. Len(o) : IsScope(u, o, p) <=> IsScope(t, o, p)
<1>0. t \in Seq(Events) /\ Len(o) \in Nat
  BY OpenFacts DEF Longer
<1>1. ASSUME NEW p \in 0 .. Len(o)
      PROVE  IsScope(u, o, p) <=> IsScope(t, o, p)
  <2>1. p # 0 => p \in 1 .. Len(o)
    BY <1>0
  <2>2. p # 0 => u[o[p].at] = t[o[p].at]
    BY <1>0, <2>1, OpenFacts DEF Longer
  <2> QED
    BY <2>2 DEF IsScope
<1>2. View(u, o) = View(t, o)
  <2>1. {q \in 0 .. Len(o) : IsScope(u, o, q)} = {q \in 0 .. Len(o) : IsScope(t, o, q)}
    BY <1>1
  <2> QED
    BY <2>1 DEF View
<1>3. ASSUME Chained(t, o, a)
      PROVE  Chained(u, o, b)
  <2>1. ASSUME NEW p \in 1 .. Len(o)
        PROVE  IF IsScope(u, o, p) THEN b.environments[Env(o, p)].parent = Env(o, p - 1)
               ELSE Env(o, p) = Env(o, p - 1)
    <3>1. p \in 0 .. Len(o)
      BY <1>0
    <3>2. Env(o, p) \in 1 .. Len(a.environments)
      BY <1>3, <3>1 DEF Chained
    <3> QED
      BY <1>1, <1>3, <3>1, <3>2 DEF Chained, Keeps
  <2>2. ASSUME NEW p \in 0 .. Len(o), NEW q \in 0 .. Len(o), p < q
        PROVE  /\ Env(o, p) <= Env(o, q)
               /\ Env(o, p) = Env(o, q) <=> \A r \in p + 1 .. q : ~IsScope(u, o, r)
    <3>1. \A r \in p + 1 .. q : r \in 0 .. Len(o)
      BY <1>0
    <3> QED
      BY <1>1, <1>3, <2>2, <3>1 DEF Chained
  <2>3. \A p \in 0 .. Len(o) : Env(o, p) \in 2 .. Len(b.environments)
    BY <1>3 DEF Chained, Keeps
  <2> QED
    BY <2>1, <2>2, <2>3 DEF Chained
<1> QED
  BY <1>1, <1>2, <1>3

(* A prefix of a chain is a chain. *)
LEMMA ChainPopped ==
    ASSUME NEW t \in Seq(Events), NEW o, OpenFollows(t, o), o # <<>>, NEW a, Chained(t, o, a)
    PROVE  /\ Chained(t, Pop(o), a)
           /\ ~IsScope(t, o, Len(o)) => View(t, Pop(o)) = View(t, o)
           /\ IsScope(t, o, Len(o)) =>
                  View(t, o) = View(t, Pop(o)) \cup {<<Scope(o, Len(o)), Env(o, Len(o))>>}
           /\ Env(Pop(o), Len(Pop(o))) = Env(o, Len(o) - 1)
<1>1. PICK q : q = Pop(o)
  OBVIOUS
<1>2. /\ Len(o) \in Nat /\ Len(o) > 0 /\ Len(q) = Len(o) - 1
      /\ \A p \in 1 .. Len(q) : q[p] = o[p]
  BY <1>1, PopFacts DEF OpenFollows
<1>3. Len(q) \in Nat /\ Len(o) = Len(q) + 1
  BY <1>2
<1>4. ASSUME NEW p \in 0 .. Len(q)
      PROVE  /\ Env(q, p) = Env(o, p) /\ Scope(q, p) = Scope(o, p) /\ IsScope(t, q, p) = IsScope(t, o, p)
             /\ p \in 0 .. Len(o)
  <2>1. p = 0 \/ p \in 1 .. Len(q)
    BY <1>3
  <2>2. p # 0 => q[p] = o[p]
    BY <1>2, <2>1
  <2>3. p \in 0 .. Len(o)
    BY <1>3
  <2> QED
    BY <2>2, <2>3 DEF Env, Scope, IsScope
<1>5. Chained(t, q, a)
  <2>1. ASSUME NEW p \in 1 .. Len(q)
        PROVE  IF IsScope(t, q, p) THEN a.environments[Env(q, p)].parent = Env(q, p - 1)
               ELSE Env(q, p) = Env(q, p - 1)
    <3>1. p \in 0 .. Len(q) /\ p - 1 \in 0 .. Len(q) /\ p \in 1 .. Len(o)
      BY <1>3
    <3>2. Env(q, p) = Env(o, p) /\ Env(q, p - 1) = Env(o, p - 1) /\ IsScope(t, q, p) = IsScope(t, o, p)
      BY <1>4, <3>1
    <3> QED
      BY <3>1, <3>2 DEF Chained
  <2>2. ASSUME NEW p \in 0 .. Len(q), NEW r \in 0 .. Len(q), p < r
        PROVE  /\ Env(q, p) <= Env(q, r)
               /\ Env(q, p) = Env(q, r) <=> \A k \in p + 1 .. r : ~IsScope(t, q, k)
    <3>1. \A k \in p + 1 .. r : k \in 0 .. Len(q)
      BY <1>3
    <3> QED
      BY <1>4, <2>2, <3>1 DEF Chained
  <2>3. \A p \in 0 .. Len(q) : Env(q, p) \in 2 .. Len(a.environments)
    BY <1>4 DEF Chained
  <2> QED
    BY <2>1, <2>2, <2>3 DEF Chained
<1>6. {p \in 0 .. Len(o) : IsScope(t, o, p)} =
          {p \in 0 .. Len(q) : IsScope(t, q, p)} \cup {p \in {Len(o)} : IsScope(t, o, p)}
  <2>1. 0 .. Len(o) = (0 .. Len(q)) \cup {Len(o)}
    BY <1>3
  <2> QED
    BY <1>4, <2>1
<1>7. {<<Scope(o, p), Env(o, p)>> : p \in {k \in 0 .. Len(q) : IsScope(t, q, k)}} = View(t, q)
  BY <1>4 DEF View
<1>8. View(t, o) = View(t, q) \cup {<<Scope(o, p), Env(o, p)>> : p \in {k \in {Len(o)} : IsScope(t, o, k)}}
  BY <1>6, <1>7 DEF View
<1>9. Env(q, Len(q)) = Env(o, Len(o) - 1)
  <2>1. Len(q) \in 0 .. Len(q) /\ Len(q) = Len(o) - 1
    BY <1>2, <1>3
  <2> QED
    BY <1>4, <2>1
<1>10. ~IsScope(t, o, Len(o)) => View(t, q) = View(t, o)
  BY <1>8
<1>11. IsScope(t, o, Len(o)) => View(t, o) = View(t, q) \cup {<<Scope(o, Len(o)), Env(o, Len(o))>>}
  BY <1>8
<1> QED
  BY <1>1, <1>5, <1>9, <1>10, <1>11

(* A construct is entered: a block has a new environment, the others keep  *)
(* theirs.                                                                 *)
Appended(o, q, frame) ==
    /\ Len(q) = Len(o) + 1 /\ q[Len(q)] = frame /\ Len(o) \in Nat
    /\ \A p \in 1 .. Len(o) : q[p] = o[p]
Grown(a, b) ==
    /\ Len(b.environments) \in Nat /\ Len(a.environments) <= Len(b.environments)
    /\ \A e \in 1 .. Len(a.environments) : b.environments[e].parent = a.environments[e].parent
Pushes(u, o, a, b, frame) ==
    \/ u[frame.at].what # "block" /\ frame.env = Env(o, Len(o))
    \/ /\ u[frame.at].what = "block" /\ frame.env = Len(a.environments) + 1
       /\ Len(b.environments) = Len(a.environments) + 1
       /\ b.environments[frame.env].parent = Env(o, Len(o))
Widened(t, o, u, at, env) == View(t, o) \cup {<<at, env>> : k \in {j \in {1} : u[at].what = "block"}}
LEMMA ChainPushed ==
    ASSUME NEW t \in Seq(Events), NEW o, OpenFollows(t, o), NEW a, IsArena(a), Chained(t, o, a),
           NEW b, NEW u, NEW frame \in Frames, NEW q, Appended(o, q, frame),
           \A p \in 0 .. Len(o) : IsScope(u, o, p) <=> IsScope(t, o, p),
           Grown(a, b), Pushes(u, o, a, b, frame)
    PROVE  /\ Chained(u, q, b)
           /\ View(u, q) = Widened(t, o, u, frame.at, frame.env)
<1>0. /\ Len(b.environments) \in Nat /\ Len(a.environments) <= Len(b.environments)
      /\ \A e \in 1 .. Len(a.environments) : b.environments[e].parent = a.environments[e].parent
      /\ \/ u[frame.at].what # "block" /\ frame.env = Env(o, Len(o))
         \/ /\ u[frame.at].what = "block" /\ frame.env = Len(a.environments) + 1
            /\ Len(b.environments) = Len(a.environments) + 1
            /\ b.environments[frame.env].parent = Env(o, Len(o))
  BY DEF Grown, Pushes
<1> USE <1>0
<1>1. /\ Len(o) \in Nat /\ Len(q) = Len(o) + 1 /\ Len(a.environments) \in Nat
      /\ q[Len(o) + 1] = frame /\ \A p \in 1 .. Len(o) : q[p] = o[p]
  BY ArenaFacts DEF Appended
<1>2. PICK L \in Nat : L = Len(o) /\ L + 1 = Len(q) /\ L + 1 # 0 /\ L + 1 - 1 = L
  BY <1>1
<1>3. ASSUME NEW p \in 0 .. L
      PROVE  Env(q, p) = Env(o, p) /\ Scope(q, p) = Scope(o, p) /\ IsScope(u, q, p) = IsScope(t, o, p)
  <2>1. p = 0 \/ p \in 1 .. Len(o)
    BY <1>2
  <2>2. p # 0 => q[p] = o[p]
    BY <1>1, <2>1
  <2>3. IsScope(u, o, p) <=> IsScope(t, o, p)
    BY <1>2
  <2>4. IsScope(u, q, p) = IsScope(u, o, p)
    BY <2>2 DEF IsScope
  <2>5. IsScope(u, o, p) = IsScope(t, o, p)
    BY <2>3 DEF IsScope
  <2> QED
    BY <2>2, <2>4, <2>5 DEF Env, Scope
<1>4. /\ Env(q, L + 1) = frame.env /\ Scope(q, L + 1) = frame.at
      /\ IsScope(u, q, L + 1) <=> u[frame.at].what = "block"
  BY <1>1, <1>2 DEF Env, Scope, IsScope
<1>5. \A p \in 0 .. L : Env(o, p) \in 2 .. Len(a.environments) /\ Env(o, p) <= Env(o, L)
  <2>1. ASSUME NEW p \in 0 .. L
        PROVE  Env(o, p) \in 2 .. Len(a.environments) /\ Env(o, p) <= Env(o, L)
    <3>1. p = L \/ p < L
      OBVIOUS
    <3>2. Env(o, p) \in 2 .. Len(a.environments) /\ L \in 0 .. Len(o)
      BY <1>2 DEF Chained
    <3> QED
      BY <1>1, <1>2, <3>1, <3>2 DEF Chained
  <2> QED
    BY <2>1
<1>6. /\ u[frame.at].what # "block" => frame.env = Env(o, L)
      /\ u[frame.at].what = "block" => frame.env = Len(a.environments) + 1
      /\ frame.env \in 2 .. Len(b.environments) /\ frame.env \in Nat
  <2>1. Env(o, L) \in 2 .. Len(a.environments)
    BY <1>5
  <2> QED
    BY <1>1, <1>2, <2>1
<1>7. ASSUME NEW p \in 0 .. L + 1
      PROVE  p \in 0 .. L \/ p = L + 1
  OBVIOUS
<1>8. \A p \in 0 .. L + 1 : Env(q, p) \in 2 .. Len(b.environments)
  <2>1. ASSUME NEW p \in 0 .. L
        PROVE  Env(q, p) \in 2 .. Len(b.environments)
    BY <1>1, <1>3, <1>5
  <2> QED
    BY <1>4, <1>6, <1>7, <2>1
<1>9. ASSUME NEW p \in 1 .. L + 1
      PROVE  IF IsScope(u, q, p) THEN b.environments[Env(q, p)].parent = Env(q, p - 1)
             ELSE Env(q, p) = Env(q, p - 1)
  <2>1. CASE p \in 1 .. L
    <3>1. p \in 0 .. L /\ p - 1 \in 0 .. L /\ p \in 1 .. Len(o)
      BY <1>2, <2>1
    <3>2. Env(o, p) \in 1 .. Len(a.environments)
      BY <1>1, <1>5, <3>1
    <3>3. Env(q, p) = Env(o, p) /\ Env(q, p - 1) = Env(o, p - 1) /\ IsScope(u, q, p) = IsScope(t, o, p)
      BY <1>3, <3>1
    <3> QED
      BY <3>1, <3>2, <3>3 DEF Chained
  <2>2. CASE p = L + 1
    <3>1. Env(q, p - 1) = Env(o, L)
      BY <1>2, <1>3, <2>2
    <3> QED
      BY <1>2, <1>4, <1>6, <2>2, <3>1
  <2> QED
    BY <2>1, <2>2
<1>10. ASSUME NEW p \in 0 .. L + 1, NEW r \in 0 .. L + 1, p < r
       PROVE  /\ Env(q, p) <= Env(q, r)
              /\ Env(q, p) = Env(q, r) <=> \A k \in p + 1 .. r : ~IsScope(u, q, k)
  <2>1. CASE r \in 0 .. L
    <3>1. p \in 0 .. L /\ \A k \in p + 1 .. r : k \in 0 .. L
      BY <1>10, <2>1
    <3>2. p \in 0 .. Len(o) /\ r \in 0 .. Len(o)
      BY <1>2, <2>1, <3>1
    <3>3. /\ Env(o, p) <= Env(o, r)
          /\ Env(o, p) = Env(o, r) <=> \A k \in p + 1 .. r : ~IsScope(t, o, k)
      BY <1>10, <3>2 DEF Chained
    <3> QED
      BY <1>3, <2>1, <3>1, <3>3
  <2>2. CASE r = L + 1
    <3>1. p \in 0 .. L
      BY <1>10, <2>2
    <3>2. Env(q, p) = Env(o, p) /\ Env(o, p) <= Env(o, L) /\ Env(o, L) \in 2 .. Len(a.environments)
          /\ Env(o, p) \in Nat
      <4>1. Env(o, p) \in 2 .. Len(a.environments) /\ L \in 0 .. L
        BY <1>5, <3>1
      <4> QED
        BY <1>1, <1>3, <1>5, <3>1, <4>1
    <3>3. Env(o, p) = Env(o, L) <=> \A k \in p + 1 .. L : ~IsScope(t, o, k)
      <4>1. CASE p = L
        BY <4>1
      <4>2. CASE p # L
        <5>1. p < L /\ p \in 0 .. Len(o) /\ L \in 0 .. Len(o)
          BY <1>2, <3>1, <4>2
        <5> QED
          BY <5>1 DEF Chained
      <4> QED
        BY <4>1, <4>2
    <3>4. (\A k \in p + 1 .. r : ~IsScope(u, q, k)) <=>
              (\A k \in p + 1 .. L : ~IsScope(t, o, k)) /\ u[frame.at].what # "block"
      <4>1. \A k \in p + 1 .. r : (k \in p + 1 .. L /\ k \in 0 .. L) \/ k = L + 1
        BY <2>2, <3>1
      <4>2. \A k \in p + 1 .. L : k \in p + 1 .. r /\ k \in 0 .. L
        BY <2>2, <3>1
      <4>3. L + 1 \in p + 1 .. r
        BY <2>2, <3>1
      <4> QED
        BY <1>3, <1>4, <4>1, <4>2, <4>3
    <3>5. CASE u[frame.at].what # "block"
      BY <1>4, <1>6, <2>2, <3>2, <3>3, <3>4, <3>5
    <3>6. CASE u[frame.at].what = "block"
      <4>1. Env(q, r) = Len(a.environments) + 1 /\ Env(q, p) <= Env(q, r) /\ Env(q, p) # Env(q, r)
        <5>1. Env(q, r) = Len(a.environments) + 1
          BY <1>4, <1>6, <2>2, <3>6
        <5>2. Env(q, p) \in Nat /\ Env(q, p) <= Len(a.environments)
          BY <1>1, <3>2
        <5> QED
          BY <1>1, <5>1, <5>2
      <4> QED
        BY <3>4, <3>6, <4>1
    <3> QED
      BY <3>5, <3>6
  <2> QED
    BY <1>7, <2>1, <2>2
<1>11. Chained(u, q, b)
  BY <1>2, <1>8, <1>9, <1>10 DEF Chained
<1>12. View(u, q) = View(t, o) \cup {<<frame.at, frame.env>> : k \in {j \in {1} : u[frame.at].what = "block"}}
  <2>1. ASSUME NEW v \in View(u, q)
        PROVE  v \in View(t, o) \/ (v = <<frame.at, frame.env>> /\ u[frame.at].what = "block")
    <3>1. PICK p \in 0 .. L + 1 : IsScope(u, q, p) /\ v = <<Scope(q, p), Env(q, p)>>
      BY <1>2 DEF View
    <3>2. CASE p \in 0 .. L
      <4>1. IsScope(t, o, p) /\ v = <<Scope(o, p), Env(o, p)>> /\ p \in 0 .. Len(o)
        BY <1>2, <1>3, <3>1, <3>2
      <4>2. p \in {r \in 0 .. Len(o) : IsScope(t, o, r)}
        BY <4>1, Zenon
      <4> QED
        BY <4>1, <4>2, Zenon DEF View
    <3>3. CASE p = L + 1
      BY <1>4, <3>1, <3>3
    <3> QED
      BY <1>7, <3>2, <3>3
  <2>2. ASSUME NEW v \in View(t, o)
        PROVE  v \in View(u, q)
    <3>1. PICK p \in 0 .. Len(o) : IsScope(t, o, p) /\ v = <<Scope(o, p), Env(o, p)>>
      BY DEF View
    <3>2. p \in 0 .. L /\ p \in 0 .. Len(q)
      BY <1>2
    <3>3. IsScope(u, q, p) /\ v = <<Scope(q, p), Env(q, p)>>
      BY <1>3, <3>1, <3>2
    <3> QED
      BY <3>2, <3>3 DEF View
  <2>3. u[frame.at].what = "block" => <<frame.at, frame.env>> \in View(u, q)
    <3>1. L + 1 \in 0 .. Len(q)
      BY <1>2
    <3> QED
      BY <1>4, <3>1 DEF View
  <2> QED
    BY <2>1, <2>2, <2>3
<1> QED
  BY <1>11, <1>12 DEF Widened

(* A scope is opened: nothing is bound in it yet.                          *)
LEMMA NewScopeIs ==
    ASSUME NEW a, IsArena(a), NEW parent \in Nat, NEW b, b = NewScope(a, parent)
    PROVE  /\ IsArena(b) /\ b.symbols = a.symbols
           /\ Len(b.environments) = Len(a.environments) + 1
           /\ \A e \in 1 .. Len(a.environments) : b.environments[e] = a.environments[e]
           /\ b.environments[Len(a.environments) + 1] = [map |-> NoNames, parent |-> parent]
<1> DEFINE N == Len(a.environments)
           env == [map |-> NoNames, parent |-> parent]
<1>1. b = [environments |-> Append(a.environments, env), symbols |-> a.symbols]
  BY DEF NewScope, IsArena
<1>2. a.environments \in Seq(Environments) /\ N \in Nat
  BY ArenaFacts DEF IsArena
<1>3. env \in Environments
  <2>1. NoNames \in [Names -> {Unbound} \cup Keys]
    BY DEF NoNames
  <2> QED
    BY <2>1 DEF Environments
<1>4. /\ b.environments \in Seq(Environments) /\ Len(b.environments) = N + 1
      /\ \A e \in 1 .. N : b.environments[e] = a.environments[e]
      /\ b.environments[N + 1] = env
  <2>1. b.environments = Append(a.environments, env)
    BY <1>1
  <2>2. /\ Append(a.environments, env) \in Seq(Environments) /\ Len(Append(a.environments, env)) = N + 1
        /\ \A e \in 1 .. N : Append(a.environments, env)[e] = a.environments[e]
        /\ Append(a.environments, env)[N + 1] = env
    <3> HIDE DEF env
    <3> QED
      BY <1>2, <1>3, AppendProperties
  <2> HIDE DEF env
  <2> QED
    BY <2>1, <2>2
<1>5. b.symbols = a.symbols
  BY <1>1
<1>6. ASSUME NEW e \in 1 .. Len(b.environments), NEW n \in Names
      PROVE  b.environments[e].map[n] \in {Unbound} \cup DOMAIN b.symbols
  <2>1. CASE e \in 1 .. N
    BY <1>4, <1>5, <2>1 DEF IsArena
  <2>2. CASE e = N + 1
    BY <1>4, <2>2 DEF NoNames
  <2> QED
    BY <1>2, <1>4, <2>1, <2>2
<1>7. b = [environments |-> b.environments, symbols |-> b.symbols]
  BY <1>1
<1> QED
  BY <1>4, <1>5, <1>6, <1>7 DEF IsArena

LEMMA ScopeOpened ==
    ASSUME NEW t, NEW D, NEW V, NEW a, NEW U, NEW f, Follow(t, D, V, a, U, f), IsView(V, a), Parents(a),
           NEW at, \A s \in D : ScopeOf(t, s) # at,
           NEW parent \in Nat, NEW b, b = NewScope(a, parent), NEW w, w = <<at, Len(a.environments) + 1>>
    PROVE  Follow(t, D, V \cup {w}, b, U, f)
<1> DEFINE N == Len(a.environments)
<1>1. /\ IsArena(b) /\ b.symbols = a.symbols
      /\ Len(b.environments) = N + 1
      /\ \A e \in 1 .. N : b.environments[e] = a.environments[e]
      /\ b.environments[N + 1] = [map |-> NoNames, parent |-> parent]
  BY NewScopeIs DEF Follow
<1>2. N \in Nat /\ N >= 2
  BY ArenaFacts DEF Follow, Parents
<1>3. \A v \in V : v[2] \in 1 .. N
  BY <1>2 DEF IsView
<1>4. \A n \in Names : b.environments[w[2]].map[n] = Unbound
  BY <1>1 DEF NoNames
<1>5. MapsFollow(t, D, V \cup {w}, b)
  <2>1. ASSUME NEW v \in V, NEW n \in Names
        PROVE  Shows(t, b.environments[v[2]].map[n], Of(t, D, n, v[1]))
    <3>1. b.environments[v[2]] = a.environments[v[2]]
      BY <1>1, <1>3
    <3> QED
      BY <3>1 DEF Follow, MapsFollow
  <2>2. ASSUME NEW n \in Names
        PROVE  Shows(t, b.environments[w[2]].map[n], Of(t, D, n, w[1]))
    <3>1. Of(t, D, n, w[1]) = {}
      BY DEF Of
    <3> QED
      BY <1>4, <3>1 DEF Shows
  <2> QED
    BY <2>1, <2>2 DEF MapsFollow
<1>6. GlobalsFollow(b)
  <2>1. b.environments[Module] = a.environments[Module]
    BY <1>1, <1>2 DEF Module
  <2> QED
    BY <1>1, <2>1 DEF Follow, GlobalsFollow
<1>7. ASSUME NEW s \in D
      PROVE  s \in Mapped(b, V \cup {w}) <=> s \in Mapped(a, V)
  <2>1. s # Unbound
    BY ArenaFacts DEF Follow, SymbolsFollow
  <2>2. \A v \in V, n \in Names : b.environments[v[2]].map[n] = a.environments[v[2]].map[n]
    BY <1>1, <1>3
  <2>3. s \in Mapped(b, V \cup {w}) <=> \E v \in V \cup {w}, n \in Names : s = b.environments[v[2]].map[n]
    BY DEF Mapped
  <2>4. s \in Mapped(a, V) <=> \E v \in V, n \in Names : s = a.environments[v[2]].map[n]
    BY DEF Mapped
  <2> QED
    BY <1>4, <2>1, <2>2, <2>3, <2>4
<1>8. WarningsFollow(t, D, b, Mapped(b, V \cup {w}))
  BY <1>1, <1>7 DEF WarningsFollow, Follow
<1> QED
  BY <1>1, <1>5, <1>6, <1>8 DEF Follow, SymbolsFollow, UsesFollow

Maps(a, env, s) == \E n \in Names : s = a.environments[env].map[n]

(* The symbols of an environment are reported, if they are unused.         *)
LEMMA ReportUnusedIs ==
    ASSUME NEW a, IsArena(a), NEW env \in 1 .. Len(a.environments), NEW b, b = ReportUnused(a, env)
    PROVE  /\ IsArena(b) /\ b.environments = a.environments /\ DOMAIN b.symbols = DOMAIN a.symbols
           /\ \A s \in DOMAIN a.symbols : b.symbols[s] =
                  IF Maps(a, env, s) THEN Reported(a.symbols[s])
                  ELSE a.symbols[s]
<1> DEFINE bound == {a.environments[env].map[n] : n \in Names}
           new == [s \in DOMAIN a.symbols |-> IF s \in bound /\ IsUnused(a.symbols[s])
                       THEN [a.symbols[s] EXCEPT !.warned = @ + 1] ELSE a.symbols[s]]
<1>1. b = [environments |-> a.environments, symbols |-> new]
  <2>1. b = [a EXCEPT !.symbols = new]
    BY DEF ReportUnused
  <2>2. a = [environments |-> a.environments, symbols |-> a.symbols]
    BY DEF IsArena
  <2> HIDE DEF new
  <2> QED
    BY <2>1, <2>2
<1>2. b.environments = a.environments /\ b.symbols = new /\ DOMAIN b.symbols = DOMAIN a.symbols
      /\ b = [environments |-> b.environments, symbols |-> b.symbols]
  BY <1>1
<1>3. ASSUME NEW s \in DOMAIN a.symbols
      PROVE  b.symbols[s] = IF Maps(a, env, s) THEN Reported(a.symbols[s]) ELSE a.symbols[s]
  BY <1>2 DEF Reported, Maps
<1>4. \A s \in DOMAIN a.symbols : b.symbols[s] \in Entries
  <2>1. \A s \in DOMAIN a.symbols : a.symbols[s] \in Entries
    BY ArenaFacts
  <2> QED
    BY <1>3, <2>1, ReportedFacts
<1>5. b.symbols \in [DOMAIN b.symbols -> Entries]
  BY <1>2, <1>4
<1>6. IsArena(b)
  BY <1>2, <1>5 DEF IsArena
<1> QED
  BY <1>2, <1>3, <1>6

(* A scope is closed: what it shows is what is not reported yet.           *)
LEMMA ScopeClosed ==
    ASSUME NEW t \in Seq(Events), NEW D, D \subseteq Bindings(t),
           \A m \in D, r \in Bindings(t) : Effect(t, r[1]) < Effect(t, m[1]) => r \in D,
           NEW V, NEW w, w \notin V, NEW a, NEW U, NEW f, IsView(V \cup {w}, a),
           Follow(t, D, V \cup {w}, a, U, f),
           Len(a.environments) >= 2,
           NEW b, b = ReportUnused(a, w[2])
    PROVE  Follow(t, D, V, b, U, f) /\ Keeps(a, b)
<1>1. IsArena(a) /\ Len(a.environments) \in Nat
  BY ArenaFacts DEF Follow
<1>2. w[2] \in 1 .. Len(a.environments)
  BY <1>1 DEF IsView
<1>3. /\ IsArena(b) /\ b.environments = a.environments /\ DOMAIN b.symbols = DOMAIN a.symbols
      /\ \A s \in DOMAIN a.symbols : b.symbols[s] =
             IF Maps(a, w[2], s) THEN Reported(a.symbols[s]) ELSE a.symbols[s]
  BY <1>1, <1>2, ReportUnusedIs
<1>4. ASSUME NEW s \in DOMAIN a.symbols
      PROVE  /\ b.symbols[s].name = a.symbols[s].name /\ b.symbols[s].kind = a.symbols[s].kind
             /\ b.symbols[s].uses = a.symbols[s].uses /\ IsUnused(b.symbols[s]) = IsUnused(a.symbols[s])
             /\ b.symbols[s].warned = IF Maps(a, w[2], s) /\ IsUnused(a.symbols[s])
                                      THEN a.symbols[s].warned + 1 ELSE a.symbols[s].warned
  <2>1. a.symbols[s] \in Entries
    BY <1>1, ArenaFacts
  <2>2. CASE Maps(a, w[2], s)
    BY <1>3, <2>1, <2>2, ReportedFacts
  <2>3. CASE ~Maps(a, w[2], s)
    BY <1>3, <2>3
  <2> QED
    BY <2>2, <2>3
<1>5. MapsFollow(t, D, V, b) /\ GlobalsFollow(b)
  BY <1>3 DEF Follow, MapsFollow, GlobalsFollow
<1>6. SymbolsFollow(t, D, b) /\ UsesFollow(b, U, f)
  <2>1. SymbolsFollow(t, D, b)
    BY <1>3, <1>4 DEF Follow, SymbolsFollow
  <2>2. UsesFollow(b, U, f)
    BY <1>3, <1>4 DEF Follow, UsesFollow
  <2> QED
    BY <2>1, <2>2
<1>7. ASSUME NEW s \in D, NEW v \in V \cup {w}, NEW n \in Names, s = a.environments[v[2]].map[n]
      PROVE  ScopeOf(t, s) = v[1] /\ ~Hidden(t, s)
  <2>1. s # Unbound
    BY <1>1, ArenaFacts DEF Follow, SymbolsFollow
  <2>2. Shows(t, s, Of(t, D, n, v[1]))
    BY <1>7 DEF Follow, MapsFollow
  <2>3. Stands(t, s, Of(t, D, n, v[1]))
    BY <2>1, <2>2 DEF Shows
  <2>4. s \in Of(t, D, n, v[1])
    BY <2>3 DEF Stands
  <2>5. ~Hidden(t, s)
    BY <2>3, StandingIsNotHidden
  <2> QED
    BY <2>4, <2>5 DEF Of
<1>8. WarningsFollow(t, D, b, Mapped(b, V))
  <2>1. ASSUME NEW s \in D
        PROVE  b.symbols[s].warned =
                   IF ~Hidden(t, s) /\ s \notin Mapped(b, V) /\ IsUnused(b.symbols[s]) THEN 1 ELSE 0
    <3>1. s \in DOMAIN a.symbols
      BY DEF Follow, SymbolsFollow
    <3>2. a.symbols[s].warned =
              IF ~Hidden(t, s) /\ s \notin Mapped(a, V \cup {w}) /\ IsUnused(a.symbols[s]) THEN 1 ELSE 0
      BY DEF Follow, WarningsFollow
    <3>3. s \in Mapped(a, V \cup {w}) <=> s \in Mapped(b, V) \/ Maps(a, w[2], s)
      BY <1>3 DEF Mapped, Maps
    <3>4. CASE Maps(a, w[2], s)
      <4>1. ~Hidden(t, s) /\ ScopeOf(t, s) = w[1]
        BY <1>7, <3>4 DEF Maps
      <4>2. s \notin Mapped(b, V)
        <5>1. ASSUME NEW v \in V, NEW n \in Names, s = a.environments[v[2]].map[n]
              PROVE  FALSE
          <6>1. v[1] = w[1]
            BY <1>7, <4>1, <5>1
          <6> QED
            BY <6>1 DEF IsView
        <5> QED
          BY <1>3, <5>1 DEF Mapped
      <4> QED
        BY <1>4, <3>1, <3>2, <3>3, <3>4, <4>1, <4>2
    <3>5. CASE ~Maps(a, w[2], s)
      <4> QED
        BY <1>4, <3>1, <3>2, <3>3, <3>5
    <3> QED
      BY <3>4, <3>5
  <2> QED
    BY <2>1 DEF WarningsFollow
<1>9. Keeps(a, b)
  BY <1>3 DEF Keeps, SameGlobals
<1> QED
  BY <1>3, <1>5, <1>6, <1>8, <1>9 DEF Follow

(* One entry of a table is set.                                            *)
LEMMA PutFacts ==
    ASSUME NEW f, NEW s, NEW v
    PROVE  /\ DOMAIN Put(f, s, v) = {s} \cup DOMAIN f /\ Put(f, s, v)[s] = v
           /\ \A x \in DOMAIN f : x # s => Put(f, s, v)[x] = f[x]
BY DEF Put

(* A symbol is used.                                                       *)
AfterUse(a, s) == IF s = Unbound THEN a ELSE [a EXCEPT !.symbols[s].uses = @ + 1]
LEMMA SymbolUsed ==
    ASSUME NEW t, NEW D, NEW V, NEW a, NEW U, NEW f, Follow(t, D, V, a, U, f), U \subseteq DOMAIN f,
           NEW s \in {Unbound} \cup DOMAIN a.symbols, s \in D => s \in Mapped(a, V),
           NEW k, k \notin U,
           NEW b, b = AfterUse(a, s)
    PROVE  Follow(t, D, V, b, U \cup {k}, Put(f, k, s)) /\ Keeps(a, b)
<1> DEFINE g == Put(f, k, s)
           Used(entry) == [entry EXCEPT !.uses = @ + 1]
<1>1. IsArena(a) /\ \A r \in DOMAIN a.symbols : a.symbols[r] \in Entries /\ r # Unbound
  BY ArenaFacts DEF Follow
<1>2. /\ IsArena(b) /\ b.environments = a.environments /\ DOMAIN b.symbols = DOMAIN a.symbols
      /\ \A r \in DOMAIN a.symbols : b.symbols[r] = IF r = s THEN Used(a.symbols[r]) ELSE a.symbols[r]
  <2>1. CASE s = Unbound
    BY <1>1, <2>1 DEF AfterUse
  <2>2. CASE s # Unbound
    <3>1. b = [environments |-> a.environments, symbols |-> [a.symbols EXCEPT ![s] = Used(a.symbols[s])]]
      BY <1>1, <2>2 DEF IsArena, AfterUse
    <3>2. \A entry \in Entries : Used(entry) \in Entries
      BY DEF Entries
    <3> HIDE DEF Used
    <3>3. b.environments = a.environments /\ b.symbols = [a.symbols EXCEPT ![s] = Used(a.symbols[s])]
          /\ b = [environments |-> b.environments, symbols |-> b.symbols]
      BY <3>1
    <3>4. s \in DOMAIN a.symbols /\ DOMAIN b.symbols = DOMAIN a.symbols
      BY <2>2, <3>3
    <3>5. \A r \in DOMAIN a.symbols : b.symbols[r] = IF r = s THEN Used(a.symbols[r]) ELSE a.symbols[r]
      BY <3>3, <3>4
    <3>6. b.symbols \in [DOMAIN b.symbols -> Entries]
      BY <1>1, <3>2, <3>3, <3>4 DEF IsArena
    <3>7. IsArena(b)
      BY <1>1, <3>3, <3>4, <3>6 DEF IsArena
    <3> QED
      BY <3>3, <3>4, <3>5, <3>7
  <2> QED
    BY <2>1, <2>2
<1>3. \A entry \in Entries : /\ Used(entry).name = entry.name /\ Used(entry).kind = entry.kind
                             /\ Used(entry).warned = entry.warned /\ Used(entry).uses = entry.uses + 1
                             /\ entry.uses \in Nat
  BY DEF Entries
<1> HIDE DEF Used
<1>4. MapsFollow(t, D, V, b) /\ GlobalsFollow(b) /\ Mapped(b, V) = Mapped(a, V)
  BY <1>2 DEF Follow, MapsFollow, GlobalsFollow, Mapped
<1>5. SymbolsFollow(t, D, b)
  BY <1>1, <1>2, <1>3 DEF Follow, SymbolsFollow
<1>6. WarningsFollow(t, D, b, Mapped(b, V))
  <2>1. ASSUME NEW r \in D
        PROVE  b.symbols[r].warned =
                   IF ~Hidden(t, r) /\ r \notin Mapped(a, V) /\ IsUnused(b.symbols[r]) THEN 1 ELSE 0
    <3>1. r \in DOMAIN a.symbols /\ a.symbols[r].warned =
              IF ~Hidden(t, r) /\ r \notin Mapped(a, V) /\ IsUnused(a.symbols[r]) THEN 1 ELSE 0
      BY DEF Follow, SymbolsFollow, WarningsFollow
    <3>2. CASE r = s
      BY <1>1, <1>2, <1>3, <3>1, <3>2
    <3>3. CASE r # s
      BY <1>2, <3>1, <3>3
    <3> QED
      BY <3>2, <3>3
  <2> QED
    BY <1>4, <2>1 DEF WarningsFollow
<1>7. g[k] = s /\ \A i \in U : g[i] = f[i]
  <2>1. g[k] = s /\ \A x \in DOMAIN f : x # k => g[x] = f[x]
    BY DEF Put
  <2> HIDE DEF g
  <2> QED
    BY <2>1
<1> HIDE DEF g
<1>8. UsesFollow(b, U \cup {k}, g)
  <2>1. ASSUME NEW r \in DOMAIN a.symbols
        PROVE  b.symbols[r].uses = 0 <=> \A i \in U \cup {k} : g[i] # r
    <3>1. a.symbols[r].uses = 0 <=> \A i \in U : f[i] # r
      BY DEF Follow, UsesFollow
    <3>2. CASE r = s
      <4>1. b.symbols[r].uses # 0
        BY <1>1, <1>2, <1>3, <3>2
      <4> QED
        BY <1>7, <3>2, <4>1
    <3>3. CASE r # s
      BY <1>2, <1>7, <3>1, <3>3
    <3> QED
      BY <3>2, <3>3
  <2>2. \A i \in U \cup {k} : g[i] \in {Unbound} \cup DOMAIN a.symbols
    BY <1>7 DEF Follow, UsesFollow
  <2> QED
    BY <1>2, <2>1, <2>2 DEF UsesFollow
<1>9. Keeps(a, b)
  BY <1>2 DEF Keeps, SameGlobals
<1> QED
  BY <1>2, <1>4, <1>5, <1>6, <1>8, <1>9 DEF Follow, g

(* Beneath a construct that is open is what was open before it.            *)
Under(t, o, p, what) == {o[q].at : q \in {r \in 1 .. p - 1 : t[o[r].at].what = what}}
LEMMA Beneath ==
    ASSUME NEW t \in Seq(Events), NEW o, OpenFollows(t, o), NEW p \in 1 .. Len(o), NEW what
    PROVE  Enclosing(t, o[p].at, what) = Under(t, o, p, what)
<1> DEFINE i == o[p].at
           before == Around(t)[i - 1]
<1>1. /\ Len(o) \in Nat /\ Len(t) \in Nat /\ i \in 1 .. Len(t) /\ IsOpener(t, i)
      /\ \A q \in 1 .. Len(o) : o[q].at \in 1 .. Len(t) /\ Since(t, Len(t), q, o[q].at)
      /\ \A q \in 1 .. Len(o) : q < p => o[q].at < i
  BY OpenFacts
<1>2. /\ Follows(t, i, before, Around(t)[i]) /\ i - 1 \in 0 .. Len(t) /\ Len(before) \in Nat
      /\ Elements(before) = {before[q] : q \in 1 .. Len(before)}
  <2>1. i - 1 \in 0 .. Len(t)
    BY <1>1
  <2> QED
    BY <1>1, <2>1, AroundByEvents, AroundFacts
<1>3. Len(Around(t)[i]) = p
  BY <1>1 DEF Since
<1>4. Len(before) = p - 1
  <2>1. Len(Around(t)[i]) = Len(before) + 1
    BY <1>1, <1>2 DEF Follows, IsOpener
  <2> HIDE DEF before
  <2> QED
    BY <1>1, <1>2, <1>3, <2>1
<1>5. ASSUME NEW q \in 1 .. p - 1
      PROVE  before[q] = o[q].at
  <2>1. q \in 1 .. Len(o) /\ q < p
    BY <1>1
  <2>2. Since(t, Len(t), q, o[q].at) /\ o[q].at < i /\ o[q].at \in 1 .. Len(t)
    BY <1>1, <2>1
  <2>3. i - 1 \in o[q].at .. Len(t)
    BY <1>1, <2>2
  <2> QED
    BY <2>2, <2>3 DEF Since
<1>6. Elements(before) = {o[q].at : q \in 1 .. p - 1}
  BY <1>2, <1>4, <1>5
<1>7. Enclosing(t, i, what) = {j \in Elements(before) : t[j].what = what}
  BY DEF Enclosing
<1> HIDE DEF before, i
<1> QED
  BY <1>6, <1>7 DEF i, Under

(* The innermost construct of a kind, for the one that is open last.       *)
LEMMA InnermostAtTop ==
    ASSUME NEW t \in Seq(Events), NEW o, OpenFollows(t, o), o # <<>>, NEW i, i = o[Len(o)].at, NEW what
    PROVE  /\ t[i].what # what => Innermost(t, i, what) = Innermost(t, Len(t) + 1, what)
           /\ t[i].what = what => Innermost(t, Len(t) + 1, what) = i
<1> DEFINE L == Len(o)
           S == {o[q].at : q \in {r \in 1 .. L - 1 : t[o[r].at].what = what}}
<1>1. L \in 1 .. L /\ L \in Nat
  <2>1. o \in Seq(Frames)
    BY DEF OpenFollows
  <2> QED
    BY <2>1, PopFacts
<1>2. /\ Len(t) \in Nat /\ i \in 1 .. Len(t)
      /\ \A q \in 1 .. L : o[q].at \in 1 .. Len(t)
      /\ \A q \in 1 .. L : q < L => o[q].at < i
      /\ Enclosing(t, Len(t) + 1, what) = {o[q].at : q \in {r \in 1 .. L : t[o[r].at].what = what}}
  BY <1>1, OpenFacts
<1>3. Enclosing(t, i, what) = S
  <2>1. Enclosing(t, o[L].at, what) = Under(t, o, L, what)
    BY <1>1, Beneath
  <2> QED
    BY <2>1 DEF Under
<1>4. \A q \in 1 .. L : q \in 1 .. L - 1 \/ q = L
  BY <1>1
<1>5. \A q \in 1 .. L - 1 : q \in 1 .. L /\ q < L
  BY <1>1
<1>6. CASE t[i].what # what
  <2>1. Enclosing(t, Len(t) + 1, what) = S
    BY <1>2, <1>4, <1>5, <1>6
  <2> QED
    BY <1>3, <1>6, <2>1 DEF Innermost
<1>7. CASE t[i].what = what
  <2>1. Enclosing(t, Len(t) + 1, what) \subseteq 0 .. Len(t)
    BY <1>2
  <2>2. i \in Enclosing(t, Len(t) + 1, what)
    BY <1>1, <1>2, <1>7
  <2>3. \A k \in Enclosing(t, Len(t) + 1, what) : k <= i
    <3>1. \A q \in 1 .. L : o[q].at <= i
      BY <1>2, <1>4
    <3> QED
      BY <1>2, <3>1
  <2>4. /\ {0} \cup Enclosing(t, Len(t) + 1, what) \subseteq 0 .. Len(t)
        /\ i \in {0} \cup Enclosing(t, Len(t) + 1, what)
        /\ \A k \in {0} \cup Enclosing(t, Len(t) + 1, what) : k <= i
    BY <1>2, <2>1, <2>2, <2>3
  <2>5. Largest({0} \cup Enclosing(t, Len(t) + 1, what)) = i
    BY <1>2, <2>4, LargestIsThe
  <2> QED
    BY <1>7, <2>5 DEF Innermost
<1> QED
  BY <1>6, <1>7

(* Behind an end it is again what it was where the construct began.        *)
LEMMA InnermostBehindEnd ==
    ASSUME NEW t, NEW u, Longer(t, u), NEW o, OpenFollows(t, o), o # <<>>, u[Len(t) + 1].what = "end",
           NEW i, i = o[Len(o)].at, NEW what
    PROVE  Innermost(u, Len(u) + 1, what) = Innermost(t, i, what)
<1>0. t \in Seq(Events) /\ u \in Seq(Events)
  BY DEF Longer
<1>1. OpenFollows(u, Pop(o))
  BY OpenPopped
<1>2. /\ Len(o) \in 1 .. Len(o) /\ Len(Pop(o)) = Len(o) - 1
      /\ \A q \in 1 .. Len(Pop(o)) : Pop(o)[q] = o[q] /\ q \in 1 .. Len(o)
  <2>1. o \in Seq(Frames)
    BY DEF OpenFollows
  <2> QED
    BY <2>1, PopFacts
<1>3. Enclosing(t, i, what) = {o[q].at : q \in {r \in 1 .. Len(o) - 1 : t[o[r].at].what = what}}
  <2>1. Enclosing(t, o[Len(o)].at, what) = Under(t, o, Len(o), what)
    BY <1>0, <1>2, Beneath
  <2> QED
    BY <2>1 DEF Under
<1>4. Enclosing(u, Len(u) + 1, what) =
          {Pop(o)[q].at : q \in {r \in 1 .. Len(Pop(o)) : u[Pop(o)[r].at].what = what}}
  BY <1>0, <1>1, OpenFacts
<1>5. \A q \in 1 .. Len(o) - 1 : Pop(o)[q].at = o[q].at /\ u[o[q].at] = t[o[q].at]
  <2>1. \A q \in 1 .. Len(o) : o[q].at \in 1 .. Len(t)
    BY <1>0, OpenFacts
  <2> QED
    BY <1>2, <2>1 DEF Longer
<1>6. Enclosing(u, Len(u) + 1, what) = Enclosing(t, i, what)
  <2>1. PICK p, k : p = Pop(o) /\ k = Len(o) - 1
    OBVIOUS
  <2>2. Enclosing(u, Len(u) + 1, what) = {p[q].at : q \in {r \in 1 .. k : u[p[r].at].what = what}}
    BY <1>2, <1>4, <2>1
  <2>3. Enclosing(t, i, what) = {o[q].at : q \in {r \in 1 .. k : t[o[r].at].what = what}}
    BY <1>3, <2>1
  <2>4. \A q \in 1 .. k : p[q].at = o[q].at /\ u[o[q].at] = t[o[q].at]
    BY <1>5, <2>1
  <2> QED
    BY <2>2, <2>3, <2>4
<1> QED
  BY <1>6 DEF Innermost

(* And behind an event that opens a construct, it is that construct.       *)
LEMMA InnermostBehindStart ==
    ASSUME NEW t, NEW u, Longer(t, u), NEW o, OpenFollows(t, o), u[Len(t) + 1].what # "end", NEW what
    PROVE  Innermost(u, Len(u) + 1, what) =
               IF Opens(u, Len(t) + 1, Around(t)[Len(t)]) /\ u[Len(t) + 1].what = what THEN Len(t) + 1
               ELSE Innermost(t, Len(t) + 1, what)
<1> DEFINE N == Len(t)
           old == Around(t)[N]
           new == Around(u)[N + 1]
<1>0. t \in Seq(Events) /\ u \in Seq(Events) /\ N \in Nat /\ Len(u) = N + 1
  BY TextFacts DEF Longer
<1>1. Follows(u, N + 1, old, new)
  BY <1>0, OpenOfLonger
<1>2. N \in 0 .. N /\ N + 1 \in 0 .. Len(u)
  BY <1>0
<1>3. /\ Len(old) \in Nat /\ Elements(old) = {old[p] : p \in 1 .. Len(old)}
      /\ \A p \in 1 .. Len(old) : old[p] \in 1 .. N
  BY <1>0, <1>2, AroundFacts
<1>4. Len(new) \in Nat /\ Elements(new) = {new[p] : p \in 1 .. Len(new)}
  BY <1>0, <1>2, AroundFacts
<1>5. Enclosing(u, Len(u) + 1, what) = {j \in Elements(new) : u[j].what = what}
  <2>1. Len(u) + 1 - 1 = N + 1
    BY <1>0
  <2> QED
    BY <2>1 DEF Enclosing
<1>6. Enclosing(t, N + 1, what) = {j \in Elements(old) : t[j].what = what}
  <2>1. N + 1 - 1 = N
    BY <1>0
  <2> QED
    BY <2>1 DEF Enclosing
<1>7. \A j \in Elements(old) : u[j] = t[j] /\ j \in 1 .. N
  BY <1>3 DEF Longer
<1>8. CASE ~Opens(u, N + 1, old)
  <2>1. new = old
    BY <1>1, <1>8 DEF Follows
  <2>2. Enclosing(u, Len(u) + 1, what) = Enclosing(t, N + 1, what)
    BY <1>5, <1>6, <1>7, <2>1
  <2> QED
    BY <1>8, <2>2 DEF Innermost
<1>9. CASE Opens(u, N + 1, old)
  <2>1. /\ Len(new) = Len(old) + 1 /\ new[Len(new)] = N + 1
        /\ \A p \in 1 .. Len(old) : new[p] = old[p]
    BY <1>1, <1>9 DEF Follows
  <2>2. Elements(new) = Elements(old) \cup {N + 1}
    <3>1. \A p \in 1 .. Len(new) : p \in 1 .. Len(old) \/ p = Len(new)
      BY <1>3, <2>1
    <3>2. Len(new) \in 1 .. Len(new) /\ \A p \in 1 .. Len(old) : p \in 1 .. Len(new)
      BY <1>3, <2>1
    <3> HIDE DEF new, old
    <3> QED
      BY <1>3, <1>4, <2>1, <3>1, <3>2
  <2>3. CASE u[N + 1].what # what
    <3>1. Enclosing(u, Len(u) + 1, what) = Enclosing(t, N + 1, what)
      BY <1>5, <1>6, <1>7, <2>2, <2>3
    <3> QED
      BY <2>3, <3>1 DEF Innermost
  <2>4. CASE u[N + 1].what = what
    <3>1. Enclosing(u, Len(u) + 1, what) = Enclosing(t, N + 1, what) \cup {N + 1}
      BY <1>5, <1>6, <1>7, <2>2, <2>4
    <3>2. Enclosing(t, N + 1, what) \subseteq 1 .. N
      BY <1>6, <1>7
    <3>3. /\ {0} \cup Enclosing(u, Len(u) + 1, what) \subseteq 0 .. N + 1
          /\ N + 1 \in {0} \cup Enclosing(u, Len(u) + 1, what)
          /\ \A k \in {0} \cup Enclosing(u, Len(u) + 1, what) : k <= N + 1
      BY <1>0, <3>1, <3>2
    <3>a. N + 1 \in Nat
      BY <1>0
    <3>4. PICK m, S : m \in Nat /\ m = N + 1 /\ S = {0} \cup Enclosing(u, Len(u) + 1, what)
      BY <3>a, Zenon
    <3>5. Largest(S) = m
      BY <3>3, <3>4, LargestIsThe
    <3>6. Innermost(u, Len(u) + 1, what) = m
      BY <3>4, <3>5 DEF Innermost
    <3> QED
      BY <1>9, <2>4, <3>4, <3>6
  <2> QED
    BY <2>3, <2>4
<1> QED
  BY <1>8, <1>9

-----------------------------------------------------------------------------
(* The first break of a loop, without a choice.                            *)
IsFirst(t, l, r) ==
    IF l = 0 \/ BreaksOf(t, l) = {} THEN r = 0
    ELSE /\ r \in BreaksOf(t, l)
         /\ \A j \in BreaksOf(t, l) : j # r => Smallest(Ends(t, r)) < Smallest(Ends(t, j))

(* The breaks of a loop have ended.                                        *)
LEMMA BreakFacts ==
    ASSUME NEW t \in Seq(Events), NEW l, NEW i \in BreaksOf(t, l)
    PROVE  /\ i \in 1 .. Len(t) /\ t[i].what = "break" /\ Closed(t, i) /\ Innermost(t, i, "loop") = l
           /\ Smallest(Ends(t, i)) \in Nat
<1>1. i \in 1 .. Len(t) /\ t[i].what = "break" /\ Closed(t, i) /\ Innermost(t, i, "loop") = l
  BY TextFacts DEF BreaksOf, Where
<1>2. Ends(t, i) # {} /\ Ends(t, i) \subseteq Nat
  <2>1. Ends(t, i) \subseteq i + 1 .. Len(t) /\ Len(t) \in Nat
    BY TextFacts DEF Ends
  <2> QED
    BY <1>1, <2>1 DEF Closed
<1> QED
  BY <1>1, <1>2, SmallestIs

(* The choice of the properties is the first break.                        *)
LEMMA FirstIs ==
    ASSUME NEW t \in Seq(Events), NEW l, l # 0, NEW r, IsFirst(t, l, r)
    PROVE  First(t, l) = r
<1> DEFINE B == BreaksOf(t, l)
           Least(i) == \A j \in B : Smallest(Ends(t, i)) <= Smallest(Ends(t, j))
<1>1. CASE B = {}
  BY <1>1 DEF First, IsFirst
<1>2. CASE B # {}
  <2>1. r \in B /\ \A j \in B : j # r => Smallest(Ends(t, r)) < Smallest(Ends(t, j))
    BY <1>2 DEF IsFirst
  <2>2. \A j \in B : Smallest(Ends(t, j)) \in Nat
    BY BreakFacts
  <2>3. Least(r)
    BY <2>1, <2>2
  <2>4. ASSUME NEW i \in B, Least(i)
        PROVE  i = r
    BY <2>1, <2>2, <2>4
  <2>5. First(t, l) = CHOOSE i \in B : Least(i)
    BY <1>2 DEF First
  <2> HIDE DEF Least, B
  <2> QED
    BY <2>1, <2>3, <2>4, <2>5
<1> QED
  BY <1>1, <1>2

(* A break in a loop has an operand, and ends with it.                     *)
LEMMA BreakOpens ==
    ASSUME NEW t \in Seq(Events), NEW i \in 1 .. Len(t), t[i].what = "break", Innermost(t, i, "loop") # 0
    PROVE  IsOpener(t, i)
<1>1. Innermost(t, i, "loop") \in Enclosing(t, i, "loop")
  <2>1. i \in 1 .. Len(t) + 1
    BY TextFacts
  <2> QED
    BY <2>1, EnclosingFacts
<1> QED
  BY <1>1 DEF IsOpener, Opens, Enclosing

(* What ends now is open, and has begun.                                   *)
LEMMA TopIsOpen ==
    ASSUME NEW t \in Seq(Events), NEW u, NEW i, EndsNow(t, u, i)
    PROVE  i \in Elements(Around(t)[Len(t)]) /\ i \in 1 .. Len(t) /\ ~Closed(t, i) /\ IsOpener(t, i)
<1>1. i \in Elements(Around(t)[Len(t)])
  <2>1. Len(t) \in 0 .. Len(t)
    BY TextFacts
  <2>2. /\ Len(Around(t)[Len(t)]) \in Nat
        /\ Elements(Around(t)[Len(t)]) = {Around(t)[Len(t)][p] : p \in 1 .. Len(Around(t)[Len(t)])}
    BY <2>1, AroundFacts
  <2>3. Len(Around(t)[Len(t)]) \in 1 .. Len(Around(t)[Len(t)])
    BY <2>2 DEF EndsNow
  <2> QED
    BY <2>2, <2>3 DEF EndsNow, Top
<1> QED
  BY <1>1, OpenHasNoEnd

(* How the breaks of a loop grow with the text.                            *)
BreakEnds(t, u, l) == {i \in 1 .. Len(t) : /\ EndsNow(t, u, i) /\ t[i].what = "break"
                                           /\ Innermost(t, i, "loop") = l}
LEMMA BreaksOfLonger ==
    ASSUME NEW t, NEW u, Longer(t, u), NEW l \in Nat \ {0}
    PROVE  /\ BreaksOf(u, l) = BreaksOf(t, l) \cup BreakEnds(t, u, l)
           /\ \A i \in BreaksOf(t, l) : /\ Smallest(Ends(u, i)) = Smallest(Ends(t, i))
                                        /\ Smallest(Ends(t, i)) \in Nat /\ Smallest(Ends(t, i)) <= Len(t)
           /\ \A i \in BreakEnds(t, u, l) : Smallest(Ends(u, i)) = Len(t) + 1
<1>0. t \in Seq(Events) /\ u \in Seq(Events) /\ Len(t) \in Nat /\ Len(u) = Len(t) + 1
      /\ \A i \in 1 .. Len(t) : u[i] = t[i]
  BY TextFacts DEF Longer
<1>1. ASSUME NEW i \in 1 .. Len(t)
      PROVE  Innermost(u, i, "loop") = Innermost(t, i, "loop")
  <2>1. i \in 1 .. Len(t) + 1
    BY <1>0
  <2> QED
    BY <2>1, InnermostOfLonger
<1>2. ASSUME NEW i \in BreaksOf(u, l)
      PROVE  i \in BreaksOf(t, l) \/ i \in BreakEnds(t, u, l)
  <2>1. i \in 1 .. Len(u) /\ u[i].what = "break" /\ Closed(u, i) /\ Innermost(u, i, "loop") = l
    BY <1>0, BreakFacts
  <2>2. i # Len(t) + 1
    <3>1. ASSUME i = Len(t) + 1
          PROVE  FALSE
      <4>1. Ends(u, i) = {}
        BY <1>0, <3>1 DEF Ends
      <4> QED
        BY <2>1, <4>1 DEF Closed
    <3> QED
      BY <3>1
  <2>3. i \in 1 .. Len(t)
    BY <1>0, <2>1, <2>2
  <2>4. t[i].what = "break" /\ Innermost(t, i, "loop") = l
    BY <1>0, <1>1, <2>1, <2>3
  <2>5. CASE Closed(t, i)
    BY <1>0, <2>3, <2>4, <2>5, TextFacts DEF BreaksOf, Where
  <2>6. CASE ~Closed(t, i)
    <3>1. IsOpener(t, i)
      BY <1>0, <2>3, <2>4, BreakOpens
    <3>2. EndsNow(t, u, i)
      BY <2>1, <2>3, <2>6, <3>1, ClosedNow
    <3> QED
      BY <2>3, <2>4, <3>2 DEF BreakEnds
  <2> QED
    BY <2>5, <2>6
<1>3. ASSUME NEW i \in BreaksOf(t, l)
      PROVE  /\ i \in BreaksOf(u, l) /\ Smallest(Ends(u, i)) = Smallest(Ends(t, i))
             /\ Smallest(Ends(t, i)) \in Nat /\ Smallest(Ends(t, i)) <= Len(t)
  <2>1. i \in 1 .. Len(t) /\ t[i].what = "break" /\ Closed(t, i) /\ Innermost(t, i, "loop") = l
        /\ Smallest(Ends(t, i)) \in Nat
    BY <1>0, BreakFacts
  <2>2. /\ Closed(u, i) /\ Smallest(Ends(u, i)) = Smallest(Ends(t, i))
        /\ Smallest(Ends(t, i)) \in i + 1 .. Len(t)
    BY <2>1, ClosedOfLonger
  <2>3. i \in DOMAIN u /\ u[i].what = "break" /\ Innermost(u, i, "loop") = l
    <3>1. DOMAIN u = 1 .. Len(t) + 1
      BY <1>0, TextFacts
    <3>2. i \in 1 .. Len(t) + 1
      BY <1>0, <2>1
    <3> QED
      BY <1>0, <1>1, <2>1, <3>1, <3>2
  <2> QED
    BY <1>0, <2>1, <2>2, <2>3 DEF BreaksOf, Where
<1>4. ASSUME NEW i \in BreakEnds(t, u, l)
      PROVE  i \in BreaksOf(u, l) /\ Smallest(Ends(u, i)) = Len(t) + 1
  <2>1. i \in 1 .. Len(t) /\ EndsNow(t, u, i) /\ t[i].what = "break" /\ Innermost(t, i, "loop") = l
    BY DEF BreakEnds
  <2>2. ~Closed(t, i) /\ IsOpener(t, i)
    BY <1>0, <2>1, TopIsOpen
  <2>3. Closed(u, i)
    BY <2>1, <2>2, ClosedNow
  <2>4. Smallest(Ends(u, i)) = Len(t) + 1
    BY <2>1, <2>2, <2>3, ClosedOfLonger
  <2>5. i \in DOMAIN u /\ u[i].what = "break" /\ Innermost(u, i, "loop") = l
    <3>1. DOMAIN u = 1 .. Len(t) + 1
      BY <1>0, TextFacts
    <3>2. i \in 1 .. Len(t) + 1
      BY <1>0, <2>1
    <3> QED
      BY <1>0, <1>1, <2>1, <3>1, <3>2
  <2> QED
    BY <2>3, <2>4, <2>5 DEF BreaksOf, Where
<1> QED
  BY <1>2, <1>3, <1>4

(* The first break stays the first one.                                    *)
LEMMA FirstInLonger ==
    ASSUME NEW t, NEW u, Longer(t, u), NEW l \in Nat, NEW r, IsFirst(t, l, r),
           r # 0 \/ BreakEnds(t, u, l) = {}
    PROVE  IsFirst(u, l, r)
<1>1. CASE l = 0
  BY <1>1 DEF IsFirst
<1>2. CASE l # 0
  <2> DEFINE B == BreaksOf(t, l)
             C == BreaksOf(u, l)
             E == BreakEnds(t, u, l)
  <2>1. /\ C = B \cup E
        /\ \A i \in B : /\ Smallest(Ends(u, i)) = Smallest(Ends(t, i))
                        /\ Smallest(Ends(t, i)) \in Nat /\ Smallest(Ends(t, i)) <= Len(t)
        /\ \A i \in E : Smallest(Ends(u, i)) = Len(t) + 1
    BY <1>2, BreaksOfLonger
  <2>2. Len(t) \in Nat
    BY TextFacts DEF Longer
  <2>3. CASE B = {}
    <3>1. r = 0
      BY <2>3 DEF IsFirst
    <3>2. C = {}
      BY <2>1, <2>3, <3>1
    <3> QED
      BY <3>1, <3>2 DEF IsFirst
  <2>4. CASE B # {}
    <3>1. r \in B /\ \A j \in B : j # r => Smallest(Ends(t, r)) < Smallest(Ends(t, j))
      BY <1>2, <2>4 DEF IsFirst
    <3>2. \A j \in C : j # r => Smallest(Ends(u, r)) < Smallest(Ends(u, j))
      <4> HIDE DEF B, C, E
      <4> QED
        BY <2>1, <2>2, <3>1
    <3>3. r \in C /\ C # {}
      BY <2>1, <3>1
    <3> QED
      BY <1>2, <3>2, <3>3 DEF IsFirst
  <2> QED
    BY <2>3, <2>4
<1> QED
  BY <1>1, <1>2

(* The first break to end is the first one.                                *)
LEMMA FirstNow ==
    ASSUME NEW t, NEW u, Longer(t, u), NEW l \in Nat \ {0}, NEW r, IsFirst(t, l, r), r = 0,
           NEW i, EndsNow(t, u, i), t[i].what = "break", Innermost(t, i, "loop") = l
    PROVE  IsFirst(u, l, i)
<1>0. t \in Seq(Events)
  BY DEF Longer
<1>1. i \in 1 .. Len(t)
  BY <1>0, TopIsOpen
<1>2. BreakEnds(t, u, l) = {i}
  BY <1>1 DEF BreakEnds, EndsNow
<1>3. BreaksOf(t, l) = {}
  <2>1. ASSUME BreaksOf(t, l) # {}
        PROVE  FALSE
    <3>1. 0 \in BreaksOf(t, l)
      BY <2>1 DEF IsFirst
    <3>2. 0 \in 1 .. Len(t)
      BY <1>0, <3>1, BreakFacts
    <3> QED
      BY <3>2
  <2> QED
    BY <2>1
<1>4. BreaksOf(u, l) = {i}
  BY <1>2, <1>3, BreaksOfLonger
<1> QED
  BY <1>4 DEF IsFirst

(* The loop in use and the types of loops and breaks that have ended.      *)
IsLoop(t, l, x) == x = [at |-> l, result |-> x.result] /\ IsFirst(t, l, x.result)
OutersFollow(t, o) ==
    \A p \in 1 .. Len(o) : t[o[p].at].what = "loop" => IsLoop(t, Innermost(t, o[p].at, "loop"), o[p].outer)
ResultsFollow(t, f) ==
    /\ \A l \in Where(t, "loop") : Closed(t, l) => l \in DOMAIN f /\ IsFirst(t, l, f[l])
    /\ \A i \in Where(t, "break") :
          (Closed(t, i) /\ Innermost(t, i, "loop") # 0)
              => (i \in DOMAIN f /\ IsFirst(t, Innermost(t, i, "loop"), f[i]))
    /\ \A i \in Where(t, "break") \cup Where(t, "continue") :
          Innermost(t, i, "loop") = 0 => i \in DOMAIN f /\ f[i] = 0
LoopsFollow(t, o, x, f) ==
    IsLoop(t, Innermost(t, Len(t) + 1, "loop"), x) /\ OutersFollow(t, o) /\ ResultsFollow(t, f)

(* The events of a kind, by their numbers.                                 *)
LEMMA WhereIs ==
    ASSUME NEW t \in Seq(Events), NEW what
    PROVE  \A i : i \in Where(t, what) <=> i \in 1 .. Len(t) /\ t[i].what = what
BY TextFacts DEF Where

(* Only a break of the innermost loop can end.                             *)
LEMMA BreakEndsInnermost ==
    ASSUME NEW t \in Seq(Events), NEW o, OpenFollows(t, o), NEW u, NEW l, BreakEnds(t, u, l) # {}
    PROVE  l = Innermost(t, Len(t) + 1, "loop")
<1>1. PICK i \in 1 .. Len(t) : EndsNow(t, u, i) /\ t[i].what = "break" /\ Innermost(t, i, "loop") = l
  BY DEF BreakEnds
<1>2. Len(o) \in Nat /\ Len(o) > 0 /\ i = o[Len(o)].at
  <2>1. Len(o) \in Nat
    BY OpenFacts
  <2> QED
    BY <1>1, <2>1 DEF EndsNow, Top, OpenFollows
<1>3. o # <<>>
  BY <1>2
<1>4. t[i].what # "loop" => Innermost(t, i, "loop") = Innermost(t, Len(t) + 1, "loop")
  BY <1>2, <1>3, InnermostAtTop
<1> QED
  BY <1>1, <1>4

(* The innermost loop began before the event it is around.                 *)
LEMMA LoopIs ==
    ASSUME NEW t \in Seq(Events), NEW i \in 1 .. Len(t) + 1
    PROVE  Innermost(t, i, "loop") \in 0 .. Len(t) /\ Innermost(t, i, "loop") < i
<1>1. /\ Enclosing(t, i, "loop") \subseteq 1 .. i - 1
      /\ Innermost(t, i, "loop") \in {0} \cup Enclosing(t, i, "loop")
  BY EnclosingFacts
<1>2. Len(t) \in Nat
  BY TextFacts
<1> QED
  BY <1>1, <1>2

(* What the longer text says of loops: the same, and what ends now.        *)
LEMMA OutersInLonger ==
    ASSUME NEW t, NEW u, Longer(t, u), NEW o, OpenFollows(t, o), OutersFollow(t, o)
    PROVE  OutersFollow(u, o)
<1>0. t \in Seq(Events) /\ Len(t) \in Nat /\ \A i \in 1 .. Len(t) : u[i] = t[i]
  BY TextFacts DEF Longer
<1>1. ASSUME NEW p \in 1 .. Len(o), u[o[p].at].what = "loop"
      PROVE  IsLoop(u, Innermost(u, o[p].at, "loop"), o[p].outer)
  <2>1. PICK i : i = o[p].at
    OBVIOUS
  <2>2. i \in 1 .. Len(t) /\ i \in 1 .. Len(t) + 1 /\ t[i].what = "loop"
    <3>1. i \in 1 .. Len(t)
      BY <1>0, <2>1, OpenFacts
    <3> QED
      BY <1>0, <1>1, <2>1, <3>1
  <2>3. PICK l : l = Innermost(t, i, "loop") /\ l = Innermost(u, i, "loop")
    BY <2>2, InnermostOfLonger
  <2>4. l \in Nat /\ l < i
    BY <1>0, <2>2, <2>3, LoopIs
  <2>5. IsLoop(t, l, o[p].outer)
    BY <2>1, <2>2, <2>3 DEF OutersFollow
  <2>6. BreakEnds(t, u, l) = {}
    <3>1. ASSUME BreakEnds(t, u, l) # {}
          PROVE  FALSE
      <4>1. l = Innermost(t, Len(t) + 1, "loop")
        BY <1>0, <3>1, BreakEndsInnermost
      <4>2. i \in Enclosing(t, Len(t) + 1, "loop")
        <5>1. Enclosing(t, Len(t) + 1, "loop") = {o[q].at : q \in {r \in 1 .. Len(o) : t[o[r].at].what = "loop"}}
          BY <1>0, OpenFacts
        <5> QED
          BY <2>1, <2>2, <5>1
      <4>3. i <= l
        <5>1. Len(t) + 1 \in 1 .. Len(t) + 1
          BY <1>0
        <5> QED
          BY <1>0, <4>1, <4>2, <5>1, EnclosingFacts
      <4> QED
        BY <2>2, <2>4, <4>3
    <3> QED
      BY <3>1
  <2>7. IsFirst(u, l, o[p].outer.result)
    BY <2>4, <2>5, <2>6, FirstInLonger DEF IsLoop
  <2> QED
    BY <2>1, <2>3, <2>5, <2>7 DEF IsLoop
<1> QED
  BY <1>1 DEF OutersFollow

(* What is settled by the end of a longer text. *)
LEMMA ResultsInLonger ==
    ASSUME NEW t, NEW u, Longer(t, u), NEW o, OpenFollows(t, o), NEW f, ResultsFollow(t, f), NEW g,
           \A i \in DOMAIN f : \/ i = Len(t) + 1
                               \/ EndsNow(t, u, i)
                               \/ i \in DOMAIN g /\ g[i] = f[i],
           \A l \in 1 .. Len(t) : EndsNow(t, u, l) /\ t[l].what = "loop" => l \in DOMAIN g /\ IsFirst(u, l, g[l]),
           \A i \in 1 .. Len(t) : EndsNow(t, u, i) /\ t[i].what = "break"
               => i \in DOMAIN g /\ IsFirst(u, Innermost(t, i, "loop"), g[i]),
           (u[Len(t) + 1].what \in {"break", "continue"} /\ Innermost(t, Len(t) + 1, "loop") = 0)
               => (Len(t) + 1 \in DOMAIN g /\ g[Len(t) + 1] = 0)
    PROVE  ResultsFollow(u, g)
<1> DEFINE N == Len(t)
<1>0. t \in Seq(Events) /\ u \in Seq(Events) /\ N \in Nat /\ Len(u) = N + 1 /\ \A i \in 1 .. N : u[i] = t[i]
  BY TextFacts DEF Longer
<1>1. ASSUME NEW i \in 1 .. N + 1
      PROVE  Innermost(u, i, "loop") = Innermost(t, i, "loop") /\ Innermost(t, i, "loop") \in Nat
  BY <1>0, InnermostOfLonger, LoopIs
<1>2. ~Closed(u, N + 1)
  <2>1. Ends(u, N + 1) = {}
    BY <1>0 DEF Ends
  <2> QED
    BY <2>1 DEF Closed
<1>3. ASSUME NEW i \in 1 .. N, IsOpener(t, i), Closed(u, i)
      PROVE  Closed(t, i) \/ EndsNow(t, u, i)
  BY <1>3, ClosedNow
<1>4. ASSUME NEW i, EndsNow(t, u, i)
      PROVE  ~Closed(t, i) /\ i \in 1 .. N
  BY <1>0, <1>4, TopIsOpen
<1>5. ASSUME NEW i \in DOMAIN f, i \in 1 .. N, ~EndsNow(t, u, i)
      PROVE  i \in DOMAIN g /\ g[i] = f[i]
  <2>1. i # N + 1
    BY <1>0, <1>5
  <2> QED
    BY <1>5, <2>1
<1>6. ASSUME NEW l \in Where(u, "loop"), Closed(u, l)
      PROVE  l \in DOMAIN g /\ IsFirst(u, l, g[l])
  <2>1. l \in 1 .. N /\ t[l].what = "loop"
    <3>1. l \in 1 .. N + 1 /\ u[l].what = "loop"
      BY <1>0, WhereIs
    <3> QED
      BY <1>0, <1>2, <1>6, <3>1
  <2>2. CASE EndsNow(t, u, l)
    BY <2>1, <2>2
  <2>3. CASE ~EndsNow(t, u, l)
    <3>1. IsOpener(t, l)
      BY <2>1 DEF IsOpener, Opens
    <3>2. Closed(t, l)
      BY <1>3, <1>6, <2>1, <2>3, <3>1
    <3>3. l \in DOMAIN f /\ IsFirst(t, l, f[l])
      BY <1>0, <2>1, <3>2, WhereIs DEF ResultsFollow
    <3>4. BreakEnds(t, u, l) = {}
      <4>1. ASSUME BreakEnds(t, u, l) # {}
            PROVE  FALSE
        <5>1. l = Innermost(t, N + 1, "loop")
          BY <1>0, <4>1, BreakEndsInnermost
        <5>2. N + 1 \in 1 .. N + 1 /\ l # 0 /\ N + 1 - 1 = N
          BY <1>0, <2>1
        <5>3. l \in Enclosing(t, N + 1, "loop")
          BY <1>0, <5>1, <5>2, EnclosingFacts
        <5>4. l \in Elements(Around(t)[N])
          BY <5>2, <5>3 DEF Enclosing
        <5> QED
          BY <1>0, <3>2, <5>4, OpenHasNoEnd
      <4> QED
        BY <4>1
    <3>5. l \in Nat
      BY <1>0, <2>1
    <3>6. IsFirst(u, l, f[l])
      BY <3>3, <3>4, <3>5, FirstInLonger
    <3> QED
      BY <1>5, <2>1, <2>3, <3>3, <3>6
  <2> QED
    BY <2>2, <2>3
<1>7. ASSUME NEW i \in Where(u, "break"), Closed(u, i), Innermost(u, i, "loop") # 0
      PROVE  i \in DOMAIN g /\ IsFirst(u, Innermost(u, i, "loop"), g[i])
  <2>1. i \in 1 .. N /\ t[i].what = "break" /\ i \in 1 .. N + 1
    <3>1. i \in 1 .. N + 1 /\ u[i].what = "break"
      BY <1>0, WhereIs
    <3> QED
      BY <1>0, <1>2, <1>7, <3>1
  <2>2. PICK l \in Nat : l = Innermost(t, i, "loop") /\ l = Innermost(u, i, "loop") /\ l # 0
    BY <1>1, <1>7, <2>1
  <2>3. CASE EndsNow(t, u, i)
    BY <2>1, <2>2, <2>3
  <2>4. CASE ~EndsNow(t, u, i)
    <3>1. IsOpener(t, i)
      BY <1>0, <2>1, <2>2, BreakOpens
    <3>2. Closed(t, i)
      BY <1>3, <1>7, <2>1, <2>4, <3>1
    <3>3. i \in DOMAIN f /\ IsFirst(t, l, f[i])
      BY <1>0, <2>1, <2>2, <3>2, WhereIs DEF ResultsFollow
    <3>4. f[i] # 0
      <4>1. i \in BreaksOf(t, l)
        BY <1>0, <2>1, <2>2, <3>2, WhereIs DEF BreaksOf
      <4>2. f[i] \in BreaksOf(t, l)
        BY <2>2, <3>3, <4>1 DEF IsFirst
      <4>3. f[i] \in 1 .. N
        BY <1>0, <4>2, BreakFacts
      <4> QED
        BY <4>3
    <3>5. IsFirst(u, l, f[i])
      BY <3>3, <3>4, FirstInLonger
    <3> QED
      BY <1>5, <2>1, <2>2, <2>4, <3>3, <3>5
  <2> QED
    BY <2>3, <2>4
<1>8. ASSUME NEW i \in Where(u, "break") \cup Where(u, "continue"), Innermost(u, i, "loop") = 0
      PROVE  i \in DOMAIN g /\ g[i] = 0
  <2>1. i \in 1 .. N + 1 /\ u[i].what \in {"break", "continue"}
    BY <1>0, WhereIs
  <2>2. Innermost(t, i, "loop") = 0
    BY <1>1, <1>8, <2>1
  <2>3. CASE i = N + 1
    BY <2>1, <2>2, <2>3
  <2>4. CASE i # N + 1
    <3>1. i \in 1 .. N
      BY <1>0, <2>1, <2>4
    <3>2. t[i].what \in {"break", "continue"}
      BY <1>0, <2>1, <3>1
    <3>3. i \in Where(t, "break") \cup Where(t, "continue")
      BY <1>0, <3>1, <3>2, WhereIs
    <3>4. i \in DOMAIN f /\ f[i] = 0
      BY <2>2, <3>3 DEF ResultsFollow
    <3>5. ~EndsNow(t, u, i)
      <4>1. ASSUME EndsNow(t, u, i)
            PROVE  FALSE
        <5>1. IsOpener(t, i)
          BY <1>0, <4>1, TopIsOpen
        <5>2. \E j \in Elements(Around(t)[i - 1]) : t[j].what = "loop"
          BY <3>2, <5>1 DEF IsOpener, Opens
        <5>3. Enclosing(t, i, "loop") # {}
          BY <5>2 DEF Enclosing
        <5>4. /\ Enclosing(t, i, "loop") \subseteq 1 .. i - 1
              /\ \A j \in Enclosing(t, i, "loop") : j <= Innermost(t, i, "loop")
          BY <1>0, <2>1, EnclosingFacts
        <5> QED
          BY <2>2, <3>1, <5>3, <5>4
      <4> QED
        BY <4>1
    <3> QED
      BY <1>5, <3>1, <3>4, <3>5
  <2> QED
    BY <2>3, <2>4
<1> QED
  BY <1>6, <1>7, <1>8 DEF ResultsFollow

-----------------------------------------------------------------------------
(* While a function is read, everything is what the text so far says.      *)
UsesRead(t, a, f) ==
    \A i \in Where(t, "use") :
        /\ i \in DOMAIN f
        /\ \E d : Denotes(t, t[i].names[1], i, d) /\ f[i] = Meaning(a, t[i].names[1], d)
StackFollows(t, o, a) == OpenFollows(t, o) /\ Chained(t, o, a) /\ Parents(a)
ArenaFollows(t, V, a, f) == Follow(t, InEffect(t), V, a, Where(t, "use"), f) /\ UsesRead(t, a, f)
Reading(t, o, a, x, f) ==
    /\ t \in Seq(Events)
    /\ StackFollows(t, o, a) /\ ArenaFollows(t, View(t, o), a, f) /\ LoopsFollow(t, o, x, f)

(* A use has a name.                                                       *)
LEMMA UseFacts ==
    ASSUME NEW t \in Seq(Events), NEW i \in Where(t, "use")
    PROVE  i \in 1 .. Len(t) /\ t[i].names[1] \in Names
<1>1. i \in 1 .. Len(t) /\ t[i].what = "use" /\ t[i] \in Events
  BY TextFacts, WhereIs
<1>2. t[i].names \in Seq(Names) /\ Len(t[i].names) = 1
  BY <1>1, EventFacts
<1> QED
  BY <1>1, <1>2, ElementOfSeq

(* The uses of a longer text.                                              *)
LEMMA UsesOfLonger ==
    ASSUME NEW t, NEW u, Longer(t, u)
    PROVE  /\ u[Len(t) + 1].what # "use" => Where(u, "use") = Where(t, "use")
           /\ u[Len(t) + 1].what = "use" => Where(u, "use") = Where(t, "use") \cup {Len(t) + 1}
           /\ \A i \in Where(t, "use") : i \in 1 .. Len(t) /\ i # Len(t) + 1 /\ u[i] = t[i]
<1>1. t \in Seq(Events) /\ u \in Seq(Events) /\ Len(t) \in Nat /\ Len(u) = Len(t) + 1
      /\ \A i \in 1 .. Len(t) : u[i] = t[i]
  BY TextFacts DEF Longer
<1>2. \A i : i \in Where(t, "use") <=> i \in 1 .. Len(t) /\ t[i].what = "use"
  BY <1>1, WhereIs
<1>3. \A i : i \in Where(u, "use") <=> i \in 1 .. Len(t) + 1 /\ u[i].what = "use"
  BY <1>1, WhereIs
<1>4. \A i : i \in 1 .. Len(t) + 1 <=> i \in 1 .. Len(t) \/ i = Len(t) + 1
  BY <1>1
<1>5. \A i \in 1 .. Len(t) : i # Len(t) + 1
  BY <1>1
<1> QED
  BY <1>1, <1>2, <1>3, <1>4, <1>5

(* What a use referred to, it refers to when the text is longer.           *)
SameUses(t, f, g) == \A i \in Where(t, "use") : i \in DOMAIN f => i \in DOMAIN g /\ g[i] = f[i]
LEMMA UseInLonger ==
    ASSUME NEW t, NEW u, Longer(t, u), NEW a, NEW b, SameGlobals(a, b), NEW f, NEW g, UsesRead(t, a, f),
           NEW i \in Where(t, "use"), SameUses(t, f, g)
    PROVE  /\ i \in DOMAIN g /\ g[i] = f[i]
           /\ \E d : Denotes(u, u[i].names[1], i, d) /\ g[i] = Meaning(b, u[i].names[1], d)
<1>1. i \in 1 .. Len(t) /\ i # Len(t) + 1 /\ u[i] = t[i]
  BY UsesOfLonger
<1>2. PICK name \in Names : name = t[i].names[1]
  <2>1. t[i].names[1] \in Names
    BY UseFacts DEF Longer
  <2> QED
    BY <2>1
<1>3. PICK d : i \in DOMAIN f /\ Denotes(t, name, i, d) /\ f[i] = Meaning(a, name, d)
  BY <1>2 DEF UsesRead
<1>4. i \in 1 .. Len(t) + 1
  <2>1. Len(t) \in Nat
    BY TextFacts DEF Longer
  <2> QED
    BY <1>1, <2>1
<1>5. Denotes(u, name, i, d)
  BY <1>3, <1>4, DenotedInLonger
<1>6. Meaning(b, name, d) = Meaning(a, name, d)
  BY DEF Meaning, SameGlobals
<1>7. i \in DOMAIN g /\ g[i] = f[i]
  BY <1>3 DEF SameUses
<1> QED
  BY <1>1, <1>2, <1>3, <1>5, <1>6, <1>7

(* Use counts depend on what the uses refer to, and on nothing else.       *)
LEMMA UsesKept ==
    ASSUME NEW t, NEW D, NEW V, NEW a, NEW U, NEW f, Follow(t, D, V, a, U, f),
           NEW g, \A i \in U : g[i] = f[i]
    PROVE  Follow(t, D, V, a, U, g)
BY DEF Follow, UsesFollow

(* An event that is not a use. *)
LEMMA ArenaInLonger ==
    ASSUME NEW t, NEW u, Longer(t, u), u[Len(t) + 1].what # "use",
           NEW V, NEW W, NEW a, NEW b, NEW f, ArenaFollows(t, V, a, f), SameGlobals(a, b),
           Follow(u, InEffect(u), W, b, Where(t, "use"), f),
           NEW g, SameUses(t, f, g)
    PROVE  ArenaFollows(u, W, b, g)
<1>1. Where(u, "use") = Where(t, "use")
  BY UsesOfLonger
<1>2. \A i \in Where(t, "use") :
          /\ i \in DOMAIN g /\ g[i] = f[i]
          /\ \E d : Denotes(u, u[i].names[1], i, d) /\ g[i] = Meaning(b, u[i].names[1], d)
  BY UseInLonger DEF ArenaFollows
<1>3. Follow(u, InEffect(u), W, b, Where(u, "use"), g)
  <2>1. PICK U : U = Where(t, "use") /\ U = Where(u, "use")
    BY <1>1
  <2>2. Follow(u, InEffect(u), W, b, U, f) /\ \A i \in U : g[i] = f[i]
    BY <1>2, <2>1
  <2>3. Follow(u, InEffect(u), W, b, U, g)
    BY <2>2, UsesKept
  <2> QED
    BY <2>1, <2>3
<1>4. UsesRead(u, b, g)
  BY <1>1, <1>2 DEF UsesRead
<1> QED
  BY <1>3, <1>4 DEF ArenaFollows

(* While no break ends, the loop has the type it had. *)
LEMMA LoopStays ==
    ASSUME NEW t, NEW u, Longer(t, u), NEW x, IsLoop(t, Innermost(t, Len(t) + 1, "loop"), x),
           \A i : EndsNow(t, u, i) => t[i].what # "break"
    PROVE  IsLoop(u, Innermost(t, Len(t) + 1, "loop"), x)
<1>1. PICK l : l = Innermost(t, Len(t) + 1, "loop")
  OBVIOUS
<1>2. l \in Nat
  <2>1. t \in Seq(Events) /\ Len(t) \in Nat
    BY TextFacts DEF Longer
  <2>2. Len(t) + 1 \in 1 .. Len(t) + 1
    BY <2>1
  <2>3. l \in 0 .. Len(t)
    BY <1>1, <2>1, <2>2, LoopIs
  <2> QED
    BY <2>3
<1>3. BreakEnds(t, u, l) = {}
  BY DEF BreakEnds
<1>4. IsFirst(u, l, x.result)
  BY <1>1, <1>2, <1>3, FirstInLonger DEF IsLoop
<1> QED
  BY <1>1, <1>4 DEF IsLoop

(* An event that is neither the end of a loop or break nor the start of    *)
(* one leaves the loop.                                                    *)
LEMMA LoopsUnmoved ==
    ASSUME NEW t, NEW u, Longer(t, u), NEW o, OpenFollows(t, o), NEW x, NEW f, LoopsFollow(t, o, x, f),
           Innermost(u, Len(u) + 1, "loop") = Innermost(t, Len(t) + 1, "loop"),
           \A i : EndsNow(t, u, i) => t[i].what \notin {"break", "loop"},
           NEW g, \A j \in DOMAIN f : \/ j = Len(t) + 1
                                      \/ EndsNow(t, u, j)
                                      \/ j \in DOMAIN g /\ g[j] = f[j],
           (u[Len(t) + 1].what \in {"break", "continue"} /\ Innermost(t, Len(t) + 1, "loop") = 0)
               => (Len(t) + 1 \in DOMAIN g /\ g[Len(t) + 1] = 0),
           NEW q, \A p \in 1 .. Len(q) : \/ p \in 1 .. Len(o) /\ q[p] = o[p]
                                         \/ u[q[p].at].what # "loop"
    PROVE  LoopsFollow(u, q, x, g)
<1>1. OutersFollow(u, q)
  <2>1. OutersFollow(u, o)
    BY OutersInLonger DEF LoopsFollow
  <2> QED
    BY <2>1 DEF OutersFollow
<1>2. ResultsFollow(u, g)
  BY ResultsInLonger DEF LoopsFollow
<1>3. IsLoop(u, Innermost(u, Len(u) + 1, "loop"), x)
  BY LoopStays DEF LoopsFollow
<1> QED
  BY <1>1, <1>2, <1>3 DEF LoopsFollow

(* Parents stay while environments keep them.                              *)
LEMMA ParentsKept ==
    ASSUME NEW a, NEW b, Keeps(a, b), Parents(a), IsArena(a)
    PROVE  Parents(b)
<1>1. Len(a.environments) \in Nat
  BY ArenaFacts
<1> QED
  BY <1>1 DEF Parents, Keeps, Module, Signature

(* The loop in use is a record of numbers.                                 *)
LEMMA LoopType ==
    ASSUME NEW t \in Seq(Events), NEW l \in Nat, NEW x, IsLoop(t, l, x)
    PROVE  x \in [at : Nat, result : Nat] /\ x.at = l
<1>1. x = [at |-> l, result |-> x.result] /\ x.at = l
  BY DEF IsLoop
<1>2. x.result \in Nat
  <2>1. CASE x.result = 0
    BY <2>1
  <2>2. CASE x.result # 0
    <3>1. x.result \in BreaksOf(t, l)
      BY <2>2 DEF IsLoop, IsFirst
    <3>2. x.result \in 1 .. Len(t) /\ Len(t) \in Nat
      BY <3>1, BreakFacts, TextFacts
    <3> QED
      BY <3>2
  <2> QED
    BY <2>1, <2>2
<1> QED
  BY <1>1, <1>2

(* What is innermost began before the event.                               *)
LEMMA InnermostIsBefore ==
    ASSUME NEW t \in Seq(Events), NEW i \in 1 .. Len(t) + 1, NEW what
    PROVE  Innermost(t, i, what) \in 0 .. Len(t) /\ Innermost(t, i, what) < i
<1>1. /\ Enclosing(t, i, what) \subseteq 1 .. i - 1
      /\ Innermost(t, i, what) \in {0} \cup Enclosing(t, i, what)
  BY EnclosingFacts
<1>2. Len(t) \in Nat
  BY TextFacts
<1> QED
  BY <1>1, <1>2

(* A text with one more event, by itself.                                  *)
LEMMA NextFacts ==
    ASSUME NEW t, NEW u, Longer(t, u)
    PROVE  /\ t \in Seq(Events) /\ u \in Seq(Events) /\ Len(t) \in Nat /\ Len(u) = Len(t) + 1
           /\ \A i \in 1 .. Len(t) : u[i] = t[i] /\ i # Len(t) + 1
           /\ Len(t) + 1 \in 1 .. Len(t) + 1 /\ Len(t) + 1 \in 1 .. Len(u)
BY TextFacts DEF Longer

(* Nothing is bound by an event that is no pattern and ends no binding.    *)
LEMMA NothingBound ==
    ASSUME NEW t, NEW u, Longer(t, u), NEW V, NEW a, NEW f, NEW U, Follow(t, InEffect(t), V, a, U, f),
           u[Len(t) + 1].what \notin {"template", "pattern"},
           \A i : EndsNow(t, u, i) => t[i].what # "binding"
    PROVE  Follow(u, InEffect(u), V, a, U, f) /\ InEffect(u) = InEffect(t)
<1>1. \A at \in Binding(u) : ~BindsNow(t, u, at)
  BY DEF BindsNow
<1>2. InEffect(u) = InEffect(t)
  BY <1>1, NothingNewInEffect
<1>3. Follow(u, InEffect(t), V, a, U, f)
  BY FollowInLonger
<1> QED
  BY <1>2, <1>3

(* What an end does to the stack.                                          *)
Ended(t, u, o, i) ==
    /\ EndsNow(t, u, i) /\ \A j : EndsNow(t, u, j) => j = i
    /\ i \in 1 .. Len(t) /\ u[i] = t[i] /\ OpenFollows(u, Pop(o))
    /\ Len(o) \in 1 .. Len(o) /\ Len(Pop(o)) = Len(o) - 1 /\ Len(Pop(o)) \in Nat
    /\ \A p \in 1 .. Len(Pop(o)) : p \in 1 .. Len(o) /\ Pop(o)[p] = o[p]
    /\ \A p \in 1 .. Len(o) : u[o[p].at] = t[o[p].at]
LEMMA EndIsEnd ==
    ASSUME NEW t, NEW u, Longer(t, u), NEW o, OpenFollows(t, o), o # <<>>, u[Len(t) + 1].what = "end",
           NEW i, i = o[Len(o)].at
    PROVE  Ended(t, u, o, i)
<1>1. o \in Seq(Frames) /\ t \in Seq(Events)
  BY DEF OpenFollows, Longer
<1>2. /\ Len(o) \in Nat /\ Len(o) > 0 /\ Len(o) \in 1 .. Len(o)
      /\ Pop(o) \in Seq(Frames) /\ Len(Pop(o)) = Len(o) - 1
      /\ \A p \in 1 .. Len(Pop(o)) : Pop(o)[p] = o[p] /\ p \in 1 .. Len(o)
  BY <1>1, PopFacts
<1>3. OpenFollows(u, Pop(o))
  BY OpenPopped
<1>4. \A p \in 1 .. Len(o) : o[p].at \in 1 .. Len(t)
  BY <1>1, OpenFacts
<1>5. \A j : EndsNow(t, u, j) <=> j = i
  BY <1>2 DEF EndsNow, OpenFollows, Top
<1>6. \A p \in 1 .. Len(o) : u[o[p].at] = t[o[p].at]
  BY <1>4 DEF Longer
<1>7. Len(Pop(o)) \in Nat
  BY <1>2
<1> QED
  BY <1>2, <1>3, <1>4, <1>5, <1>6, <1>7 DEF Ended

(* Stacks depend on the constructs they speak of only.                     *)
LEMMA ViewOfSame ==
    ASSUME NEW t, NEW u, NEW o, \A p \in 1 .. Len(o) : u[o[p].at] = t[o[p].at], Len(o) \in Nat,
           NEW a, NEW b, Keeps(a, b), Chained(t, o, a), Len(a.environments) \in Nat
    PROVE  Chained(u, o, b) /\ View(u, o) = View(t, o)
<1>1. \A p \in 0 .. Len(o) : IsScope(u, o, p) <=> IsScope(t, o, p)
  BY DEF IsScope
<1>2. \A p \in 0 .. Len(o) : Env(o, p) \in 2 .. Len(a.environments)
  BY DEF Chained
<1>3. ASSUME NEW p \in 1 .. Len(o)
      PROVE  IF IsScope(u, o, p) THEN b.environments[Env(o, p)].parent = Env(o, p - 1)
             ELSE Env(o, p) = Env(o, p - 1)
  <2>1. p \in 0 .. Len(o) /\ Env(o, p) \in 1 .. Len(a.environments)
    BY <1>2
  <2>2. b.environments[Env(o, p)].parent = a.environments[Env(o, p)].parent
    BY <2>1 DEF Keeps
  <2> QED
    BY <1>1, <2>1, <2>2 DEF Chained
<1>4. ASSUME NEW p \in 0 .. Len(o), NEW q \in 0 .. Len(o), p < q
      PROVE  /\ Env(o, p) <= Env(o, q)
             /\ Env(o, p) = Env(o, q) <=> \A r \in p + 1 .. q : ~IsScope(u, o, r)
  <2>1. \A r \in p + 1 .. q : r \in 0 .. Len(o)
    OBVIOUS
  <2>2. /\ Env(o, p) <= Env(o, q)
        /\ Env(o, p) = Env(o, q) <=> \A r \in p + 1 .. q : ~IsScope(t, o, r)
    BY <1>4 DEF Chained
  <2> QED
    BY <1>1, <2>1, <2>2
<1>5. Chained(u, o, b)
  BY <1>2, <1>3, <1>4 DEF Chained, Keeps
<1>6. View(u, o) = View(t, o)
  <2>1. {q \in 0 .. Len(o) : IsScope(u, o, q)} = {q \in 0 .. Len(o) : IsScope(t, o, q)}
    BY <1>1
  <2> QED
    BY <2>1, Zenon DEF View
<1> QED
  BY <1>5, <1>6

(* The stack without its last construct is that of the text behind the end. *)
LEMMA StackEnds ==
    ASSUME NEW t, NEW u, Longer(t, u), NEW o, NEW a, NEW b, StackFollows(t, o, a), IsArena(a), Keeps(a, b),
           o # <<>>, NEW i, Ended(t, u, o, i)
    PROVE  StackFollows(u, Pop(o), b) /\ View(u, Pop(o)) = View(t, Pop(o))
<1>1. t \in Seq(Events) /\ OpenFollows(t, o) /\ Chained(t, o, a) /\ Parents(a)
  BY DEF Longer, StackFollows
<1>2. Chained(t, Pop(o), a)
  BY <1>1, ChainPopped
<1>3. PICK q : q = Pop(o)
  OBVIOUS
<1>4. Len(q) \in Nat /\ \A p \in 1 .. Len(q) : u[q[p].at] = t[q[p].at]
  BY <1>3 DEF Ended
<1>5. Chained(u, q, b) /\ View(u, q) = View(t, q)
  BY <1>2, <1>3, <1>4, ArenaFacts, ViewOfSame
<1>6. Parents(b)
  BY <1>1, ParentsKept
<1> QED
  BY <1>3, <1>5, <1>6 DEF StackFollows, Ended

(* A template parameter or a pattern is bound where it stands.             *)
LEMMA PatternStep ==
    ASSUME NEW t, NEW u, Longer(t, u), NEW o, NEW a, NEW x, NEW f, Reading(t, o, a, x, f),
           u[Len(t) + 1].what \in {"template", "pattern"},
           NEW env, <<Innermost(t, Len(t) + 1, "block"), env>> \in View(t, o),
           NEW b, b = BindPattern(a, env, Len(t) + 1, u[Len(t) + 1].names, u[Len(t) + 1].kind)
    PROVE  Reading(u, o, b, x, f)
<1> DEFINE N == Len(t)
           V == View(t, o)
           v == <<Innermost(t, N + 1, "block"), env>>
<1>0. /\ t \in Seq(Events) /\ u \in Seq(Events) /\ N \in Nat /\ Len(u) = N + 1
      /\ N + 1 \in 1 .. N + 1
      /\ OpenFollows(t, o) /\ Chained(t, o, a) /\ Parents(a) /\ IsArena(a)
  BY NextFacts DEF Reading, StackFollows, ArenaFollows, Follow
<1>1. BindsNow(t, u, N + 1) /\ \A i : ~EndsNow(t, u, i)
  BY DEF BindsNow, EndsNow
<1>2. IsView(V, a) /\ Follow(t, InEffect(t), V, a, Where(t, "use"), f)
  BY <1>0, ViewIsView DEF Reading, ArenaFollows
<1>3. v \in V /\ v[1] = Innermost(u, N + 1, "block") /\ v[2] = env
  <2>1. Innermost(u, N + 1, "block") = Innermost(t, N + 1, "block")
    BY <1>0, InnermostOfLonger
  <2> QED
    BY <2>1
<1>4. Follow(u, InEffect(u), V, b, Where(t, "use"), f) /\ Keeps(a, b)
  <2>1. PICK w, W, U, at : /\ w \in V /\ w = v /\ W = V /\ U = Where(t, "use") /\ at = N + 1
    BY <1>3
  <2>2. /\ BindsNow(t, u, at) /\ IsView(W, a) /\ Follow(t, InEffect(t), W, a, U, f)
        /\ w \in W /\ w[1] = Innermost(u, at, "block")
        /\ b = BindPattern(a, w[2], at, u[at].names, u[at].kind)
    BY <1>1, <1>2, <1>3, <2>1
  <2>3. Follow(u, InEffect(u), W, b, U, f) /\ Keeps(a, b)
    BY <2>2, PatternBound
  <2> QED
    BY <2>1, <2>3
<1>5. u[N + 1].what # "end" /\ ~Opens(u, N + 1, Around(t)[N])
  BY DEF Opens
<1>6. OpenFollows(u, o)
  BY <1>0, <1>5, OpenKept
<1>7. Chained(u, o, b) /\ View(u, o) = V
  BY <1>0, <1>4, ViewOfLonger
<1>8. StackFollows(u, o, b)
  BY <1>0, <1>4, <1>6, <1>7, ParentsKept DEF StackFollows
<1>9. ArenaFollows(u, View(u, o), b, f)
  <2>1. Follow(u, InEffect(u), View(u, o), b, Where(t, "use"), f)
    BY <1>4, <1>7
  <2>2. ArenaFollows(t, V, a, f) /\ SameGlobals(a, b) /\ u[N + 1].what # "use"
    BY <1>4 DEF Reading, Keeps
  <2> HIDE DEF V
  <2> QED
    BY <2>1, <2>2, ArenaInLonger DEF SameUses
<1>10. LoopsFollow(u, o, x, f)
  <2>1. Innermost(u, Len(u) + 1, "loop") = Innermost(t, N + 1, "loop")
    BY <1>0, <1>5, InnermostBehindStart
  <2>2. LoopsFollow(t, o, x, f)
    BY DEF Reading
  <2> QED
    BY <1>0, <1>1, <2>1, <2>2, LoopsUnmoved
<1> QED
  BY <1>0, <1>8, <1>9, <1>10 DEF Reading

(* An end that binds or reports and leaves the loop.                       *)
LEMMA QuietEnd ==
    ASSUME NEW t, NEW u, Longer(t, u), NEW o, NEW a, NEW x, NEW f, Reading(t, o, a, x, f),
           o # <<>>, u[Len(t) + 1].what = "end", NEW i, i = o[Len(o)].at, t[i].what \in {"binding", "block"},
           NEW b, Keeps(a, b), Follow(u, InEffect(u), View(t, Pop(o)), b, Where(t, "use"), f)
    PROVE  Reading(u, Pop(o), b, x, f)
<1>0. /\ t \in Seq(Events) /\ u \in Seq(Events) /\ StackFollows(t, o, a) /\ OpenFollows(t, o) /\ IsArena(a)
      /\ ArenaFollows(t, View(t, o), a, f) /\ LoopsFollow(t, o, x, f)
  BY NextFacts DEF Reading, StackFollows, ArenaFollows, Follow
<1>1. Ended(t, u, o, i)
  BY <1>0, EndIsEnd
<1>2. StackFollows(u, Pop(o), b) /\ View(u, Pop(o)) = View(t, Pop(o))
  BY <1>0, <1>1, StackEnds
<1>3. ArenaFollows(u, View(u, Pop(o)), b, f)
  <2>1. PICK V, W : V = View(t, o) /\ W = View(u, Pop(o)) /\ W = View(t, Pop(o))
    BY <1>2
  <2>2. ArenaFollows(t, V, a, f) /\ Follow(u, InEffect(u), W, b, Where(t, "use"), f)
        /\ SameGlobals(a, b) /\ u[Len(t) + 1].what # "use"
    BY <1>0, <2>1 DEF Keeps
  <2>3. ArenaFollows(u, W, b, f)
    BY <2>2, ArenaInLonger DEF SameUses
  <2> QED
    BY <2>1, <2>3
<1>4. LoopsFollow(u, Pop(o), x, f)
  <2>1. t[i].what # "loop"
    OBVIOUS
  <2>2. Innermost(t, i, "loop") = Innermost(t, Len(t) + 1, "loop")
    BY <1>0, <2>1, InnermostAtTop
  <2>3. Innermost(u, Len(u) + 1, "loop") = Innermost(t, i, "loop")
    BY <1>0, InnermostBehindEnd
  <2>4. Innermost(u, Len(u) + 1, "loop") = Innermost(t, Len(t) + 1, "loop")
    BY <2>2, <2>3
  <2>5. \A j : EndsNow(t, u, j) => t[j].what \notin {"break", "loop"}
    BY <1>1 DEF Ended
  <2>6. PICK q : q = Pop(o) /\ \A p \in 1 .. Len(q) : p \in 1 .. Len(o) /\ q[p] = o[p]
    BY <1>1 DEF Ended
  <2>7. u[Len(t) + 1].what \notin {"break", "continue"}
    OBVIOUS
  <2>8. \A p \in 1 .. Len(q) : \/ p \in 1 .. Len(o) /\ q[p] = o[p]
                               \/ u[q[p].at].what # "loop"
    BY <2>6
  <2>9. LoopsFollow(u, q, x, f)
    <3>1. \A j \in DOMAIN f : \/ j = Len(t) + 1
                              \/ EndsNow(t, u, j)
                              \/ j \in DOMAIN f /\ f[j] = f[j]
      OBVIOUS
    <3>2. (u[Len(t) + 1].what \in {"break", "continue"} /\ Innermost(t, Len(t) + 1, "loop") = 0)
               => (Len(t) + 1 \in DOMAIN f /\ f[Len(t) + 1] = 0)
      BY <2>7
    <3> QED
      BY <1>0, <2>4, <2>5, <2>8, <3>1, <3>2, LoopsUnmoved
  <2> QED
    BY <2>6, <2>9
<1> QED
  BY <1>0, <1>2, <1>3, <1>4 DEF Reading

(* A binding is complete.                                                  *)
LEMMA EndBindingStep ==
    ASSUME NEW t, NEW u, Longer(t, u), NEW o, NEW a, NEW x, NEW f, Reading(t, o, a, x, f),
           o # <<>>, u[Len(t) + 1].what = "end", NEW i, i = o[Len(o)].at, t[i].what = "binding",
           NEW b, b = BindPattern(a, o[Len(o)].env, i, t[i].names, t[i].kind)
    PROVE  Reading(u, Pop(o), b, x, f)
<1> DEFINE N == Len(t)
           V == View(t, o)
           L == Len(o)
           v == <<Innermost(t, N + 1, "block"), Env(o, L)>>
<1>0. /\ t \in Seq(Events) /\ u \in Seq(Events) /\ N \in Nat /\ Len(u) = N + 1
      /\ OpenFollows(t, o) /\ Chained(t, o, a) /\ IsArena(a)
  BY NextFacts DEF Reading, StackFollows, ArenaFollows, Follow
<1>1. Ended(t, u, o, i)
  BY <1>0, EndIsEnd
<1>2. BindsNow(t, u, i) /\ u[i] = t[i] /\ i \in 1 .. N + 1 /\ L \in 1 .. L
  BY <1>0, <1>1 DEF BindsNow, Ended
<1>3. IsView(V, a) /\ Follow(t, InEffect(t), V, a, Where(t, "use"), f)
  BY <1>0, ViewIsView DEF Reading, ArenaFollows
<1>4. v \in V /\ v[1] = Innermost(u, i, "block") /\ v[2] = o[L].env
  <2>1. v \in V
    BY <1>0, InnermostIsInView
  <2>2. Innermost(u, i, "block") = Innermost(t, i, "block")
    BY <1>2, InnermostOfLonger
  <2>3. t[i].what # "block"
    OBVIOUS
  <2>4. Innermost(t, i, "block") = Innermost(t, N + 1, "block")
    BY <1>0, <2>3, InnermostAtTop
  <2>5. Env(o, L) = o[L].env
    BY <1>2 DEF Env
  <2> QED
    BY <2>1, <2>2, <2>4, <2>5
<1>5. Follow(u, InEffect(u), V, b, Where(t, "use"), f) /\ Keeps(a, b)
  <2>1. PICK w, W, U : w \in V /\ w = v /\ W = V /\ U = Where(t, "use")
    BY <1>4
  <2>2. /\ IsView(W, a) /\ Follow(t, InEffect(t), W, a, U, f)
        /\ w \in W /\ w[1] = Innermost(u, i, "block")
        /\ b = BindPattern(a, w[2], i, u[i].names, u[i].kind)
    BY <1>2, <1>3, <1>4, <2>1
  <2>3. Follow(u, InEffect(u), W, b, U, f) /\ Keeps(a, b)
    BY <1>2, <2>2, PatternBound
  <2> QED
    BY <2>1, <2>3
<1>6. View(t, Pop(o)) = V
  <2>1. ~IsScope(t, o, L)
    BY <1>2 DEF IsScope
  <2> QED
    BY <1>0, <2>1, ChainPopped
<1>7. Follow(u, InEffect(u), View(t, Pop(o)), b, Where(t, "use"), f)
  BY <1>5, <1>6
<1>8. t[i].what \in {"binding", "block"}
  OBVIOUS
<1> QED
  BY <1>5, <1>7, <1>8, QuietEnd

(* A block ends, and its symbols are reported.                             *)
LEMMA EndBlockStep ==
    ASSUME NEW t, NEW u, Longer(t, u), NEW o, NEW a, NEW x, NEW f, Reading(t, o, a, x, f),
           o # <<>>, u[Len(t) + 1].what = "end", NEW i, i = o[Len(o)].at, t[i].what = "block",
           NEW b, b = ReportUnused(a, o[Len(o)].env)
    PROVE  Reading(u, Pop(o), b, x, f)
<1> DEFINE N == Len(t)
           V == View(t, Pop(o))
           L == Len(o)
           w == <<i, o[L].env>>
<1>0. /\ t \in Seq(Events) /\ u \in Seq(Events) /\ N \in Nat /\ Len(u) = N + 1
      /\ OpenFollows(t, o) /\ Chained(t, o, a) /\ Parents(a) /\ IsArena(a)
      /\ Follow(t, InEffect(t), View(t, o), a, Where(t, "use"), f)
  BY NextFacts DEF Reading, StackFollows, ArenaFollows, Follow
<1>1. Ended(t, u, o, i)
  BY <1>0, EndIsEnd
<1>2. L \in 1 .. L /\ i \in 1 .. N
  BY <1>1 DEF Ended
<1>3. View(t, o) = V \cup {w}
  <2>1. IsScope(t, o, L) /\ Scope(o, L) = i /\ Env(o, L) = o[L].env
    BY <1>2 DEF IsScope, Scope, Env
  <2>2. View(t, o) = View(t, Pop(o)) \cup {<<Scope(o, L), Env(o, L)>>}
    BY <1>0, <2>1, ChainPopped
  <2> QED
    BY <2>1, <2>2
<1>4. w \notin V
  <2>1. ASSUME w \in V
        PROVE  FALSE
    <3>1. PICK p \in 0 .. Len(Pop(o)) : i = Scope(Pop(o), p)
      BY <2>1 DEF View
    <3>2. CASE p = 0
      BY <1>2, <3>1, <3>2 DEF Scope
    <3>3. CASE p # 0
      <4>1. p \in 1 .. Len(Pop(o)) /\ p \in 1 .. L /\ p < L /\ Pop(o)[p] = o[p]
        BY <1>1, <3>3 DEF Ended
      <4>2. i = o[p].at
        BY <3>1, <3>3, <4>1 DEF Scope
      <4>3. o[p].at < o[L].at /\ o[p].at \in 1 .. N
        BY <1>0, <1>2, <4>1, OpenFacts
      <4> QED
        BY <1>0, <4>2, <4>3
    <3> QED
      BY <3>2, <3>3
  <2> QED
    BY <2>1
<1>5. Follow(u, InEffect(u), View(t, o), a, Where(t, "use"), f)
  <2>1. u[Len(t) + 1].what \notin {"template", "pattern"} /\ \A j : EndsNow(t, u, j) => t[j].what # "binding"
    BY <1>1 DEF Ended
  <2> QED
    BY <1>0, <2>1, NothingBound
<1>6. \A m \in InEffect(u), r \in Bindings(u) : Effect(u, r[1]) < Effect(u, m[1]) => r \in InEffect(u)
  <2>1. ASSUME NEW m \in InEffect(u), NEW r \in Bindings(u), Effect(u, r[1]) < Effect(u, m[1])
        PROVE  r \in InEffect(u)
    <3>1. m \in Bindings(u) /\ Effect(u, m[1]) <= Len(u)
      BY DEF InEffect
    <3>2. m[1] \in 1 .. Len(u) /\ r[1] \in 1 .. Len(u)
      BY <1>0, <3>1, BindingFacts
    <3>3. Effect(u, m[1]) \in Nat /\ Effect(u, r[1]) \in Nat
      BY <1>0, <3>2, EffectFacts
    <3>4. Effect(u, r[1]) <= Len(u)
      BY <1>0, <2>1, <3>1, <3>3
    <3> QED
      BY <3>4 DEF InEffect
  <2> QED
    BY <2>1
<1>7. IsView(View(t, o), a)
  BY <1>0, ViewIsView
<1>8. Follow(u, InEffect(u), V, b, Where(t, "use"), f) /\ Keeps(a, b)
  <2>1. PICK W, c, U, D : W = V /\ c = w /\ U = Where(t, "use") /\ D = InEffect(u)
    OBVIOUS
  <2>2. View(t, o) = W \cup {c} /\ c \notin W /\ b = ReportUnused(a, c[2])
    BY <1>3, <1>4, <2>1
  <2>3. /\ IsView(W \cup {c}, a) /\ Follow(u, D, W \cup {c}, a, U, f)
        /\ Len(a.environments) >= 2 /\ D \subseteq Bindings(u)
        /\ \A m \in D, r \in Bindings(u) : Effect(u, r[1]) < Effect(u, m[1]) => r \in D
    BY <1>0, <1>5, <1>6, <1>7, <2>1, <2>2 DEF Parents, InEffect
  <2>4. Follow(u, D, W, b, U, f) /\ Keeps(a, b)
    BY <1>0, <2>2, <2>3, ScopeClosed
  <2> QED
    BY <2>1, <2>4
<1>9. t[i].what \in {"binding", "block"}
  OBVIOUS
<1> QED
  BY <1>8, <1>9, QuietEnd

(* What the loop in use says of the constructs around.                     *)
LoopAround(t, u) == \E j \in Elements(Around(t)[Len(t)]) : u[j].what = "loop"

LEMMA InLoopIs ==
    ASSUME NEW t, NEW u, Longer(t, u), NEW x, NEW l, l = Innermost(t, Len(t) + 1, "loop"), IsLoop(t, l, x)
    PROVE  /\ l \in Nat /\ x.at = l /\ x \in [at : Nat, result : Nat]
           /\ (x # NoLoop) <=> (l # 0)
           /\ LoopAround(t, u) <=> (l # 0)
<1>0. t \in Seq(Events) /\ Len(t) \in Nat /\ Len(t) + 1 \in 1 .. Len(t) + 1
      /\ \A i \in 1 .. Len(t) : u[i] = t[i]
  BY NextFacts
<1>1. l \in Nat
  <2>1. l \in 0 .. Len(t)
    BY <1>0, InnermostIsBefore
  <2> QED
    BY <2>1
<1>2. x.at = l /\ x \in [at : Nat, result : Nat]
  BY <1>0, <1>1, LoopType
<1>3. x # NoLoop <=> l # 0
  <2>1. CASE l = 0
    <3>1. x.result = 0 /\ x = [at |-> 0, result |-> x.result]
      BY <2>1 DEF IsLoop, IsFirst
    <3>2. x = NoLoop
      BY <3>1 DEF NoLoop
    <3> QED
      BY <2>1, <3>2
  <2>2. CASE l # 0
    <3>1. NoLoop.at = 0
      BY DEF NoLoop
    <3> QED
      BY <1>2, <2>2, <3>1
  <2> QED
    BY <2>1, <2>2
<1>4. LoopAround(t, u) <=> Enclosing(t, Len(t) + 1, "loop") # {}
  <2>1. Len(t) + 1 - 1 = Len(t) /\ Len(t) \in 0 .. Len(t)
    BY <1>0
  <2>2. Elements(Around(t)[Len(t)]) \subseteq 1 .. Len(t)
    BY <1>0, <2>1, AroundElements
  <2>3. Enclosing(t, Len(t) + 1, "loop") = {j \in Elements(Around(t)[Len(t)]) : t[j].what = "loop"}
    BY <2>1 DEF Enclosing
  <2> QED
    BY <1>0, <2>2, <2>3 DEF LoopAround
<1>5. Enclosing(t, Len(t) + 1, "loop") # {} <=> l # 0
  <2>1. /\ Enclosing(t, Len(t) + 1, "loop") \subseteq 1 .. Len(t) + 1 - 1
        /\ l \in {0} \cup Enclosing(t, Len(t) + 1, "loop")
        /\ \A j \in Enclosing(t, Len(t) + 1, "loop") : j <= l
    BY <1>0, EnclosingFacts
  <2> QED
    BY <1>0, <1>1, <2>1
<1> QED
  BY <1>1, <1>2, <1>3, <1>4, <1>5

(* A construct is entered.                                                 *)
Frame(t, env, x) == [at |-> Len(t) + 1, env |-> env, outer |-> x]

Entered(t, o, env, x) == Append(o, Frame(t, env, x))

LEMMA StackGrows ==
    ASSUME NEW t, NEW u, Longer(t, u), NEW o, NEW a, StackFollows(t, o, a), IsArena(a),
           u[Len(t) + 1].what # "end", Opens(u, Len(t) + 1, Around(t)[Len(t)]),
           NEW env \in Nat, NEW x \in [at : Nat, result : Nat],
           NEW b, Parents(b), Grown(a, b), Pushes(u, o, a, b, Frame(t, env, x))
    PROVE  /\ StackFollows(u, Entered(t, o, env, x), b)
           /\ View(u, Entered(t, o, env, x)) = Widened(t, o, u, Len(t) + 1, env)
           /\ Appended(o, Entered(t, o, env, x), Frame(t, env, x))
<1>0. /\ t \in Seq(Events) /\ u \in Seq(Events) /\ Len(t) \in Nat
      /\ OpenFollows(t, o) /\ Chained(t, o, a) /\ o \in Seq(Frames)
  BY NextFacts DEF StackFollows, OpenFollows
<1>1. Frame(t, env, x) \in Frames /\ Frame(t, env, x).at = Len(t) + 1 /\ Frame(t, env, x).env = env
  BY <1>0 DEF Frame, Frames
<1>2. PICK frame : frame = Frame(t, env, x)
  OBVIOUS
<1>3. frame \in Frames /\ frame.at = Len(t) + 1 /\ frame.env = env
  BY <1>1, <1>2
<1>4. PICK q : q = Append(o, frame) /\ q = Entered(t, o, env, x)
  BY <1>2 DEF Entered
<1>5. OpenFollows(u, q)
  <2>1. OpenFollows(u, Append(o, frame))
    BY <1>0, <1>3, OpenPushed
  <2> QED
    BY <1>4, <2>1
<1>6. q \in Seq(Frames) /\ Appended(o, q, frame)
  <2>1. Len(o) \in Nat
    BY <1>0, LenProperties
  <2>2. /\ Append(o, frame) \in Seq(Frames) /\ Len(Append(o, frame)) = Len(o) + 1
        /\ Append(o, frame)[Len(o) + 1] = frame
        /\ \A p \in 1 .. Len(o) : Append(o, frame)[p] = o[p]
    BY <1>0, <1>3, AppendProperties
  <2> QED
    BY <1>4, <2>1, <2>2 DEF Appended
<1>7. \A p \in 0 .. Len(o) : IsScope(u, o, p) <=> IsScope(t, o, p)
  <2>1. Keeps(a, a)
    BY DEF Keeps, SameGlobals
  <2> QED
    BY <1>0, <2>1, ViewOfLonger
<1>8. Chained(u, q, b) /\ View(u, q) = Widened(t, o, u, frame.at, frame.env)
  <2>1. Pushes(u, o, a, b, frame)
    BY <1>2
  <2> QED
    BY <1>0, <1>3, <1>6, <1>7, <2>1, ChainPushed
<1>9. StackFollows(u, q, b)
  BY <1>5, <1>8 DEF StackFollows
<1> QED
  BY <1>2, <1>3, <1>4, <1>6, <1>8, <1>9

(* An event that starts something other than a loop.                       *)
LEMMA QuietStart ==
    ASSUME NEW t, NEW u, Longer(t, u), NEW o, OpenFollows(t, o), NEW x, NEW f, LoopsFollow(t, o, x, f),
           u[Len(t) + 1].what \in {"binding", "block", "break"}, Opens(u, Len(t) + 1, Around(t)[Len(t)]),
           NEW q, NEW frame, Appended(o, q, frame), frame.at = Len(t) + 1
    PROVE  LoopsFollow(u, q, x, f)
<1>1. Innermost(u, Len(u) + 1, "loop") = Innermost(t, Len(t) + 1, "loop")
  BY InnermostBehindStart
<1>2. \A i : EndsNow(t, u, i) => t[i].what \notin {"break", "loop"}
  BY DEF EndsNow
<1>3. \A j \in DOMAIN f : j = Len(t) + 1 \/ EndsNow(t, u, j) \/ (j \in DOMAIN f /\ f[j] = f[j])
  OBVIOUS
<1>4. (u[Len(t) + 1].what \in {"break", "continue"} /\ Innermost(t, Len(t) + 1, "loop") = 0)
          => (Len(t) + 1 \in DOMAIN f /\ f[Len(t) + 1] = 0)
  <2>1. PICK l : l = Innermost(t, Len(t) + 1, "loop") /\ IsLoop(t, l, x)
    BY DEF LoopsFollow
  <2>2. LoopAround(t, u) <=> (l # 0)
    BY <2>1, InLoopIs
  <2>3. u[Len(t) + 1].what = "break" => l # 0
    BY <2>2 DEF Opens, LoopAround
  <2> QED
    BY <2>1, <2>3
<1>5. \A p \in 1 .. Len(q) : (p \in 1 .. Len(o) /\ q[p] = o[p]) \/ u[q[p].at].what # "loop"
  <2>1. \A p \in 1 .. Len(q) : p \in 1 .. Len(o) \/ p = Len(q)
    BY DEF Appended
  <2> QED
    BY <2>1 DEF Appended
<1> QED
  BY <1>1, <1>2, <1>3, <1>4, <1>5, LoopsUnmoved

(* A binding, a loop or a break begins; only a loop changes the loop in use. *)
LEMMA StartStep ==
    ASSUME NEW t, NEW u, Longer(t, u), NEW o, NEW a, NEW x, NEW f, Reading(t, o, a, x, f),
           u[Len(t) + 1].what \in {"binding", "loop", "break"}, Opens(u, Len(t) + 1, Around(t)[Len(t)]),
           NEW y, y = IF u[Len(t) + 1].what = "loop" THEN [at |-> Len(t) + 1, result |-> 0] ELSE x
    PROVE  Reading(u, Entered(t, o, Env(o, Len(o)), x), a, y, f)
<1> DEFINE N == Len(t)
           l == Innermost(t, N + 1, "loop")
<1>0. /\ t \in Seq(Events) /\ u \in Seq(Events) /\ N \in Nat /\ Len(u) = N + 1 /\ N + 1 \in 1 .. N + 1
      /\ StackFollows(t, o, a) /\ OpenFollows(t, o) /\ Chained(t, o, a) /\ Parents(a) /\ IsArena(a)
      /\ ArenaFollows(t, View(t, o), a, f) /\ LoopsFollow(t, o, x, f) /\ IsLoop(t, l, x)
  BY NextFacts DEF Reading, StackFollows, ArenaFollows, Follow, LoopsFollow
<1>1. \A i : ~EndsNow(t, u, i)
  BY DEF EndsNow
<1>2. PICK env \in Nat : env = Env(o, Len(o))
  <2>1. Len(o) \in 0 .. Len(o)
    BY <1>0, OpenFacts
  <2>2. Env(o, Len(o)) \in 2 .. Len(a.environments)
    BY <1>0, <2>1 DEF Chained
  <2> QED
    BY <2>2
<1>3. x \in [at : Nat, result : Nat]
  BY <1>0, InLoopIs
<1>a. PICK q : q = Entered(t, o, env, x)
  OBVIOUS
<1>4. /\ StackFollows(u, q, a) /\ View(u, q) = Widened(t, o, u, N + 1, env)
      /\ Appended(o, q, Frame(t, env, x))
  <2>1. Len(a.environments) \in Nat
    BY <1>0, ArenaFacts
  <2>2. u[N + 1].what # "end" /\ u[N + 1].what # "block"
    OBVIOUS
  <2>3. Grown(a, a) /\ Pushes(u, o, a, a, Frame(t, env, x))
    BY <1>2, <2>1, <2>2 DEF Grown, Pushes, Frame
  <2> QED
    BY <1>0, <1>a, <1>3, <2>2, <2>3, StackGrows
<1>5. View(u, q) = View(t, o)
  BY <1>4 DEF Widened
<1>6. ArenaFollows(u, View(u, q), a, f)
  <2>1. PICK V : V = View(t, o) /\ V = View(u, q)
    BY <1>5
  <2>2. Follow(u, InEffect(u), V, a, Where(t, "use"), f)
    <3>1. Follow(t, InEffect(t), V, a, Where(t, "use"), f)
      BY <1>0, <2>1 DEF ArenaFollows
    <3>2. u[N + 1].what \notin {"template", "pattern"} /\ \A i : EndsNow(t, u, i) => t[i].what # "binding"
      BY <1>1
    <3> QED
      BY <3>1, <3>2, NothingBound
  <2>3. ArenaFollows(t, V, a, f) /\ SameGlobals(a, a) /\ u[N + 1].what # "use"
    BY <1>0, <2>1 DEF SameGlobals
  <2>4. ArenaFollows(u, V, a, f)
    BY <2>2, <2>3, ArenaInLonger DEF SameUses
  <2> QED
    BY <2>1, <2>4
<1>7. LoopsFollow(u, q, y, f)
  <2>1. CASE u[N + 1].what # "loop"
    <3>1. Frame(t, env, x).at = N + 1
      BY DEF Frame
    <3>2. u[N + 1].what \in {"binding", "block", "break"}
      BY <2>1
    <3>3. LoopsFollow(u, q, x, f)
      BY <1>0, <1>4, <3>1, <3>2, QuietStart
    <3> QED
      BY <2>1, <3>3
  <2>2. CASE u[N + 1].what = "loop"
    <3>1. y = [at |-> N + 1, result |-> 0]
      BY <2>2
    <3>2. Innermost(u, Len(u) + 1, "loop") = N + 1
      BY <1>0, <2>2, InnermostBehindStart
    <3>3. BreaksOf(u, N + 1) = {}
      <4>1. ASSUME NEW i \in BreaksOf(u, N + 1)
            PROVE  FALSE
        <5>1. i \in 1 .. Len(u) /\ Innermost(u, i, "loop") = N + 1
          BY <1>0, BreakFacts
        <5>2. i \in 1 .. Len(u) + 1
          BY <1>0, <5>1
        <5>3. Innermost(u, i, "loop") < i
          BY <1>0, <5>2, InnermostIsBefore
        <5> QED
          BY <1>0, <5>1, <5>3
      <4> QED
        BY <4>1
    <3>4. IsLoop(u, N + 1, y)
      BY <3>1, <3>3 DEF IsLoop, IsFirst
    <3>5. IsLoop(u, l, x)
      BY <1>0, <1>1, LoopStays
    <3>6. Innermost(u, N + 1, "loop") = l
      BY <1>0, InnermostOfLonger
    <3>7. OutersFollow(u, o)
      BY <1>0, OutersInLonger DEF LoopsFollow
    <3>8. OutersFollow(u, q)
      <4>1. \A p \in 1 .. Len(q) : (p \in 1 .. Len(o) /\ q[p] = o[p]) \/ p = Len(q)
        BY <1>4 DEF Appended
      <4>2. q[Len(q)].at = N + 1 /\ q[Len(q)].outer = x
        BY <1>4 DEF Frame, Appended
      <4> HIDE DEF l
      <4> QED
        BY <3>5, <3>6, <3>7, <4>1, <4>2 DEF OutersFollow
    <3>9. ResultsFollow(u, f)
      <4>1. \A j \in DOMAIN f : j = N + 1 \/ EndsNow(t, u, j) \/ (j \in DOMAIN f /\ f[j] = f[j])
        OBVIOUS
      <4>2. u[N + 1].what \notin {"break", "continue"} /\ ResultsFollow(t, f)
        BY <1>0, <2>2 DEF LoopsFollow
      <4> QED
        BY <1>0, <1>1, <4>1, <4>2, ResultsInLonger
    <3> QED
      BY <3>2, <3>4, <3>8, <3>9 DEF LoopsFollow
  <2> QED
    BY <2>1, <2>2
<1> QED
  BY <1>0, <1>2, <1>a, <1>4, <1>6, <1>7 DEF Reading

(* The same of a table that has a name.                                    *)
LEMMA PutIs ==
    ASSUME NEW f, NEW i, NEW v, NEW g, g = Put(f, i, v)
    PROVE  /\ i \in DOMAIN g /\ g[i] = v
           /\ \A j \in DOMAIN f : j # i => (j \in DOMAIN g /\ g[j] = f[j])
BY DEF Put

(* A block begins, with an environment that is empty.                      *)
LEMMA BlockStep ==
    ASSUME NEW t, NEW u, Longer(t, u), NEW o, NEW a, NEW x, NEW f, Reading(t, o, a, x, f),
           u[Len(t) + 1].what = "block", NEW b, b = NewScope(a, Env(o, Len(o)))
    PROVE  Reading(u, Entered(t, o, Len(a.environments) + 1, x), b, x, f)
<1> DEFINE N == Len(t)
           E == Len(a.environments)
           l == Innermost(t, N + 1, "loop")
<1>0. /\ t \in Seq(Events) /\ u \in Seq(Events) /\ N \in Nat /\ Len(u) = N + 1 /\ N + 1 \in 1 .. N + 1
      /\ StackFollows(t, o, a) /\ OpenFollows(t, o) /\ Chained(t, o, a) /\ Parents(a) /\ IsArena(a)
      /\ ArenaFollows(t, View(t, o), a, f) /\ LoopsFollow(t, o, x, f) /\ IsLoop(t, l, x)
      /\ Follow(t, InEffect(t), View(t, o), a, Where(t, "use"), f) /\ E \in Nat
  BY NextFacts, ArenaFacts DEF Reading, StackFollows, ArenaFollows, Follow, LoopsFollow
<1>1. PICK parent \in Nat : parent = Env(o, Len(o)) /\ parent \in 0 .. E
  <2>1. Len(o) \in 0 .. Len(o)
    BY <1>0, OpenFacts
  <2>2. Env(o, Len(o)) \in 2 .. Len(a.environments)
    BY <1>0, <2>1 DEF Chained
  <2> QED
    BY <1>0, <2>2
<1>2. /\ IsArena(b) /\ b.symbols = a.symbols /\ Len(b.environments) = E + 1
      /\ \A e \in 1 .. E : b.environments[e] = a.environments[e]
      /\ b.environments[E + 1] = [map |-> NoNames, parent |-> parent]
  <2>1. b = NewScope(a, parent)
    BY <1>1
  <2> QED
    BY <1>0, <2>1, NewScopeIs
<1>3. Parents(b)
  <2>1. \A e \in 1 .. E : a.environments[e].parent \in 0 .. e - 1
    BY <1>0 DEF Parents
  <2>2. E >= 2 /\ a.environments[1].parent = 0 /\ a.environments[2].parent = 1
    BY <1>0 DEF Parents, Module, Signature
  <2>3. \A e \in 1 .. E + 1 : e \in 1 .. E \/ e = E + 1
    BY <1>0
  <2>4. \A e \in 1 .. E + 1 : b.environments[e].parent \in 0 .. e - 1
    <3>1. (E + 1) - 1 = E
      BY <1>0
    <3>2. b.environments[E + 1].parent \in 0 .. (E + 1) - 1
      BY <1>1, <1>2, <3>1
    <3>3. ASSUME NEW e \in 1 .. E + 1
          PROVE  b.environments[e].parent \in 0 .. e - 1
      <4>1. CASE e \in 1 .. E
        BY <1>2, <2>1, <4>1
      <4>2. CASE e = E + 1
        BY <3>2, <4>2
      <4> QED
        BY <2>3, <4>1, <4>2
    <3> QED
      BY <3>3
  <2>5. 1 \in 1 .. E /\ 2 \in 1 .. E /\ E + 1 >= 2
    BY <1>0, <2>2
  <2>6. b.environments[1].parent = 0 /\ b.environments[2].parent = 1
    BY <1>2, <2>2, <2>5
  <2> HIDE DEF E
  <2> QED
    BY <1>2, <2>4, <2>5, <2>6 DEF Parents, Module, Signature
<1>4. x \in [at : Nat, result : Nat]
  BY <1>0, InLoopIs
<1>5. PICK env \in Nat : env = E + 1
  BY <1>0
<1>6. PICK q : q = Entered(t, o, env, x)
  OBVIOUS
<1>7. /\ StackFollows(u, q, b) /\ View(u, q) = Widened(t, o, u, N + 1, env)
      /\ Appended(o, q, Frame(t, env, x))
  <2>1. Grown(a, b)
    BY <1>0, <1>2 DEF Grown
  <2>2. Frame(t, env, x).at = N + 1 /\ Frame(t, env, x).env = env
    BY DEF Frame
  <2>3. Pushes(u, o, a, b, Frame(t, env, x))
    BY <1>1, <1>2, <1>5, <2>2 DEF Pushes
  <2>4. u[N + 1].what # "end" /\ Opens(u, N + 1, Around(t)[N])
    BY DEF Opens
  <2> QED
    BY <1>0, <1>3, <1>4, <1>6, <2>1, <2>3, <2>4, StackGrows
<1>8. View(u, q) = View(t, o) \cup {<<N + 1, env>>}
  BY <1>7 DEF Widened
<1>9. \A i : ~EndsNow(t, u, i)
  BY DEF EndsNow
<1>10. ArenaFollows(u, View(u, q), b, f)
  <2>1. PICK V, U, D : V = View(t, o) /\ U = Where(t, "use") /\ D = InEffect(u)
    OBVIOUS
  <2>2. Follow(u, D, V, a, U, f)
    <3>1. u[N + 1].what \notin {"template", "pattern"} /\ \A i : EndsNow(t, u, i) => t[i].what # "binding"
      BY <1>9
    <3> QED
      BY <1>0, <2>1, <3>1, NothingBound
  <2>3. \A s \in D : ScopeOf(u, s) # N + 1
    <3>1. ASSUME NEW s \in D
          PROVE  ScopeOf(u, s) # N + 1
      <4>1. s[1] \in 1 .. Len(u) /\ s[1] \in 1 .. Len(u) + 1
        <5>1. s[1] \in 1 .. Len(u)
          BY <1>0, <2>1, BindingFacts DEF InEffect
        <5> QED
          BY <1>0, <5>1
      <4>2. ScopeOf(u, s) < s[1] /\ ScopeOf(u, s) \in 0 .. Len(u)
        BY <1>0, <4>1, InnermostIsBefore DEF ScopeOf
      <4> QED
        BY <1>0, <4>1, <4>2
    <3> QED
      BY <3>1
  <2>4. IsView(V, a)
    BY <1>0, <2>1, ViewIsView
  <2>5. PICK at, w : at = N + 1 /\ w = <<at, E + 1>>
    OBVIOUS
  <2>6. Follow(u, D, V \cup {w}, b, U, f)
    <3>1. b = NewScope(a, parent) /\ \A s \in D : ScopeOf(u, s) # at
      BY <1>1, <2>3, <2>5
    <3> QED
      BY <1>0, <2>2, <2>4, <2>5, <3>1, ScopeOpened
  <2>7. PICK W : W = V \cup {w} /\ W = View(u, q)
    BY <1>5, <1>8, <2>1, <2>5
  <2>8. ArenaFollows(t, V, a, f) /\ SameGlobals(a, b) /\ u[N + 1].what # "use" /\ SameUses(t, f, f)
    BY <1>0, <1>2, <2>1 DEF SameGlobals, SameUses
  <2>9. Follow(u, InEffect(u), W, b, Where(t, "use"), f)
    BY <2>1, <2>6, <2>7
  <2>10. ArenaFollows(u, W, b, f)
    BY <2>8, <2>9, ArenaInLonger
  <2> QED
    BY <2>7, <2>10
<1>11. LoopsFollow(u, q, x, f)
  <2>1. Frame(t, env, x).at = N + 1
    BY DEF Frame
  <2>2. u[N + 1].what \in {"binding", "block", "break"} /\ Opens(u, N + 1, Around(t)[N])
    BY DEF Opens
  <2> QED
    BY <1>0, <1>7, <2>1, <2>2, QuietStart
<1> QED
  BY <1>0, <1>5, <1>6, <1>7, <1>10, <1>11 DEF Reading

(* The end of a loop or of a break: no scope ends with it.                 *)
LEMMA ArenaAtEnd ==
    ASSUME NEW t, NEW u, Longer(t, u), NEW o, NEW a, NEW x, NEW f, Reading(t, o, a, x, f),
           o # <<>>, u[Len(t) + 1].what = "end", NEW i, i = o[Len(o)].at, t[i].what \in {"loop", "break"},
           NEW r
    PROVE  StackFollows(u, Pop(o), a) /\ ArenaFollows(u, View(u, Pop(o)), a, Put(f, i, r))
<1>0. /\ t \in Seq(Events) /\ u \in Seq(Events) /\ StackFollows(t, o, a) /\ OpenFollows(t, o) /\ IsArena(a)
      /\ Chained(t, o, a) /\ ArenaFollows(t, View(t, o), a, f)
      /\ Follow(t, InEffect(t), View(t, o), a, Where(t, "use"), f)
  BY NextFacts DEF Reading, StackFollows, ArenaFollows, Follow
<1>1. Ended(t, u, o, i)
  BY <1>0, EndIsEnd
<1>2. StackFollows(u, Pop(o), a) /\ View(u, Pop(o)) = View(t, Pop(o))
  <2>1. Keeps(a, a)
    BY DEF Keeps, SameGlobals
  <2> QED
    BY <1>0, <1>1, <2>1, StackEnds
<1>3. View(t, Pop(o)) = View(t, o)
  <2>1. ~IsScope(t, o, Len(o))
    BY <1>1 DEF IsScope, Ended
  <2> QED
    BY <1>0, <2>1, ChainPopped
<1>4. SameUses(t, f, Put(f, i, r))
  <2>1. i \notin Where(t, "use")
    BY <1>0, WhereIs
  <2>2. PICK g : g = Put(f, i, r)
    OBVIOUS
  <2>3. SameUses(t, f, g)
    BY <2>1, <2>2, PutIs DEF SameUses
  <2> QED
    BY <2>2, <2>3
<1>5. PICK V, g : V = View(t, o) /\ V = View(u, Pop(o)) /\ g = Put(f, i, r)
  BY <1>2, <1>3
<1>6. Follow(u, InEffect(u), V, a, Where(t, "use"), f)
  <2>1. u[Len(t) + 1].what \notin {"template", "pattern"} /\ \A j : EndsNow(t, u, j) => t[j].what # "binding"
    BY <1>1 DEF Ended
  <2> QED
    BY <1>0, <1>5, <2>1, NothingBound
<1>7. ArenaFollows(u, V, a, g)
  <2>1. SameGlobals(a, a) /\ u[Len(t) + 1].what # "use" /\ ArenaFollows(t, V, a, f) /\ SameUses(t, f, g)
    BY <1>0, <1>4, <1>5 DEF SameGlobals
  <2> QED
    BY <1>6, <2>1, ArenaInLonger
<1> QED
  BY <1>2, <1>5, <1>7

(* A loop ends: its type is that of its first break, and the loop around is in use again. *)
LEMMA EndLoopStep ==
    ASSUME NEW t, NEW u, Longer(t, u), NEW o, NEW a, NEW x, NEW f, Reading(t, o, a, x, f),
           o # <<>>, u[Len(t) + 1].what = "end", NEW i, i = o[Len(o)].at, t[i].what = "loop"
    PROVE  Reading(u, Pop(o), a, o[Len(o)].outer, Put(f, i, x.result))
<1>0. /\ t \in Seq(Events) /\ u \in Seq(Events) /\ Len(t) \in Nat
      /\ OpenFollows(t, o) /\ LoopsFollow(t, o, x, f) /\ OutersFollow(t, o) /\ ResultsFollow(t, f)
      /\ IsLoop(t, Innermost(t, Len(t) + 1, "loop"), x)
  BY NextFacts DEF Reading, StackFollows, LoopsFollow
<1>1. Ended(t, u, o, i)
  BY <1>0, EndIsEnd
<1>2. StackFollows(u, Pop(o), a) /\ ArenaFollows(u, View(u, Pop(o)), a, Put(f, i, x.result))
  <2>1. t[i].what \in {"loop", "break"}
    OBVIOUS
  <2> QED
    BY <2>1, ArenaAtEnd
<1>3. OutersFollow(u, o)
  BY <1>0, OutersInLonger
<1>4. IsLoop(u, Innermost(u, Len(u) + 1, "loop"), o[Len(o)].outer)
  <2>1. Len(o) \in 1 .. Len(o) /\ u[o[Len(o)].at].what = "loop"
    BY <1>1 DEF Ended
  <2>2. IsLoop(u, Innermost(u, i, "loop"), o[Len(o)].outer)
    BY <1>3, <2>1 DEF OutersFollow
  <2>3. i \in 1 .. Len(t) + 1
    BY <1>0, <1>1 DEF Ended
  <2>4. Innermost(u, i, "loop") = Innermost(t, i, "loop")
    BY <2>3, InnermostOfLonger
  <2>5. Innermost(u, Len(u) + 1, "loop") = Innermost(t, i, "loop")
    BY <1>0, InnermostBehindEnd
  <2> QED
    BY <2>2, <2>4, <2>5
<1>5. OutersFollow(u, Pop(o))
  BY <1>1, <1>3 DEF Ended, OutersFollow
<1>6. IsFirst(u, i, x.result)
  <2>1. t[i].what = "loop" => Innermost(t, Len(t) + 1, "loop") = i
    BY <1>0, InnermostAtTop
  <2>2. \A j : EndsNow(t, u, j) => t[j].what # "break"
    BY <1>1 DEF Ended
  <2>3. IsLoop(u, Innermost(t, Len(t) + 1, "loop"), x)
    BY <1>0, <2>2, LoopStays
  <2> QED
    BY <2>1, <2>3 DEF IsLoop
<1>7. PICK g : g = Put(f, i, x.result)
  OBVIOUS
<1>8. i \in DOMAIN g /\ g[i] = x.result /\ \A j \in DOMAIN f : j # i => (j \in DOMAIN g /\ g[j] = f[j])
  BY <1>7, PutIs
<1>9. ResultsFollow(u, g)
  <2>1. \A j \in DOMAIN f : j = Len(t) + 1 \/ EndsNow(t, u, j) \/ (j \in DOMAIN g /\ g[j] = f[j])
    BY <1>1, <1>8 DEF Ended
  <2>2. \A l \in 1 .. Len(t) : EndsNow(t, u, l) /\ t[l].what = "loop" => l \in DOMAIN g /\ IsFirst(u, l, g[l])
    BY <1>1, <1>6, <1>8 DEF Ended
  <2>3. \A j \in 1 .. Len(t) : EndsNow(t, u, j) /\ t[j].what = "break"
            => j \in DOMAIN g /\ IsFirst(u, Innermost(t, j, "loop"), g[j])
    BY <1>1 DEF Ended
  <2>4. u[Len(t) + 1].what \notin {"break", "continue"}
    OBVIOUS
  <2> QED
    BY <1>0, <2>1, <2>2, <2>3, <2>4, ResultsInLonger
<1> QED
  BY <1>0, <1>2, <1>4, <1>5, <1>7, <1>9 DEF Reading, LoopsFollow

(* A break ends: it is the first of its loop if there was none.            *)
LEMMA EndBreakStep ==
    ASSUME NEW t, NEW u, Longer(t, u), NEW o, NEW a, NEW x, NEW f, Reading(t, o, a, x, f),
           o # <<>>, u[Len(t) + 1].what = "end", NEW i, i = o[Len(o)].at, t[i].what = "break",
           NEW r, r = IF x.result = 0 THEN i ELSE x.result
    PROVE  Reading(u, Pop(o), a, [x EXCEPT !.result = r], Put(f, i, r))
<1>0. /\ t \in Seq(Events) /\ u \in Seq(Events) /\ Len(t) \in Nat
      /\ OpenFollows(t, o) /\ LoopsFollow(t, o, x, f) /\ OutersFollow(t, o) /\ ResultsFollow(t, f)
      /\ IsLoop(t, Innermost(t, Len(t) + 1, "loop"), x)
  BY NextFacts DEF Reading, StackFollows, LoopsFollow
<1>1. Ended(t, u, o, i)
  BY <1>0, EndIsEnd
<1>2. StackFollows(u, Pop(o), a) /\ ArenaFollows(u, View(u, Pop(o)), a, Put(f, i, r))
  <2>1. t[i].what \in {"loop", "break"}
    OBVIOUS
  <2> QED
    BY <2>1, ArenaAtEnd
<1>3. OutersFollow(u, Pop(o))
  <2>1. OutersFollow(u, o)
    BY <1>0, OutersInLonger
  <2> QED
    BY <1>1, <2>1 DEF Ended, OutersFollow
<1>4. PICK l : /\ l = Innermost(t, i, "loop") /\ l = Innermost(t, Len(t) + 1, "loop")
               /\ l = Innermost(u, Len(u) + 1, "loop")
  <2>1. t[i].what # "loop"
    OBVIOUS
  <2>2. Innermost(t, i, "loop") = Innermost(t, Len(t) + 1, "loop")
    BY <1>0, <2>1, InnermostAtTop
  <2>3. Innermost(u, Len(u) + 1, "loop") = Innermost(t, i, "loop")
    BY <1>0, InnermostBehindEnd
  <2> QED
    BY <2>2, <2>3
<1>5. IsLoop(t, l, x)
  BY <1>0, <1>4
<1>6. l \in Nat \ {0}
  <2>1. EndsNow(t, u, i) /\ i \in 1 .. Len(t) /\ i \in 1 .. Len(t) + 1
    BY <1>0, <1>1 DEF Ended
  <2>2. IsOpener(t, i)
    BY <1>0, <2>1, TopIsOpen
  <2>3. \E j \in Elements(Around(t)[i - 1]) : t[j].what = "loop"
    BY <2>2 DEF IsOpener, Opens
  <2>4. Enclosing(t, i, "loop") # {}
    BY <2>3 DEF Enclosing
  <2>5. /\ Enclosing(t, i, "loop") \subseteq 1 .. i - 1
        /\ l \in {0} \cup Enclosing(t, i, "loop")
        /\ \A j \in Enclosing(t, i, "loop") : j <= l
    BY <1>0, <1>4, <2>1, EnclosingFacts
  <2> QED
    BY <2>1, <2>4, <2>5
<1>7. IsFirst(u, l, r)
  <2>1. IsFirst(t, l, x.result)
    BY <1>5 DEF IsLoop
  <2>2. CASE x.result = 0
    <3>1. EndsNow(t, u, i) /\ Innermost(t, i, "loop") = l
      BY <1>1, <1>4 DEF Ended
    <3>2. IsFirst(u, l, i)
      BY <1>6, <2>1, <2>2, <3>1, FirstNow
    <3> QED
      BY <2>2, <3>2
  <2>3. CASE x.result # 0
    <3>1. l \in Nat
      BY <1>6
    <3>2. IsFirst(u, l, x.result)
      BY <2>1, <2>3, <3>1, FirstInLonger
    <3> QED
      BY <2>3, <3>2
  <2> QED
    BY <2>2, <2>3
<1>8. IsLoop(u, l, [x EXCEPT !.result = r])
  <2>1. PICK y : y = [at |-> l, result |-> r]
    OBVIOUS
  <2>2. [x EXCEPT !.result = r] = y
    BY <1>5, <2>1 DEF IsLoop
  <2>3. y.result = r /\ y = [at |-> l, result |-> y.result]
    BY <2>1
  <2>4. IsLoop(u, l, y)
    BY <1>7, <2>3 DEF IsLoop
  <2> QED
    BY <2>2, <2>4
<1>9. PICK g : g = Put(f, i, r)
  OBVIOUS
<1>10. i \in DOMAIN g /\ g[i] = r /\ \A j \in DOMAIN f : j # i => (j \in DOMAIN g /\ g[j] = f[j])
  BY <1>9, PutIs
<1>11. ResultsFollow(u, g)
  <2>1. \A j \in DOMAIN f : j = Len(t) + 1 \/ EndsNow(t, u, j) \/ (j \in DOMAIN g /\ g[j] = f[j])
    BY <1>1, <1>10 DEF Ended
  <2>2. \A k \in 1 .. Len(t) : EndsNow(t, u, k) /\ t[k].what = "loop" => k \in DOMAIN g /\ IsFirst(u, k, g[k])
    BY <1>1 DEF Ended
  <2>3. \A j \in 1 .. Len(t) : EndsNow(t, u, j) /\ t[j].what = "break"
            => j \in DOMAIN g /\ IsFirst(u, Innermost(t, j, "loop"), g[j])
    BY <1>1, <1>4, <1>7, <1>10 DEF Ended
  <2>4. u[Len(t) + 1].what \notin {"break", "continue"}
    OBVIOUS
  <2> QED
    BY <1>0, <2>1, <2>2, <2>3, <2>4, ResultsInLonger
<1> QED
  BY <1>0, <1>2, <1>3, <1>4, <1>8, <1>9, <1>11 DEF Reading, LoopsFollow

(* The definitions of the module stay, and so does what falls back on them. *)
LEMMA SameMeaning ==
    ASSUME NEW a, NEW b, SameGlobals(a, b), NEW name \in Names, NEW d
    PROVE  Meaning(b, name, d) = Meaning(a, name, d)
BY DEF SameGlobals, Meaning

(* Nothing opens: the stack is what it was.                                *)
LEMMA StackStays ==
    ASSUME NEW t, NEW u, Longer(t, u), NEW o, NEW a, NEW b, StackFollows(t, o, a), IsArena(a), Keeps(a, b),
           u[Len(t) + 1].what # "end", ~Opens(u, Len(t) + 1, Around(t)[Len(t)])
    PROVE  StackFollows(u, o, b) /\ View(u, o) = View(t, o)
<1>0. OpenFollows(t, o) /\ Chained(t, o, a) /\ Parents(a)
  BY DEF StackFollows
<1>1. OpenFollows(u, o)
  BY <1>0, OpenKept
<1>2. Chained(u, o, b) /\ View(u, o) = View(t, o)
  BY <1>0, ViewOfLonger
<1>3. Parents(b)
  BY <1>0, ParentsKept
<1> QED
  BY <1>1, <1>2, <1>3 DEF StackFollows

(* An event that opens and ends nothing, and adds one entry at most to     *)
(* what is referred to.                                                    *)
LEMMA LoopsStay ==
    ASSUME NEW t, NEW u, Longer(t, u), NEW o, OpenFollows(t, o), NEW x, NEW f, LoopsFollow(t, o, x, f),
           u[Len(t) + 1].what # "end", ~Opens(u, Len(t) + 1, Around(t)[Len(t)]),
           NEW v, NEW g, g = Put(f, Len(t) + 1, v),
           (u[Len(t) + 1].what \in {"break", "continue"} /\ Innermost(t, Len(t) + 1, "loop") = 0) => v = 0
    PROVE  LoopsFollow(u, o, x, g)
<1>1. Innermost(u, Len(u) + 1, "loop") = Innermost(t, Len(t) + 1, "loop")
  BY InnermostBehindStart
<1>2. \A i : EndsNow(t, u, i) => t[i].what \notin {"break", "loop"}
  BY DEF EndsNow
<1>3. PICK i : i = Len(t) + 1
  OBVIOUS
<1>4. /\ i \in DOMAIN g /\ g[i] = v
      /\ \A j \in DOMAIN f : j # i => (j \in DOMAIN g /\ g[j] = f[j])
  BY <1>3, PutIs
<1>5. \A j \in DOMAIN f : \/ j = Len(t) + 1
                          \/ EndsNow(t, u, j)
                          \/ j \in DOMAIN g /\ g[j] = f[j]
  BY <1>3, <1>4
<1>6. (u[Len(t) + 1].what \in {"break", "continue"} /\ Innermost(t, Len(t) + 1, "loop") = 0)
          => (Len(t) + 1 \in DOMAIN g /\ g[Len(t) + 1] = 0)
  BY <1>3, <1>4
<1>7. \A p \in 1 .. Len(o) : \/ p \in 1 .. Len(o) /\ o[p] = o[p]
                             \/ u[o[p].at].what # "loop"
  OBVIOUS
<1> QED
  BY <1>1, <1>2, <1>5, <1>6, <1>7, LoopsUnmoved

(* A name is used: it is looked up, counted, and refers to what it means here. *)
LEMMA UseStep ==
    ASSUME NEW t, NEW u, Longer(t, u), NEW o, NEW a, NEW x, NEW f, Reading(t, o, a, x, f),
           NEW name \in Names, u[Len(t) + 1].what = "use", u[Len(t) + 1].names = <<name>>,
           NEW s, s = Looked(a, Env(o, Len(o)), name),
           NEW b, b = AfterUse(a, s),
           NEW g, g = Put(f, Len(t) + 1, s)
    PROVE  Reading(u, o, b, x, g)
<1>0. /\ t \in Seq(Events) /\ u \in Seq(Events) /\ Len(t) \in Nat /\ Len(t) + 1 \in 1 .. Len(t) + 1
      /\ StackFollows(t, o, a) /\ OpenFollows(t, o) /\ Chained(t, o, a) /\ Parents(a) /\ IsArena(a)
      /\ LoopsFollow(t, o, x, f) /\ UsesRead(t, a, f)
      /\ Follow(t, InEffect(t), View(t, o), a, Where(t, "use"), f)
      /\ MapsFollow(t, InEffect(t), View(t, o), a) /\ GlobalsFollow(a)
  BY NextFacts DEF Reading, StackFollows, ArenaFollows, Follow
<1>1. /\ \E d : Denotes(t, name, Len(t) + 1, d) /\ s = Meaning(a, name, d)
      /\ s \in {Unbound} \cup DOMAIN a.symbols
      /\ s \in InEffect(t) => s \in Mapped(a, View(t, o))
  BY <1>0, LookedUpIsDenoted
<1>2. PICK d : Denotes(t, name, Len(t) + 1, d) /\ s = Meaning(a, name, d)
  BY <1>1
<1>3. PICK k, V, U, D : k = Len(t) + 1 /\ V = View(t, o) /\ U = Where(t, "use") /\ D = InEffect(u)
  OBVIOUS
<1>4. Follow(u, D, V, a, U, f) /\ D = InEffect(t)
  <2>1. u[Len(t) + 1].what \notin {"template", "pattern"} /\ \A j : EndsNow(t, u, j) => t[j].what # "binding"
    BY DEF EndsNow
  <2>2. Follow(t, InEffect(t), V, a, U, f)
    BY <1>0, <1>3
  <2> QED
    BY <1>3, <2>1, <2>2, NothingBound
<1>5. /\ Where(u, "use") = U \cup {k}
      /\ \A i \in U : i \in 1 .. Len(t) /\ i # k /\ u[i] = t[i] /\ i \in DOMAIN f
  BY <1>0, <1>3, UsesOfLonger DEF UsesRead
<1>6. Follow(u, D, V, b, U \cup {k}, g) /\ Keeps(a, b)
  <2>1. U \subseteq DOMAIN f /\ k \notin U
    BY <1>5
  <2>2. s \in {Unbound} \cup DOMAIN a.symbols /\ (s \in D => s \in Mapped(a, V))
    BY <1>1, <1>3, <1>4
  <2>3. g = Put(f, k, s)
    BY <1>3
  <2>4. Follow(u, D, V, b, U \cup {k}, Put(f, k, s)) /\ Keeps(a, b)
    BY <1>4, <2>1, <2>2, SymbolUsed
  <2> QED
    BY <2>3, <2>4
<1>7. u[Len(t) + 1].what # "end" /\ ~Opens(u, Len(t) + 1, Around(t)[Len(t)])
  BY DEF Opens
<1>8. StackFollows(u, o, b) /\ View(u, o) = V
  BY <1>0, <1>3, <1>6, <1>7, StackStays
<1>9. UsesRead(u, b, g)
  <2>1. k \in DOMAIN g /\ g[k] = s /\ \A j \in DOMAIN f : j # k => (j \in DOMAIN g /\ g[j] = f[j])
    BY <1>3, PutIs
  <2>2. SameUses(t, f, g)
    BY <1>3, <1>5, <2>1 DEF SameUses
  <2>3. SameGlobals(a, b)
    BY <1>6 DEF Keeps
  <2>4. ASSUME NEW i \in U
        PROVE  i \in DOMAIN g /\ \E c : Denotes(u, u[i].names[1], i, c) /\ g[i] = Meaning(b, u[i].names[1], c)
    BY <1>0, <1>3, <2>2, <2>3, UseInLonger
  <2>5. u[k].names[1] = name
    BY <1>3
  <2>6. Denotes(u, name, k, d)
    BY <1>0, <1>2, <1>3, DenotedInLonger
  <2>7. g[k] = Meaning(b, name, d)
    BY <1>2, <2>1, <2>3, SameMeaning
  <2> QED
    BY <1>5, <2>1, <2>4, <2>5, <2>6, <2>7 DEF UsesRead
<1>10. ArenaFollows(u, View(u, o), b, g)
  BY <1>3, <1>5, <1>6, <1>8, <1>9 DEF ArenaFollows
<1>11. LoopsFollow(u, o, x, g)
  <2>1. u[Len(t) + 1].what \notin {"break", "continue"}
    OBVIOUS
  <2> QED
    BY <1>0, <1>7, <2>1, LoopsStay
<1> QED
  BY <1>0, <1>8, <1>10, <1>11 DEF Reading

(* A break outside of a loop, or a continue.                               *)
LEMMA ExitStep ==
    ASSUME NEW t, NEW u, Longer(t, u), NEW o, NEW a, NEW x, NEW f, Reading(t, o, a, x, f),
           u[Len(t) + 1].what = "continue" \/ (u[Len(t) + 1].what = "break" /\ x = NoLoop),
           NEW g, g = Put(f, Len(t) + 1, x.at)
    PROVE  Reading(u, o, a, x, g)
<1>0. /\ t \in Seq(Events) /\ u \in Seq(Events) /\ Len(t) \in Nat
      /\ StackFollows(t, o, a) /\ OpenFollows(t, o) /\ IsArena(a)
      /\ LoopsFollow(t, o, x, f) /\ ArenaFollows(t, View(t, o), a, f)
      /\ Follow(t, InEffect(t), View(t, o), a, Where(t, "use"), f)
  BY NextFacts DEF Reading, StackFollows, ArenaFollows, Follow
<1>1. PICK l : l = Innermost(t, Len(t) + 1, "loop") /\ IsLoop(t, l, x)
  BY <1>0 DEF LoopsFollow
<1>2. x.at = l /\ ((x # NoLoop) <=> (l # 0)) /\ (LoopAround(t, u) <=> (l # 0))
  BY <1>1, InLoopIs
<1>3. u[Len(t) + 1].what \in {"break", "continue"} /\ u[Len(t) + 1].what # "end"
  OBVIOUS
<1>4. ~Opens(u, Len(t) + 1, Around(t)[Len(t)])
  BY <1>2 DEF Opens, LoopAround
<1>5. Keeps(a, a) /\ SameGlobals(a, a)
  BY DEF Keeps, SameGlobals
<1>6. StackFollows(u, o, a) /\ View(u, o) = View(t, o)
  BY <1>0, <1>3, <1>4, <1>5, StackStays
<1>7. PICK V, i : V = View(t, o) /\ V = View(u, o) /\ i = Len(t) + 1
  BY <1>6
<1>8. Follow(u, InEffect(u), V, a, Where(t, "use"), f)
  <2>1. u[Len(t) + 1].what \notin {"template", "pattern"} /\ \A j : EndsNow(t, u, j) => t[j].what # "binding"
    BY DEF EndsNow
  <2> QED
    BY <1>0, <1>7, <2>1, NothingBound
<1>9. ArenaFollows(u, V, a, g)
  <2>1. \A j \in DOMAIN f : j # i => (j \in DOMAIN g /\ g[j] = f[j])
    BY <1>7, PutIs
  <2>2. \A j \in Where(t, "use") : j # i
    BY <1>7, UsesOfLonger
  <2>3. SameUses(t, f, g) /\ u[Len(t) + 1].what # "use" /\ ArenaFollows(t, V, a, f)
    BY <1>0, <1>3, <1>7, <2>1, <2>2 DEF SameUses
  <2> QED
    BY <1>5, <1>8, <2>3, ArenaInLonger
<1>10. LoopsFollow(u, o, x, g)
  BY <1>0, <1>1, <1>2, <1>3, <1>4, LoopsStay
<1> QED
  BY <1>0, <1>6, <1>7, <1>9, <1>10 DEF Reading

-----------------------------------------------------------------------------
(* The invariant: while the function is read, stack, arena and loop are    *)
(* what the text so far says; when it has been read, no scope is left.     *)
FunctionInvariant ==
    /\ vocabulary \in Vocabularies /\ stage \in {"reading", "finished"}
    /\ stage = "reading" => Reading(written, open, arena, loop, refers)
    /\ stage = "finished" =>
          /\ open = <<>> /\ written \in Seq(Events) /\ OpenFollows(written, open)
          /\ ArenaFollows(written, {}, arena, refers) /\ LoopsFollow(written, open, loop, refers)

(* Nothing is open or bound in the empty text.                             *)
LEMMA NothingInEmpty ==
    /\ <<>> \in Seq(Events) /\ Len(<<>>) = 0 /\ Around(<<>>)[0] = <<>>
    /\ InEffect(<<>>) = {} /\ \A what : Where(<<>>, what) = {}
    /\ \A what : Innermost(<<>>, 1, what) = 0
<1>1. <<>> \in Seq(Events) /\ Len(<<>>) = 0 /\ DOMAIN <<>> = {}
  OBVIOUS
<1>2. Around(<<>>)[0] = <<>>
  BY <1>1, AroundByEvents
<1>3. Binding(<<>>) = {} /\ \A what : Where(<<>>, what) = {}
  BY <1>1 DEF Binding, Where
<1>4. Bindings(<<>>) = {}
  BY <1>3 DEF Bindings
<1>5. InEffect(<<>>) = {}
  BY <1>4 DEF InEffect
<1>6. \A what : Innermost(<<>>, 1, what) = 0
  <2>1. ASSUME NEW what
        PROVE  Innermost(<<>>, 1, what) = 0
    <3>1. 1 \in 1 .. Len(<<>>) + 1
      BY <1>1
    <3>2. Enclosing(<<>>, 1, what) \subseteq 1 .. 1 - 1
          /\ Innermost(<<>>, 1, what) \in {0} \cup Enclosing(<<>>, 1, what)
      BY <1>1, <3>1, EnclosingFacts
    <3> QED
      BY <3>2
  <2> QED
    BY <2>1
<1> QED
  BY <1>1, <1>2, <1>3, <1>5, <1>6

(* The first arena: the environment of the module, and that of the signature. *)
LEMMA FirstArena ==
    ASSUME FunctionInit
    PROVE  /\ IsArena(arena) /\ GlobalsFollow(arena) /\ Parents(arena) /\ Len(arena.environments) = 2
           /\ arena.environments[2].map = NoNames
           /\ \A s \in DOMAIN arena.symbols : arena.symbols[s].uses = 0 /\ \E n \in Names : s = Global(n)
<1>1. PICK globals \in SUBSET vocabulary.names :
          arena = [environments |->
                     <<[map |-> [n \in Names |-> IF n \in globals THEN Global(n) ELSE Unbound],
                        parent |-> 0],
                       [map |-> NoNames, parent |-> Module]>>,
                   symbols |-> [s \in {Global(n) : n \in globals} |->
                                   Symbol(s[1], "definition")]]
  BY DEF FunctionInit
<1>2. globals \subseteq Names
  BY VocabulariesAssumption DEF FunctionInit
<1>3. PICK m : m = [n \in Names |-> IF n \in globals THEN Global(n) ELSE Unbound]
  OBVIOUS
<1>4. PICK E : E = <<[map |-> m, parent |-> 0], [map |-> NoNames, parent |-> Module]>>
  OBVIOUS
<1>5. PICK S : S = [s \in {Global(n) : n \in globals} |-> Symbol(s[1], "definition")]
  OBVIOUS
<1>6. arena = [environments |-> E, symbols |-> S]
  BY <1>1, <1>3, <1>4, <1>5
<1>7. arena.environments = E /\ arena.symbols = S
  BY <1>6
<1>8. /\ m \in [Names -> {Unbound} \cup Keys] /\ NoNames \in [Names -> {Unbound} \cup Keys]
      /\ \A n \in Names : m[n] = (IF n \in globals THEN Global(n) ELSE Unbound) /\ NoNames[n] = Unbound
  BY <1>2, <1>3 DEF Keys, NoNames
<1>9. DOMAIN S = {Global(n) : n \in globals} /\ \A s \in DOMAIN S : S[s] = Symbol(s[1], "definition")
  BY <1>5
<1>10. \A s \in DOMAIN S : \E n \in Names : n \in globals /\ s = Global(n) /\ s[1] = n
  BY <1>2, <1>9 DEF Global
<1>11. \A n \in Names : Symbol(n, "definition") \in Entries /\ Symbol(n, "definition").uses = 0
  BY DEF Symbol, Entries, Kinds
<1>12. \A n \in Names : Global(n) \in DOMAIN S <=> n \in globals
  BY <1>9, <1>10 DEF Global
<1>13. /\ Len(E) = 2 /\ E[1] = [map |-> m, parent |-> 0] /\ E[2] = [map |-> NoNames, parent |-> Module]
  BY <1>4
<1>14. E \in Seq(Environments)
  <2>1. [map |-> m, parent |-> 0] \in Environments /\ [map |-> NoNames, parent |-> Module] \in Environments
    BY <1>8 DEF Environments, Module
  <2> HIDE DEF Environments
  <2> QED
    BY <1>4, <2>1
<1>15. S \in [DOMAIN S -> Entries] /\ DOMAIN S \subseteq Keys
  <2>1. \A s \in DOMAIN S : S[s] \in Entries
    BY <1>9, <1>10, <1>11
  <2>2. S \in [DOMAIN S -> Entries]
    BY <1>5, <1>9, <2>1
  <2>3. DOMAIN S \subseteq Keys
    BY <1>2, <1>9 DEF Keys
  <2> QED
    BY <2>2, <2>3
<1>16. IsArena(arena)
  <2>1. \A e \in 1 .. Len(E) : e = 1 \/ e = 2
    BY <1>13
  <2>2. \A e \in 1 .. Len(E), n \in Names : E[e].map[n] \in {Unbound} \cup DOMAIN S
    <3>1. \A n \in Names : m[n] \in {Unbound} \cup DOMAIN S /\ NoNames[n] \in {Unbound} \cup DOMAIN S
      BY <1>8, <1>12
    <3>2. E[1].map = m /\ E[2].map = NoNames
      BY <1>13
    <3> QED
      BY <2>1, <3>1, <3>2
  <2> QED
    BY <1>6, <1>7, <1>14, <1>15, <2>2 DEF IsArena
<1>17. GlobalsFollow(arena)
  <2>1. E[Module].map = m
    BY <1>13 DEF Module
  <2> QED
    BY <1>7, <1>8, <1>12, <2>1 DEF GlobalsFollow
<1>18. Parents(arena)
  <2>1. Len(E) >= 2 /\ E[Module].parent = 0 /\ E[Signature].parent = Module
    BY <1>13 DEF Module, Signature
  <2>2. \A e \in 1 .. Len(E) : E[e].parent \in 0 .. e - 1
    <3>1. \A e \in 1 .. Len(E) : e = 1 \/ e = 2
      BY <1>13
    <3>2. E[1].parent \in 0 .. 1 - 1 /\ E[2].parent \in 0 .. 2 - 1
      BY <1>13 DEF Module
    <3> QED
      BY <3>1, <3>2
  <2> QED
    BY <1>7, <2>1, <2>2 DEF Parents
<1>19. \A s \in DOMAIN S : S[s].uses = 0 /\ \E n \in Names : s = Global(n)
  BY <1>9, <1>10, <1>11
<1>20. E[2].map = NoNames
  BY <1>13
<1> QED
  BY <1>7, <1>13, <1>16, <1>17, <1>18, <1>19, <1>20

(* The invariant holds at the beginning.                                   *)
LEMMA FunctionBegins ==
    ASSUME FunctionInit
    PROVE  FunctionInvariant
<1>1. /\ vocabulary \in Vocabularies /\ stage = "reading"
      /\ written = <<>> /\ open = <<>> /\ loop = NoLoop
  BY DEF FunctionInit
<1>2. /\ IsArena(arena) /\ GlobalsFollow(arena) /\ Parents(arena) /\ Len(arena.environments) = 2
      /\ arena.environments[2].map = NoNames
      /\ \A s \in DOMAIN arena.symbols : arena.symbols[s].uses = 0 /\ \E n \in Names : s = Global(n)
  BY FirstArena
<1>3. PICK t, o : t = <<>> /\ o = <<>> /\ t = written /\ o = open
  BY <1>1
<1>4. /\ t \in Seq(Events) /\ Len(t) = 0 /\ Around(t)[0] = <<>>
      /\ InEffect(t) = {} /\ \A what : Where(t, what) = {}
      /\ \A what : Innermost(t, 1, what) = 0
  BY <1>3, NothingInEmpty
<1>5. Len(o) = 0 /\ o \in Seq(Frames) /\ Env(o, 0) = 2 /\ Scope(o, 0) = 0 /\ IsScope(t, o, 0)
  BY <1>3 DEF Env, Scope, IsScope, Signature
<1>6. OpenFollows(t, o)
  BY <1>3, <1>4, <1>5 DEF OpenFollows
<1>7. Chained(t, o, arena)
  BY <1>2, <1>5 DEF Chained
<1>8. View(t, o) = {<<0, 2>>}
  <2>1. {q \in 0 .. Len(o) : IsScope(t, o, q)} = {0}
    BY <1>5
  <2> QED
    BY <1>5, <2>1 DEF View
<1>9. Follow(t, {}, {<<0, 2>>}, arena, {}, refers)
  <2>1. MapsFollow(t, {}, {<<0, 2>>}, arena)
    <3>1. \A n \in Names : arena.environments[2].map[n] = Unbound /\ Of(t, {}, n, 0) = {}
      BY <1>2 DEF NoNames, Of
    <3> QED
      BY <3>1 DEF MapsFollow, Shows
  <2>2. SymbolsFollow(t, {}, arena) /\ WarningsFollow(t, {}, arena, Mapped(arena, {<<0, 2>>}))
    BY <1>2 DEF SymbolsFollow, WarningsFollow
  <2>3. UsesFollow(arena, {}, refers)
    BY <1>2 DEF UsesFollow
  <2> QED
    BY <1>2, <2>1, <2>2, <2>3 DEF Follow
<1>10. ArenaFollows(t, View(t, o), arena, refers)
  BY <1>4, <1>8, <1>9 DEF ArenaFollows, UsesRead
<1>11. LoopsFollow(t, o, loop, refers)
  <2>1. Innermost(t, Len(t) + 1, "loop") = 0
    BY <1>4
  <2>2. IsLoop(t, 0, loop)
    <3>1. loop.result = 0 /\ loop = [at |-> 0, result |-> loop.result]
      BY <1>1 DEF NoLoop
    <3>2. IsFirst(t, 0, loop.result)
      BY <3>1 DEF IsFirst
    <3> QED
      BY <3>1, <3>2 DEF IsLoop
  <2>3. OutersFollow(t, o)
    BY <1>5 DEF OutersFollow
  <2>4. ResultsFollow(t, refers)
    BY <1>4 DEF ResultsFollow
  <2> QED
    BY <2>1, <2>2, <2>3, <2>4 DEF LoopsFollow
<1>12. Reading(written, open, arena, loop, refers)
  <2>1. Reading(t, o, arena, loop, refers)
    BY <1>2, <1>4, <1>6, <1>7, <1>10, <1>11 DEF Reading, StackFollows
  <2> QED
    BY <1>3, <2>1
<1> QED
  BY <1>1, <1>12 DEF FunctionInvariant

(* What the actions read are events.                                       *)
LEMMA EventsAre ==
    /\ \A n \in Names, kind \in {"type", "mutability"} :
          [what |-> "template", names |-> <<n>>, kind |-> kind] \in Events
    /\ \A names \in Seq(Names) : [what |-> "pattern", names |-> names, kind |-> "variable"] \in Events
    /\ \A names \in Seq(Names), kind \in {"variable", "type"} :
          [what |-> "binding", names |-> names, kind |-> kind] \in Events
    /\ \A n \in Names : [what |-> "use", names |-> <<n>>] \in Events
    /\ \A what \in {"block", "loop", "break", "continue", "end"} : [what |-> what] \in Events
BY DEF Events

(* One event is read, or the innermost construct ends.                     *)
LEMMA EventIsRead ==
    ASSUME FunctionInvariant, NEW event \in Events, NEW opens, Reads(event, opens)
    PROVE  /\ vocabulary \in Vocabularies /\ stage = "reading"
           /\ Reading(written, open, arena, loop, refers)
           /\ Longer(written, written') /\ written'[Len(written) + 1] = event
<1>1. stage = "reading" /\ written' = Append(written, event)
  BY DEF Reads
<1>2. vocabulary \in Vocabularies /\ Reading(written, open, arena, loop, refers)
  BY <1>1 DEF FunctionInvariant
<1>3. written \in Seq(Events)
  BY <1>2 DEF Reading
<1> QED
  BY <1>1, <1>2, <1>3, AppendIsLonger

LEMMA EndIsRead ==
    ASSUME FunctionInvariant, NEW what, Leaves(what)
    PROVE  /\ vocabulary \in Vocabularies /\ stage = "reading"
           /\ Reading(written, open, arena, loop, refers)
           /\ Longer(written, written') /\ written'[Len(written) + 1].what = "end"
           /\ open # <<>> /\ written[open[Len(open)].at].what = what /\ open' = Pop(open)
<1>1. /\ stage = "reading" /\ written' = Append(written, [what |-> "end"])
      /\ open # <<>> /\ written[open[Len(open)].at].what = what /\ open' = Pop(open)
  BY DEF Leaves, inner, Pop
<1>2. vocabulary \in Vocabularies /\ Reading(written, open, arena, loop, refers)
  BY <1>1 DEF FunctionInvariant
<1>3. PICK event \in Events : event = [what |-> "end"] /\ event.what = "end"
  BY EventsAre
<1>4. written \in Seq(Events)
  BY <1>2 DEF Reading
<1>5. Longer(written, Append(written, event)) /\ Append(written, event)[Len(written) + 1] = event
  BY <1>4, AppendIsLonger
<1> QED
  BY <1>1, <1>2, <1>3, <1>5

(* What the invariant asks of a step that goes on reading.                 *)
LEMMA StillReading ==
    ASSUME vocabulary \in Vocabularies, stage = "reading", vocabulary' = vocabulary, stage' = stage,
           Reading(written', open', arena', loop', refers')
    PROVE  FunctionInvariant'
BY DEF FunctionInvariant

(* The environment in use is that of the construct open last.              *)
LEMMA EnvIdIsEnv ==
    ASSUME Reading(written, open, arena, loop, refers)
    PROVE  env_id = Env(open, Len(open))
<1>1. open \in Seq(Frames)
  BY DEF Reading, StackFollows, OpenFollows
<1> QED
  BY <1>1 DEF env_id, Env

(* It is the environment of the innermost block.                           *)
LEMMA InUse ==
    ASSUME Reading(written, open, arena, loop, refers)
    PROVE  <<Innermost(written, Len(written) + 1, "block"), env_id>> \in View(written, open)
<1>1. written \in Seq(Events) /\ OpenFollows(written, open) /\ Chained(written, open, arena)
  BY DEF Reading, StackFollows
<1> QED
  BY <1>1, EnvIdIsEnv, InnermostIsInView

(* Each action keeps the invariant.                                        *)
LEMMA TemplateParameterStep ==
    ASSUME FunctionInvariant, TemplateParameter
    PROVE  FunctionInvariant'
<1>1. PICK name \in vocabulary.names, kind \in {"type", "mutability"} :
          /\ Reads([what |-> "template", names |-> <<name>>, kind |-> kind], FALSE)
          /\ arena' = BindSymbol(arena, Signature, name, <<here, 1>>, kind)
  BY DEF TemplateParameter
<1>2. /\ \A i \in DOMAIN written : written[i].what = "template"
      /\ vocabulary' = vocabulary /\ open' = open /\ loop' = loop /\ refers' = refers /\ stage' = stage
  BY DEF TemplateParameter
<1>3. name \in Names
  BY VocabulariesAssumption DEF FunctionInvariant
<1>4. PICK event \in Events : /\ event = [what |-> "template", names |-> <<name>>, kind |-> kind]
                              /\ event.what = "template" /\ event.names = <<name>> /\ event.kind = kind
  BY <1>3, EventsAre
<1>5. /\ vocabulary \in Vocabularies /\ stage = "reading" /\ Reading(written, open, arena, loop, refers)
      /\ Longer(written, written') /\ written'[Len(written) + 1] = event
  BY <1>1, <1>4, EventIsRead
<1>6. /\ OpenFollows(written, open) /\ IsArena(arena) /\ Parents(arena) /\ Len(written) \in Nat
      /\ Len(arena.environments) \in Nat /\ written \in Seq(Events)
  BY <1>5, NextFacts, ArenaFacts DEF Reading, StackFollows, ArenaFollows, Follow
<1>7. env_id = Signature
  <2>1. ASSUME open # <<>>
        PROVE  FALSE
    <3>1. open \in Seq(Frames) /\ Len(open) \in 1 .. Len(open)
      BY <1>6, <2>1 DEF OpenFollows
    <3>2. open[Len(open)].at \in 1 .. Len(written) /\ IsOpener(written, open[Len(open)].at)
      BY <1>6, <3>1, OpenFacts
    <3>3. written[open[Len(open)].at].what # "template"
      BY <3>2 DEF IsOpener, Opens
    <3>4. DOMAIN written = 1 .. Len(written)
      BY <1>6
    <3> QED
      BY <1>2, <3>2, <3>3, <3>4
  <2> QED
    BY <2>1 DEF env_id
<1>8. PICK at \in Nat : at = Len(written) + 1 /\ at = here
  BY <1>6 DEF here
<1>9. BindPattern(arena, Signature, at, <<name>>, kind) = BindSymbol(arena, Signature, name, <<at, 1>>, kind)
  <2>1. Signature \in 1 .. Len(arena.environments)
    BY <1>6 DEF Parents, Signature
  <2>2. kind \in Kinds
    BY DEF Kinds
  <2> QED
    BY <1>3, <1>6, <2>1, <2>2, BindOneNameIs
<1>10. arena' = BindPattern(arena, env_id, Len(written) + 1, written'[Len(written) + 1].names,
                            written'[Len(written) + 1].kind)
  BY <1>1, <1>4, <1>5, <1>7, <1>8, <1>9
<1>11. <<Innermost(written, Len(written) + 1, "block"), env_id>> \in View(written, open)
  BY <1>5, InUse
<1>12. written'[Len(written) + 1].what \in {"template", "pattern"}
  BY <1>4, <1>5
<1>13. Reading(written', open, arena', loop, refers)
  BY <1>5, <1>10, <1>11, <1>12, PatternStep
<1> QED
  BY <1>2, <1>5, <1>13, StillReading

LEMMA PatternIsBound ==
    ASSUME FunctionInvariant, Pattern
    PROVE  FunctionInvariant'
<1>1. PICK names \in vocabulary.patterns :
          /\ Reads([what |-> "pattern", names |-> names, kind |-> "variable"], FALSE)
          /\ arena' = BindPattern(arena, env_id, here, names, "variable")
  BY DEF Pattern
<1>2. vocabulary' = vocabulary /\ open' = open /\ loop' = loop /\ refers' = refers /\ stage' = stage
  BY DEF Pattern
<1>3. names \in Seq(Names)
  BY VocabulariesAssumption DEF FunctionInvariant
<1>4. PICK event \in Events : /\ event = [what |-> "pattern", names |-> names, kind |-> "variable"]
                              /\ event.what = "pattern" /\ event.names = names /\ event.kind = "variable"
  BY <1>3, EventsAre
<1>5. /\ vocabulary \in Vocabularies /\ stage = "reading" /\ Reading(written, open, arena, loop, refers)
      /\ Longer(written, written') /\ written'[Len(written) + 1] = event
  BY <1>1, <1>4, EventIsRead
<1>6. arena' = BindPattern(arena, env_id, Len(written) + 1, written'[Len(written) + 1].names,
                           written'[Len(written) + 1].kind)
  BY <1>1, <1>4, <1>5 DEF here
<1>7. <<Innermost(written, Len(written) + 1, "block"), env_id>> \in View(written, open)
  BY <1>5, InUse
<1>8. written'[Len(written) + 1].what \in {"template", "pattern"}
  BY <1>4, <1>5
<1>9. Reading(written', open, arena', loop, refers)
  BY <1>5, <1>6, <1>7, <1>8, PatternStep
<1> QED
  BY <1>2, <1>5, <1>9, StillReading

(* A binding, a loop or a break in a loop is begun.                        *)
LEMMA BeginStep ==
    ASSUME FunctionInvariant, NEW event \in Events, Reads(event, TRUE), Enter(env_id),
           event.what \in {"binding", "loop"} \/ (event.what = "break" /\ InLoop),
           loop' = IF event.what = "loop" THEN [at |-> here, result |-> 0] ELSE loop,
           vocabulary' = vocabulary, arena' = arena, refers' = refers, stage' = stage
    PROVE  FunctionInvariant'
<1>1. /\ vocabulary \in Vocabularies /\ stage = "reading" /\ Reading(written, open, arena, loop, refers)
      /\ Longer(written, written') /\ written'[Len(written) + 1] = event
  BY EventIsRead
<1>2. written'[Len(written) + 1].what \in {"binding", "loop", "break"}
  BY <1>1
<1>3. Opens(written', Len(written) + 1, Around(written)[Len(written)])
  <2>1. CASE event.what \in {"binding", "loop"}
    BY <1>1, <2>1 DEF Opens
  <2>2. CASE event.what = "break" /\ InLoop
    <3>1. PICK l : l = Innermost(written, Len(written) + 1, "loop") /\ IsLoop(written, l, loop)
      BY <1>1 DEF Reading, LoopsFollow
    <3>2. LoopAround(written, written')
      BY <1>1, <2>2, <3>1, InLoopIs DEF InLoop
    <3> QED
      BY <1>1, <2>2, <3>2 DEF Opens, LoopAround
  <2> QED
    BY <2>1, <2>2
<1>4. loop' = IF written'[Len(written) + 1].what = "loop" THEN [at |-> Len(written) + 1, result |-> 0] ELSE loop
  BY <1>1 DEF here
<1>5. open' = Entered(written, open, Env(open, Len(open)), loop)
  BY <1>1, EnvIdIsEnv DEF Enter, Entered, Frame, here
<1>6. Reading(written', Entered(written, open, Env(open, Len(open)), loop), arena, loop', refers)
  BY <1>1, <1>2, <1>3, <1>4, StartStep
<1> QED
  BY <1>1, <1>5, <1>6, StillReading

(* Those that begin with a construct of their own.                         *)
LEMMA BeginBindingStep ==
    ASSUME FunctionInvariant, BeginBinding
    PROVE  FunctionInvariant'
<1>1. PICK names \in vocabulary.patterns, kind \in vocabulary.kinds :
          Reads([what |-> "binding", names |-> names, kind |-> kind], TRUE)
  BY DEF BeginBinding
<1>2. /\ Enter(env_id) /\ vocabulary' = vocabulary /\ arena' = arena /\ loop' = loop
      /\ refers' = refers /\ stage' = stage
  BY DEF BeginBinding
<1>3. names \in Seq(Names) /\ kind \in {"variable", "type"}
  BY VocabulariesAssumption DEF FunctionInvariant
<1>4. PICK event \in Events : event = [what |-> "binding", names |-> names, kind |-> kind] /\ event.what = "binding"
  BY <1>3, EventsAre
<1> QED
  BY <1>1, <1>2, <1>4, BeginStep

LEMMA BeginLoopStep ==
    ASSUME FunctionInvariant, BeginLoop
    PROVE  FunctionInvariant'
<1>1. PICK event \in Events : event = [what |-> "loop"] /\ event.what = "loop"
  BY EventsAre
<1> QED
  BY <1>1, BeginStep DEF BeginLoop

LEMMA BeginBreakStep ==
    ASSUME FunctionInvariant, BeginBreak
    PROVE  FunctionInvariant'
<1>1. PICK event \in Events : event = [what |-> "break"] /\ event.what = "break"
  BY EventsAre
<1> QED
  BY <1>1, BeginStep DEF BeginBreak

LEMMA BeginBlockStep ==
    ASSUME FunctionInvariant, BeginBlock
    PROVE  FunctionInvariant'
<1>1. PICK event \in Events : event = [what |-> "block"] /\ event.what = "block"
  BY EventsAre
<1>2. /\ Reads(event, TRUE) /\ arena' = NewScope(arena, env_id) /\ Enter(Len(arena.environments) + 1)
      /\ vocabulary' = vocabulary /\ loop' = loop /\ refers' = refers /\ stage' = stage
  BY <1>1 DEF BeginBlock
<1>3. /\ vocabulary \in Vocabularies /\ stage = "reading" /\ Reading(written, open, arena, loop, refers)
      /\ Longer(written, written') /\ written'[Len(written) + 1] = event
  BY <1>2, EventIsRead
<1>4. written'[Len(written) + 1].what = "block"
  BY <1>1, <1>3
<1>5. arena' = NewScope(arena, Env(open, Len(open)))
  BY <1>2, <1>3, EnvIdIsEnv
<1>6. open' = Entered(written, open, Len(arena.environments) + 1, loop)
  BY <1>2 DEF Enter, Entered, Frame, here
<1>7. Reading(written', Entered(written, open, Len(arena.environments) + 1, loop), arena', loop, refers)
  BY <1>3, <1>4, <1>5, BlockStep
<1> QED
  BY <1>2, <1>3, <1>6, <1>7, StillReading

(* Those that end one.                                                     *)
LEMMA EndBindingIsRead ==
    ASSUME FunctionInvariant, EndBinding
    PROVE  FunctionInvariant'
<1>1. /\ Leaves("binding")
      /\ arena' = BindPattern(arena, open[Len(open)].env, open[Len(open)].at,
                              written[open[Len(open)].at].names, written[open[Len(open)].at].kind)
      /\ vocabulary' = vocabulary /\ loop' = loop /\ refers' = refers /\ stage' = stage
  BY DEF EndBinding, inner
<1>2. /\ vocabulary \in Vocabularies /\ stage = "reading"
      /\ Reading(written, open, arena, loop, refers)
      /\ Longer(written, written') /\ written'[Len(written) + 1].what = "end"
      /\ open # <<>> /\ written[open[Len(open)].at].what = "binding" /\ open' = Pop(open)
  BY <1>1, EndIsRead
<1>3. Reading(written', Pop(open), arena', loop, refers)
  BY <1>1, <1>2, EndBindingStep
<1> QED
  BY <1>1, <1>2, <1>3, StillReading

LEMMA EndBlockIsRead ==
    ASSUME FunctionInvariant, EndBlock
    PROVE  FunctionInvariant'
<1>1. /\ Leaves("block") /\ arena' = ReportUnused(arena, open[Len(open)].env)
      /\ vocabulary' = vocabulary /\ loop' = loop /\ refers' = refers /\ stage' = stage
  BY DEF EndBlock, inner
<1>2. /\ vocabulary \in Vocabularies /\ stage = "reading"
      /\ Reading(written, open, arena, loop, refers)
      /\ Longer(written, written') /\ written'[Len(written) + 1].what = "end"
      /\ open # <<>> /\ written[open[Len(open)].at].what = "block" /\ open' = Pop(open)
  BY <1>1, EndIsRead
<1>3. Reading(written', Pop(open), arena', loop, refers)
  BY <1>1, <1>2, EndBlockStep
<1> QED
  BY <1>1, <1>2, <1>3, StillReading

LEMMA EndLoopIsRead ==
    ASSUME FunctionInvariant, EndLoop
    PROVE  FunctionInvariant'
<1>1. /\ Leaves("loop") /\ refers' = Put(refers, open[Len(open)].at, loop.result)
      /\ loop' = open[Len(open)].outer
      /\ vocabulary' = vocabulary /\ arena' = arena /\ stage' = stage
  BY DEF EndLoop, inner
<1>2. /\ vocabulary \in Vocabularies /\ stage = "reading"
      /\ Reading(written, open, arena, loop, refers)
      /\ Longer(written, written') /\ written'[Len(written) + 1].what = "end"
      /\ open # <<>> /\ written[open[Len(open)].at].what = "loop" /\ open' = Pop(open)
  BY <1>1, EndIsRead
<1>3. PICK i : i = open[Len(open)].at /\ written[i].what = "loop" /\ refers' = Put(refers, i, loop.result)
  BY <1>1, <1>2
<1>4. Reading(written', Pop(open), arena, open[Len(open)].outer, Put(refers, i, loop.result))
  BY <1>2, <1>3, EndLoopStep
<1> QED
  BY <1>1, <1>2, <1>3, <1>4, StillReading

LEMMA EndBreakIsRead ==
    ASSUME FunctionInvariant, EndBreak
    PROVE  FunctionInvariant'
<1>1. PICK r : /\ r = IF loop.result = 0 THEN open[Len(open)].at ELSE loop.result
               /\ loop' = [loop EXCEPT !.result = r] /\ refers' = Put(refers, open[Len(open)].at, r)
  BY DEF EndBreak, inner
<1>2. Leaves("break") /\ vocabulary' = vocabulary /\ arena' = arena /\ stage' = stage
  BY DEF EndBreak
<1>3. /\ vocabulary \in Vocabularies /\ stage = "reading"
      /\ Reading(written, open, arena, loop, refers)
      /\ Longer(written, written') /\ written'[Len(written) + 1].what = "end"
      /\ open # <<>> /\ written[open[Len(open)].at].what = "break" /\ open' = Pop(open)
  BY <1>2, EndIsRead
<1>4. PICK i : /\ i = open[Len(open)].at /\ written[i].what = "break" /\ refers' = Put(refers, i, r)
               /\ r = IF loop.result = 0 THEN i ELSE loop.result
  BY <1>1, <1>3
<1>5. Reading(written', Pop(open), arena, [loop EXCEPT !.result = r], Put(refers, i, r))
  BY <1>3, <1>4, EndBreakStep
<1> QED
  BY <1>1, <1>2, <1>3, <1>4, <1>5, StillReading

(* Those that do neither.                                                  *)
LEMMA UseIsRead ==
    ASSUME FunctionInvariant, Use
    PROVE  FunctionInvariant'
<1>1. PICK name \in vocabulary.names :
          LET start == StartingPoint(arena, env_id, name)
              s == IF start = 0 THEN Unbound ELSE arena.environments[start].map[name]
          IN  /\ Reads([what |-> "use", names |-> <<name>>], FALSE)
              /\ arena' = IF s = Unbound THEN arena ELSE [arena EXCEPT !.symbols[s].uses = @ + 1]
              /\ refers' = Put(refers, here, s)
  BY DEF Use
<1>2. PICK s : s = Looked(arena, env_id, name)
  OBVIOUS
<1>3. /\ Reads([what |-> "use", names |-> <<name>>], FALSE)
      /\ arena' = AfterUse(arena, s) /\ refers' = Put(refers, here, s)
  BY <1>1, <1>2 DEF Looked, AfterUse
<1>4. vocabulary' = vocabulary /\ open' = open /\ loop' = loop /\ stage' = stage
  BY DEF Use
<1>5. name \in Names
  BY VocabulariesAssumption DEF FunctionInvariant
<1>6. PICK event \in Events : /\ event = [what |-> "use", names |-> <<name>>]
                              /\ event.what = "use" /\ event.names = <<name>>
  BY <1>5, EventsAre
<1>7. /\ vocabulary \in Vocabularies /\ stage = "reading" /\ Reading(written, open, arena, loop, refers)
      /\ Longer(written, written') /\ written'[Len(written) + 1] = event
  BY <1>3, <1>6, EventIsRead
<1>8. s = Looked(arena, Env(open, Len(open)), name) /\ refers' = Put(refers, Len(written) + 1, s)
  BY <1>2, <1>3, <1>7, EnvIdIsEnv DEF here
<1>9. written'[Len(written) + 1].what = "use" /\ written'[Len(written) + 1].names = <<name>>
  BY <1>6, <1>7
<1>10. Reading(written', open, arena', loop, refers')
  BY <1>3, <1>5, <1>7, <1>8, <1>9, UseStep
<1> QED
  BY <1>4, <1>7, <1>10, StillReading

LEMMA ExitIsRead ==
    ASSUME FunctionInvariant, Exit
    PROVE  FunctionInvariant'
<1>1. /\ (~InLoop /\ Reads([what |-> "break"], FALSE)) \/ Reads([what |-> "continue"], FALSE)
      /\ refers' = Put(refers, Len(written) + 1, loop.at)
      /\ vocabulary' = vocabulary /\ open' = open /\ arena' = arena /\ loop' = loop /\ stage' = stage
  BY DEF Exit, here
<1>2. PICK event \in Events : /\ Reads(event, FALSE)
                              /\ event.what = "continue" \/ (event.what = "break" /\ loop = NoLoop)
  <2>1. CASE ~InLoop /\ Reads([what |-> "break"], FALSE)
    <3>1. [what |-> "break"] \in Events /\ [what |-> "break"].what = "break"
      BY EventsAre
    <3> QED
      BY <2>1, <3>1 DEF InLoop
  <2>2. CASE Reads([what |-> "continue"], FALSE)
    <3>1. [what |-> "continue"] \in Events /\ [what |-> "continue"].what = "continue"
      BY EventsAre
    <3> QED
      BY <2>2, <3>1
  <2> QED
    BY <1>1, <2>1, <2>2
<1>3. /\ vocabulary \in Vocabularies /\ stage = "reading" /\ Reading(written, open, arena, loop, refers)
      /\ Longer(written, written') /\ written'[Len(written) + 1] = event
  BY <1>2, EventIsRead
<1>4. written'[Len(written) + 1].what = "continue" \/ (written'[Len(written) + 1].what = "break" /\ loop = NoLoop)
  BY <1>2, <1>3
<1>5. Reading(written', open, arena, loop, refers')
  BY <1>1, <1>3, <1>4, ExitStep
<1> QED
  BY <1>1, <1>3, <1>5, StillReading

(* The end of the body closes the scope of the signature: none is in view. *)
LEMMA EndOfBodyIsReached ==
    ASSUME FunctionInvariant, EndOfBody
    PROVE  FunctionInvariant'
<1>1. /\ stage = "reading" /\ open = <<>> /\ arena' = ReportUnused(arena, Signature) /\ stage' = "finished"
      /\ vocabulary' = vocabulary /\ written' = written /\ open' = open /\ loop' = loop /\ refers' = refers
  BY DEF EndOfBody
<1>2. /\ vocabulary \in Vocabularies /\ written \in Seq(Events)
      /\ OpenFollows(written, open) /\ Chained(written, open, arena) /\ Parents(arena)
      /\ ArenaFollows(written, View(written, open), arena, refers) /\ LoopsFollow(written, open, loop, refers)
  BY <1>1 DEF FunctionInvariant, Reading, StackFollows
<1>3. PICK t, b, f : t = written /\ b = arena' /\ f = refers
  OBVIOUS
<1>4. View(t, open) = {<<0, Signature>>}
  <2>1. Len(open) = 0 /\ Env(open, 0) = Signature /\ Scope(open, 0) = 0 /\ IsScope(t, open, 0)
    BY <1>1 DEF Env, Scope, IsScope
  <2>2. {q \in 0 .. Len(open) : IsScope(t, open, q)} = {0}
    BY <2>1
  <2> QED
    BY <2>1, <2>2 DEF View
<1>5. PICK w, V, D, U : /\ w = <<0, Signature>> /\ V = {} /\ D = InEffect(t) /\ U = Where(t, "use")
                        /\ V \cup {w} = View(t, open)
  <2>1. {} \cup {<<0, Signature>>} = View(t, open)
    BY <1>4
  <2> QED
    BY <2>1
<1>6. /\ IsView(V \cup {w}, arena) /\ Follow(t, D, V \cup {w}, arena, U, f)
      /\ UsesRead(t, arena, f) /\ Len(arena.environments) >= 2
  <2>1. Follow(t, D, V \cup {w}, arena, U, f) /\ UsesRead(t, arena, f)
    BY <1>2, <1>3, <1>5 DEF ArenaFollows
  <2>2. IsArena(arena)
    BY <2>1 DEF Follow
  <2>3. IsView(V \cup {w}, arena)
    BY <1>2, <1>3, <1>5, <2>2, ViewIsView
  <2> QED
    BY <1>2, <2>1, <2>3 DEF Parents
<1>7. D \subseteq Bindings(t) /\ \A m \in D, r \in Bindings(t) : Effect(t, r[1]) < Effect(t, m[1]) => r \in D
  <2>1. D \subseteq Bindings(t) /\ \A m \in D : Effect(t, m[1]) <= Len(t)
    BY <1>5 DEF InEffect
  <2>2. \A r \in Bindings(t) : Effect(t, r[1]) \in Nat
    BY <1>2, <1>3, BindingFacts, EffectFacts
  <2>3. Len(t) \in Nat
    BY <1>2, <1>3
  <2>4. ASSUME NEW m \in D, NEW r \in Bindings(t), Effect(t, r[1]) < Effect(t, m[1])
        PROVE  r \in D
    <3>1. Effect(t, r[1]) <= Len(t)
      BY <2>1, <2>2, <2>3, <2>4
    <3> QED
      BY <1>5, <3>1 DEF InEffect
  <2> QED
    BY <2>1, <2>4
<1>8. Follow(t, D, V, b, U, f) /\ Keeps(arena, b)
  <2>1. w \notin V /\ b = ReportUnused(arena, w[2])
    BY <1>1, <1>3, <1>5
  <2> QED
    BY <1>2, <1>3, <1>6, <1>7, <2>1, ScopeClosed
<1>9. UsesRead(t, b, f)
  <2>1. SameGlobals(arena, b)
    BY <1>8 DEF Keeps
  <2>2. ASSUME NEW i \in Where(t, "use")
        PROVE  i \in DOMAIN f /\ \E d : Denotes(t, t[i].names[1], i, d) /\ f[i] = Meaning(b, t[i].names[1], d)
    <3>1. t[i].names[1] \in Names
      BY <1>2, <1>3, UseFacts
    <3>2. i \in DOMAIN f /\ \E d : Denotes(t, t[i].names[1], i, d) /\ f[i] = Meaning(arena, t[i].names[1], d)
      BY <1>6 DEF UsesRead
    <3> QED
      BY <2>1, <3>1, <3>2, SameMeaning
  <2> QED
    BY <2>2 DEF UsesRead
<1>10. ArenaFollows(t, {}, b, f)
  BY <1>5, <1>8, <1>9 DEF ArenaFollows
<1>11. ArenaFollows(written', {}, arena', refers')
  BY <1>1, <1>3, <1>10
<1>12. OpenFollows(written', open') /\ LoopsFollow(written', open', loop', refers') /\ written' \in Seq(Events)
  BY <1>1, <1>2
<1> QED
  BY <1>1, <1>2, <1>11, <1>12 DEF FunctionInvariant

(* Every step keeps the invariant.                                         *)
LEMMA FunctionSteps ==
    ASSUME FunctionInvariant, [FunctionNext]_functionVars
    PROVE  FunctionInvariant'
<1>1. CASE FunctionNext
  BY <1>1, TemplateParameterStep, PatternIsBound, BeginBindingStep, EndBindingIsRead, BeginBlockStep, EndBlockIsRead,
     UseIsRead, EndOfBodyIsReached, BeginLoopStep, EndLoopIsRead, BeginBreakStep, EndBreakIsRead, ExitIsRead
     DEF FunctionNext
<1>2. CASE UNCHANGED functionVars
  BY <1>2 DEF functionVars, FunctionInvariant
<1> QED
  BY <1>1, <1>2

(* Whatever the names, the vocabularies and the text: at every moment the  *)
(* stack of open constructs, the environments in view with the symbols     *)
(* they hold, the use counts and warnings, and the current loop are what   *)
(* the text read so far says.                                              *)
THEOREM FunctionFollowsText == FunctionSpec => []FunctionInvariant
<1>1. FunctionInit => FunctionInvariant
  BY FunctionBegins
<1>2. FunctionInvariant /\ [FunctionNext]_functionVars => FunctionInvariant'
  BY FunctionSteps
<1> QED
  BY <1>1, <1>2, PTL DEF FunctionSpec
-----------------------------------------------------------------------------
(* What the invariant says of a text that has been read.                   *)

LEMMA ReadByMeaning ==
    ASSUME FunctionInvariant, stage = "finished"
    PROVE  /\ written \in Seq(Events) /\ Follow(written, InEffect(written), {}, arena, Mentions, refers)
           /\ LoopsFollow(written, open, loop, refers) /\ OpenFollows(written, open) /\ open = <<>>
           /\ \A i \in Mentions : refers[i] = Lexical(written[i].names[1], i)
<1>1. /\ written \in Seq(Events) /\ ArenaFollows(written, {}, arena, refers)
      /\ LoopsFollow(written, open, loop, refers) /\ OpenFollows(written, open) /\ open = <<>>
  BY DEF FunctionInvariant
<1>2. Follow(written, InEffect(written), {}, arena, Mentions, refers) /\ UsesRead(written, arena, refers)
  BY <1>1 DEF ArenaFollows, Mentions
<1>3. ASSUME NEW i \in Mentions
      PROVE  refers[i] = Lexical(written[i].names[1], i)
  <2>1. PICK d : /\ Denotes(written, written[i].names[1], i, d)
                 /\ refers[i] = Meaning(arena, written[i].names[1], d)
    BY <1>2 DEF UsesRead, Mentions
  <2>2. Local(written, written[i].names[1], i) = d
    BY <1>1, <2>1, DenotedIsLocal
  <2> QED
    BY <2>1, <2>2 DEF Lexical, Meaning
<1> QED
  BY <1>1, <1>2, <1>3

(* Every use of a name refers to what the text says of the name: to the    *)
(* latest complete binding of the innermost scope that has one (or the     *)
(* mutability that could not be hidden), else to the definition of the     *)
(* module, else to nothing - for every text, however its scopes nest.      *)
THEOREM NamesAreLexical == FunctionSpec => []NamesResolveLexically
<1>1. FunctionInvariant => NamesResolveLexically
  BY ReadByMeaning DEF NamesResolveLexically
<1> QED
  BY <1>1, FunctionFollowsText, PTL

(* Whatever the text, a binding of the function is reported exactly once   *)
(* if no name means it, its name does not begin with an underscore and it  *)
(* could be bound, and otherwise never.                                    *)
THEOREM UnusedReportedOnce == FunctionSpec => []UnusedIsReportedOnce
<1>1. ASSUME FunctionInvariant, stage = "finished", NEW s \in Locals
      PROVE  arena.symbols[s].warned = IF Wanted(s) THEN 1 ELSE 0
  <2>1. /\ written \in Seq(Events) /\ Follow(written, InEffect(written), {}, arena, Mentions, refers)
        /\ \A i \in Mentions : refers[i] = Lexical(written[i].names[1], i)
    BY <1>1, ReadByMeaning
  <2>2. s \in DOMAIN arena.symbols /\ s \in InEffect(written)
    <3>1. s \in InEffect(written) \/ \E n \in Names : s = Global(n)
      BY <2>1 DEF Follow, SymbolsFollow, Locals
    <3>2. \A n : Len(Global(n)) = 1
      BY Distinct
    <3> QED
      BY <3>1, <3>2 DEF Locals
  <2>3. arena.symbols[s].name = NameOf(written, s)
    BY <2>1, <2>2 DEF Follow, SymbolsFollow
  <2>4. arena.symbols[s].uses = 0 <=> \A i \in Mentions : refers[i] # s
    BY <2>1, <2>2 DEF Follow, UsesFollow
  <2>5. arena.symbols[s].warned = IF ~Hidden(written, s) /\ IsUnused(arena.symbols[s]) THEN 1 ELSE 0
    <3>1. Mapped(arena, {}) = {}
      BY DEF Mapped
    <3> QED
      BY <2>1, <2>2, <3>1 DEF Follow, WarningsFollow
  <2>6. IsUnused(arena.symbols[s]) <=>
            /\ NameOf(written, s) \notin Silent
            /\ \A i \in Mentions : Lexical(written[i].names[1], i) # s
    BY <2>1, <2>3, <2>4 DEF IsUnused
  <2>7. (~Hidden(written, s) /\ IsUnused(arena.symbols[s])) <=> Wanted(s)
    BY <2>6 DEF Wanted
  <2> QED
    BY <2>5, <2>7
<1>2. FunctionInvariant => UnusedIsReportedOnce
  BY <1>1 DEF UnusedIsReportedOnce
<1> QED
  BY <1>2, FunctionFollowsText, PTL

(* Whatever the text, every break is a break of the innermost loop around  *)
(* it; loop and breaks have the type of the operand that was complete      *)
(* first; and a break or continue outside of loops belongs to none.        *)
THEOREM BreaksAreInTheirLoop == FunctionSpec => []BreaksBelongToTheirLoop
<1>1. ASSUME FunctionInvariant, stage = "finished"
      PROVE  /\ \A l \in Where(written, "loop") :
                   /\ refers[l] = First(written, l)
                   /\ \A i \in BreaksOf(written, l) : refers[i] = First(written, l)
             /\ \A i \in Where(written, "break") \cup Where(written, "continue") :
                   Innermost(written, i, "loop") = 0 => refers[i] = 0
  <2>1. /\ written \in Seq(Events) /\ ResultsFollow(written, refers) /\ OpenFollows(written, <<>>)
    BY <1>1, ReadByMeaning DEF LoopsFollow
  <2>2. Elements(Around(written)[Len(written)]) = {}
    <3>1. Len(written) \in 0 .. Len(written) /\ Len(Around(written)[Len(written)]) = 0
      BY <2>1 DEF OpenFollows
    <3>2. Elements(Around(written)[Len(written)])
              = {Around(written)[Len(written)][p] : p \in 1 .. Len(Around(written)[Len(written)])}
      BY <2>1, <3>1, AroundFacts
    <3> QED
      BY <3>1, <3>2
  <2>3. ASSUME NEW l \in Where(written, "loop")
        PROVE  /\ refers[l] = First(written, l)
               /\ \A i \in BreaksOf(written, l) : refers[i] = First(written, l)
    <3>1. l \in 1 .. Len(written) /\ written[l].what = "loop" /\ l # 0
      BY <2>1, WhereIs
    <3>2. Closed(written, l)
      <4>1. IsOpener(written, l)
        BY <3>1 DEF IsOpener, Opens
      <4> QED
        BY <2>1, <2>2, <3>1, <4>1, NoEndIsOpen
    <3>3. refers[l] = First(written, l)
      <4>1. IsFirst(written, l, refers[l])
        BY <2>1, <3>2 DEF ResultsFollow
      <4>2. First(written, l) = refers[l]
        BY <2>1, <3>1, <4>1, FirstIs
      <4> QED
        BY <4>2
    <3>4. ASSUME NEW i \in BreaksOf(written, l)
          PROVE  refers[i] = First(written, l)
      <4>1. i \in Where(written, "break") /\ Closed(written, i) /\ Innermost(written, i, "loop") = l
        BY DEF BreaksOf
      <4>2. IsFirst(written, l, refers[i])
        BY <2>1, <3>1, <4>1 DEF ResultsFollow
      <4>3. First(written, l) = refers[i]
        BY <2>1, <3>1, <4>2, FirstIs
      <4> QED
        BY <4>3
    <3> QED
      BY <3>3, <3>4
  <2>4. \A i \in Where(written, "break") \cup Where(written, "continue") :
            Innermost(written, i, "loop") = 0 => refers[i] = 0
    BY <2>1 DEF ResultsFollow
  <2> QED
    BY <2>3, <2>4
<1>2. FunctionInvariant => BreaksBelongToTheirLoop
  BY <1>1 DEF BreaksBelongToTheirLoop
<1> QED
  BY <1>2, FunctionFollowsText, PTL
=============================================================================
