----------------------------- MODULE EditorProofs -----------------------------
(***************************************************************************)
(* Proofs about the two things between the server and its editor, for      *)
(* every value of the constants: the stream of Rpc and the document of     *)
(* TextDocument.                                                           *)
(*                                                                         *)
(* The stream hands on the messages whole, in order and once.  The proof   *)
(* is about what lies in the stream: the frames of the messages that are   *)
(* still to be received, one behind the other, the first as far as it is   *)
(* not read and the last perhaps cut off (StreamInv).  The reader knows    *)
(* where a frame ends only from the digits in it, so it stands on the fact *)
(* that the digits of a number are read as that number (DigitsAreRead).    *)
(*                                                                         *)
(* The string with line feeds in it is the lines its editor knows, and the *)
(* edit position is where the last change ends.  These proofs stand on one *)
(* fact about strings (LinesOfJoined): the lines of two strings one after  *)
(* the other are the lines of both, the last of the first continued by the *)
(* first of the second.                                                    *)
(***************************************************************************)
EXTENDS Rpc, TextDocument, Minimum, FiniteSetTheorems, SequenceTheorems, TLAPS

(* The last digit of a number, and the digits of all numbers up to n.      *)
LastDigit(i) == IF i % 2 = 1 THEN "1" ELSE "0"
SpelledFrom(f, i) == IF i < 2 THEN <<LastDigit(i)>> ELSE Append(f[i \div 2], LastDigit(i))

LEMMA DigitsSpelled ==
    ASSUME NEW n \in Nat
    PROVE  \E f \in [0 .. n -> Seq(Digit)] :
              /\ Digits(n) = f[n]
              /\ \A i \in 0 .. n : f[i] = SpelledFrom(f, i)
<1> DEFINE D == 0 .. n
           S == Seq(Digit)
           value == [i \in D |-> [f \in [D -> S] |-> SpelledFrom(f, i)]]
           rank == [i \in D |-> i]
           Solution(f) == f = [i \in D |-> SpelledFrom(f, i)]
<1>1. \A i \in D : i >= 2 => i \div 2 \in D /\ i \div 2 < i
  OBVIOUS
<1>2. ASSUME NEW i \in D, NEW g \in [D -> S], NEW h \in [D -> S]
      PROVE  /\ value[i][g] \in S
             /\ (\A j \in D : rank[j] < rank[i] => g[j] = h[j]) => value[i][g] = value[i][h]
  <2>1. value[i][g] = SpelledFrom(g, i) /\ value[i][h] = SpelledFrom(h, i)
    OBVIOUS
  <2>2. LastDigit(i) \in Digit
    BY DEF LastDigit, Digit
  <2>3. i >= 2 => i \div 2 \in D /\ rank[i \div 2] < rank[i] /\ g[i \div 2] \in S
    BY <1>1
  <2>4. SpelledFrom(g, i) \in S
    <3>1. CASE i < 2
      BY <2>2, <3>1 DEF SpelledFrom
    <3>2. CASE i >= 2
      <4>1. Append(g[i \div 2], LastDigit(i)) \in S
        BY <2>2, <2>3, <3>2, AppendProperties
      <4> QED
        BY <3>2, <4>1 DEF SpelledFrom
    <3> QED
      BY <3>1, <3>2
  <2>5. ASSUME \A j \in D : rank[j] < rank[i] => g[j] = h[j]
        PROVE  SpelledFrom(g, i) = SpelledFrom(h, i)
    BY <2>3, <2>5 DEF SpelledFrom
  <2> QED
    BY <2>1, <2>4, <2>5
<1>3. LooksDown(D, S, rank, value)
  BY <1>2 DEF LooksDown
<1>4. rank \in [D -> 0 .. n] /\ <<>> \in S
  OBVIOUS
<1>5. PICK f \in [D -> S] : \A i \in D : f[i] = value[i][f]
  <2> HIDE DEF D, S, value, rank
  <2> QED
    BY <1>3, <1>4, DefinedByRank
<1>6. Solution(f)
  <2>1. \A i \in D : f[i] = SpelledFrom(f, i)
    BY <1>5
  <2>2. f = [i \in D |-> f[i]]
    BY <1>5
  <2> QED
    BY <2>1, <2>2
<1>7. PICK g : g = CHOOSE h : Solution(h)
  OBVIOUS
<1>8. Solution(g)
  <2> HIDE DEF Solution
  <2> QED
    BY <1>6, <1>7
<1>9. \A i \in D : g[i] = SpelledFrom(g, i)
  <2>1. g = [i \in D |-> SpelledFrom(g, i)]
    BY <1>8
  <2> QED
    BY <2>1
<1>10. Digits(n) = g[n]
  BY <1>7 DEF Digits, SpelledFrom, LastDigit
<1>11. g \in [D -> S]
  <2>1. ASSUME NEW i \in D
        PROVE  g[i] \in S
    <3> DEFINE Odd == {k \in D : g[k] \notin S}
    <3>1. ASSUME Odd # {}
          PROVE  FALSE
      <4>1. PICK k \in Odd : \A l \in Odd : k <= l
        <5>1. Odd \subseteq Nat
          OBVIOUS
        <5> HIDE DEF Odd
        <5> QED
          BY <3>1, <5>1, LeastNumber
      <4>2. LastDigit(k) \in Digit
        BY DEF LastDigit, Digit
      <4>3. CASE k < 2
        BY <1>9, <4>1, <4>2, <4>3 DEF SpelledFrom
      <4>4. CASE k >= 2
        <5>1. k \div 2 \in D /\ k \div 2 < k /\ g[k] = SpelledFrom(g, k)
          BY <1>1, <1>9, <4>4
        <5>2. g[k \div 2] \in S
          BY <4>1, <5>1
        <5>3. Append(g[k \div 2], LastDigit(k)) \in S
          BY <4>2, <5>2, AppendProperties
        <5>4. k \in Nat /\ ~(k < 2) /\ g[k] \notin S
          BY <4>1, <4>4
        <5>5. SpelledFrom(g, k) = Append(g[k \div 2], LastDigit(k))
          BY <5>4 DEF SpelledFrom
        <5> QED
          BY <5>1, <5>3, <5>4, <5>5
      <4> QED
        BY <4>3, <4>4
    <3> QED
      BY <3>1
  <2>2. g = [i \in D |-> SpelledFrom(g, i)]
    BY <1>8
  <2> QED
    BY <2>1, <2>2
<1> QED
  BY <1>9, <1>10, <1>11

(* The numbers a reader of the digits d comes by, one digit at a time, the *)
(* last of which is n.                                                     *)
CountedAs(v, d, n) ==
    /\ v \in [0 .. Len(d) -> Nat]
    /\ v[0] = 0 /\ v[Len(d)] = n
    /\ \A k \in 1 .. Len(d) : v[k] = 2 * v[k - 1] + ValueOf(d[k])

(* What the digits of a number are read as is that number.                 *)
LEMMA DigitsAreRead ==
    ASSUME NEW n \in Nat
    PROVE  /\ Digits(n) \in Seq(Digit) /\ Len(Digits(n)) \in Nat \ {0}
           /\ \A k \in 1 .. Len(Digits(n)) : Digits(n)[k] \in Digit
           /\ \E v : CountedAs(v, Digits(n), n)
<1>1. PICK f \in [0 .. n -> Seq(Digit)] :
         /\ Digits(n) = f[n]
         /\ \A i \in 0 .. n : f[i] = SpelledFrom(f, i)
  BY DigitsSpelled
<1> DEFINE Right(i) == Len(f[i]) \in Nat \ {0} /\ \E v : CountedAs(v, f[i], i)
           Wrong == {i \in 0 .. n : ~Right(i)}
<1>2. ASSUME Wrong # {}
      PROVE  FALSE
  <2>1. PICK i \in Wrong : \A j \in Wrong : i <= j
    <3>1. Wrong \subseteq Nat
      OBVIOUS
    <3> HIDE DEF Wrong
    <3> QED
      BY <1>2, <3>1, LeastNumber
  <2>2. f[i] = SpelledFrom(f, i) /\ i \in 0 .. n /\ ~Right(i)
    BY <1>1, <2>1
  <2>3. LastDigit(i) \in Digit /\ ValueOf(LastDigit(i)) = i % 2
    BY <2>2 DEF LastDigit, Digit, ValueOf
  <2>4. CASE i < 2
    <3>1. f[i] = <<LastDigit(i)>> /\ i \in 0 .. 1
      BY <2>2, <2>4 DEF SpelledFrom
    <3>2. Len(f[i]) = 1 /\ f[i][1] = LastDigit(i)
      BY <3>1
    <3>3. PICK v : v = [k \in 0 .. 1 |-> IF k = 0 THEN 0 ELSE i]
      OBVIOUS
    <3>4. v \in [0 .. 1 -> Nat] /\ v[0] = 0 /\ v[1] = i
      BY <3>1, <3>3
    <3>5. v[1] = 2 * v[0] + ValueOf(f[i][1])
      BY <2>3, <3>1, <3>2, <3>4
    <3>6. CountedAs(v, f[i], i)
      BY <3>2, <3>4, <3>5 DEF CountedAs
    <3> QED
      BY <2>2, <3>2, <3>6
  <2>5. CASE i >= 2
    <3>1. PICK h \in 0 .. n : h = i \div 2 /\ h < i /\ i = 2 * h + (i % 2)
      <4>1. i \div 2 \in 0 .. n /\ i \div 2 < i
        BY <2>2, <2>5
      <4>2. i = 2 * (i \div 2) + (i % 2)
        BY <2>2
      <4> QED
        BY <4>1, <4>2
    <3>2. Right(h) /\ f[h] \in Seq(Digit)
      BY <1>1, <2>1, <2>2, <3>1
    <3>3. PICK v : CountedAs(v, f[h], h)
      BY <3>2
    <3>4. f[i] = Append(f[h], LastDigit(i))
      BY <2>2, <2>5, <3>1 DEF SpelledFrom
    <3>5. PICK d \in Nat : d = Len(f[h]) /\ d # 0
      BY <3>2
    <3>6. Len(f[i]) = d + 1 /\ f[i][d + 1] = LastDigit(i) /\ \A k \in 1 .. d : f[i][k] = f[h][k]
      BY <2>3, <3>2, <3>4, <3>5, AppendProperties
    <3>7. PICK w : w = [k \in 0 .. d + 1 |-> IF k = d + 1 THEN i ELSE v[k]]
      OBVIOUS
    <3>8. v \in [0 .. d -> Nat] /\ v[0] = 0 /\ v[d] = h
      BY <3>3, <3>5 DEF CountedAs
    <3>9. w \in [0 .. d + 1 -> Nat] /\ w[0] = 0 /\ w[d + 1] = i /\ \A k \in 0 .. d : w[k] = v[k]
      <4>1. ASSUME NEW k \in 0 .. d + 1
            PROVE  w[k] \in Nat /\ (k # d + 1 => w[k] = v[k])
        <5>1. k = d + 1 \/ k \in 0 .. d
          OBVIOUS
        <5> QED
          BY <2>2, <3>7, <3>8, <5>1
      <4>2. 0 # d + 1 /\ 0 \in 0 .. d + 1 /\ d + 1 \in 0 .. d + 1
        OBVIOUS
      <4>3. \A k \in 0 .. d : k \in 0 .. d + 1 /\ k # d + 1
        OBVIOUS
      <4> QED
        BY <3>7, <3>8, <4>1, <4>2, <4>3
    <3>10. ASSUME NEW k \in 1 .. d + 1
           PROVE  w[k] = 2 * w[k - 1] + ValueOf(f[i][k])
      <4>1. CASE k = d + 1
        BY <2>3, <3>1, <3>6, <3>8, <3>9, <4>1
      <4>2. CASE k # d + 1
        <5>1. k \in 1 .. d /\ k \in 0 .. d /\ k - 1 \in 0 .. d
          BY <4>2
        <5>2. v[k] = 2 * v[k - 1] + ValueOf(f[h][k])
          BY <3>3, <3>5, <5>1 DEF CountedAs
        <5> QED
          BY <3>6, <3>9, <5>1, <5>2
      <4> QED
        BY <4>1, <4>2
    <3>11. CountedAs(w, f[i], i)
      BY <3>6, <3>9, <3>10 DEF CountedAs
    <3> QED
      BY <2>2, <3>6, <3>11
  <2> QED
    BY <2>2, <2>4, <2>5
<1>3. Right(n)
  <2>1. n \in 0 .. n
    OBVIOUS
  <2> QED
    BY <1>2, <2>1
<1>4. f[n] \in Seq(Digit)
  OBVIOUS
<1>5. \A k \in 1 .. Len(f[n]) : f[n][k] \in Digit
  BY <1>4, ElementOfSeq
<1> QED
  BY <1>1, <1>3, <1>4, <1>5

(* A frame is the header, the digits, the separator and the message.       *)
HowLong(m) == Len(Digits(Len(m)))
Start(m)   == HeaderSize + HowLong(m) + BreakSize

LEMMA FrameIs ==
    ASSUME NEW m \in Messages
    PROVE  /\ m \in Seq(Symbols) /\ Len(m) \in Nat \ {0} /\ HowLong(m) \in Nat \ {0}
           /\ Start(m) \in Nat
           /\ Frame(m) \in Seq(Symbols) /\ Len(Frame(m)) = Start(m) + Len(m)
           /\ \A i \in 1 .. HowLong(m) : Frame(m)[HeaderSize + i] = Digits(Len(m))[i]
           /\ Frame(m)[HeaderSize + HowLong(m) + 1] = "r"
           /\ \A i \in 1 .. Len(m) : Frame(m)[Start(m) + i] = m[i]
<1>1. m \in Seq(Symbols) /\ Len(m) \in Nat \ {0}
  BY MessagesAssumption, EmptySeq
<1>2. PICK digits : digits = Digits(Len(m))
  OBVIOUS
<1>3. digits \in Seq(Digit) /\ Len(digits) \in Nat \ {0} /\ HowLong(m) = Len(digits)
  BY <1>1, <1>2, DigitsAreRead DEF HowLong
<1>4. Digit \subseteq Symbols /\ "h" \in Symbols /\ "r" \in Symbols
  BY DEF Symbols
<1>5. digits \in Seq(Symbols)
  BY <1>3, <1>4, SeqMonotonic
<1>6. HeaderSize \in Nat /\ BreakSize \in Nat \ {0}
  BY SizesAssumption
<1>7. PICK header : header = Times("h", HeaderSize)
  OBVIOUS
<1>8. PICK break : break = Times("r", BreakSize)
  OBVIOUS
<1>9. /\ header \in Seq(Symbols) /\ Len(header) = HeaderSize
      /\ break \in Seq(Symbols) /\ Len(break) = BreakSize /\ break[1] = "r"
  BY <1>4, <1>6, <1>7, <1>8 DEF Times
<1>10. PICK one : one = header \o digits
  OBVIOUS
<1>11. PICK two : two = one \o break
  OBVIOUS
<1>12. PICK all : all = two \o m
  OBVIOUS
<1>13. /\ one \in Seq(Symbols) /\ Len(one) = HeaderSize + Len(digits)
       /\ \A i \in 1 .. Len(digits) : one[HeaderSize + i] = digits[i]
  <2>1. \A i \in 1 .. HeaderSize + Len(digits) :
           one[i] = IF i <= HeaderSize THEN header[i] ELSE digits[i - HeaderSize]
    BY <1>5, <1>9, <1>10, ConcatProperties
  <2>2. \A i \in 1 .. Len(digits) : /\ HeaderSize + i \in 1 .. HeaderSize + Len(digits)
                                    /\ ~(HeaderSize + i <= HeaderSize) /\ (HeaderSize + i) - HeaderSize = i
    BY <1>3, <1>6
  <2> QED
    BY <1>5, <1>9, <1>10, <2>1, <2>2, ConcatProperties
<1>14. /\ two \in Seq(Symbols) /\ Len(two) = HeaderSize + Len(digits) + BreakSize
       /\ \A i \in 1 .. HeaderSize + Len(digits) : two[i] = one[i]
       /\ two[HeaderSize + Len(digits) + 1] = "r"
  <2> DEFINE so == HeaderSize + Len(digits)
  <2>1. /\ two \in Seq(Symbols) /\ Len(two) = so + BreakSize
        /\ \A i \in 1 .. so + BreakSize : two[i] = IF i <= so THEN one[i] ELSE break[i - so]
    <3>1. /\ two \in Seq(Symbols) /\ Len(two) = Len(one) + Len(break)
          /\ \A i \in 1 .. Len(one) + Len(break) :
                two[i] = IF i <= Len(one) THEN one[i] ELSE break[i - Len(one)]
      <4>1. one \in Seq(Symbols) /\ break \in Seq(Symbols)
        BY <1>9, <1>13
      <4> QED
        BY <1>11, <4>1, ConcatProperties
    <3> QED
      BY <1>9, <1>13, <3>1
  <2>2. so \in Nat /\ so + 1 \in 1 .. so + BreakSize /\ ~(so + 1 <= so) /\ (so + 1) - so = 1
    BY <1>3, <1>6
  <2>3. \A i \in 1 .. so : i \in 1 .. so + BreakSize /\ i <= so
    BY <1>6, <2>2
  <2> QED
    BY <1>9, <2>1, <2>2, <2>3
<1>15. /\ all \in Seq(Symbols) /\ Len(all) = HeaderSize + Len(digits) + BreakSize + Len(m)
       /\ \A i \in 1 .. HeaderSize + Len(digits) + BreakSize : all[i] = two[i]
       /\ \A i \in 1 .. Len(m) : all[HeaderSize + Len(digits) + BreakSize + i] = m[i]
  <2> DEFINE so == HeaderSize + Len(digits) + BreakSize
  <2>1. /\ all \in Seq(Symbols) /\ Len(all) = so + Len(m)
        /\ \A i \in 1 .. so + Len(m) : all[i] = IF i <= so THEN two[i] ELSE m[i - so]
    <3>1. /\ all \in Seq(Symbols) /\ Len(all) = Len(two) + Len(m)
          /\ \A i \in 1 .. Len(two) + Len(m) :
                all[i] = IF i <= Len(two) THEN two[i] ELSE m[i - Len(two)]
      BY <1>1, <1>12, <1>14, ConcatProperties
    <3> QED
      BY <1>14, <3>1
  <2>2. so \in Nat
    BY <1>3, <1>6
  <2>3. \A i \in 1 .. so : i \in 1 .. so + Len(m) /\ i <= so
    BY <1>1, <2>2
  <2>4. \A i \in 1 .. Len(m) : so + i \in 1 .. so + Len(m) /\ ~(so + i <= so) /\ (so + i) - so = i
    BY <1>1, <2>2
  <2> QED
    BY <2>1, <2>3, <2>4
<1>16. \A i \in 1 .. Len(digits) : /\ HeaderSize + i \in 1 .. HeaderSize + Len(digits)
                                   /\ HeaderSize + i \in 1 .. HeaderSize + Len(digits) + BreakSize
  BY <1>3, <1>6
<1>17. HeaderSize + Len(digits) + 1 \in 1 .. HeaderSize + Len(digits) + BreakSize
  BY <1>3, <1>6
<1>18. Frame(m) = all
  BY <1>2, <1>7, <1>8, <1>10, <1>11, <1>12 DEF Frame
<1>19. Start(m) = HeaderSize + Len(digits) + BreakSize
  BY <1>3 DEF Start
<1>20. ASSUME NEW i \in 1 .. Len(digits)
       PROVE  all[HeaderSize + i] = digits[i]
  BY <1>13, <1>14, <1>15, <1>16
<1>21. all[HeaderSize + Len(digits) + 1] = "r"
  BY <1>14, <1>15, <1>17
<1>22. Start(m) \in Nat
  BY <1>3, <1>6, <1>19
<1> QED
  BY <1>1, <1>2, <1>3, <1>15, <1>18, <1>19, <1>20, <1>21, <1>22

(* The end of each frame in the stream, counted from what is to be read    *)
(* next: ends[0] is where the first of them begins, and negative when some *)
(* of it has been read.                                                    *)
Follows(stream, frames, ends) ==
    /\ Len(stream) = ends[Len(frames)]
    /\ \A k \in 1 .. Len(frames) :
          /\ ends[k] = ends[k - 1] + Len(Frame(frames[k]))
          /\ ends[k] <= Len(stream)
          /\ \A i \in 1 .. Len(Frame(frames[k])) :
                ends[k - 1] + i >= 1 => stream[ends[k - 1] + i] = Frame(frames[k])[i]

(* What is still to be written of the frames, or never will be.            *)
Missing(rest, frames) ==
    IF open THEN rest = outbox /\ frames = queue
    ELSE /\ outbox = <<>>
         /\ IF rest = <<>> THEN frames = queue
            ELSE frames # <<>> /\ queue = SubSeq(frames, 1, Len(frames) - 1)

(* Only the last frame may be missing a part.                              *)
InPipe(ends, n) == \A k \in 1 .. n - 1 : ends[k] <= Len(pipe)

(* The reader has read so much of the first frame.                         *)
Fresh == reading = "header" /\ left = HeaderSize /\ number = NoNumber /\ content = <<>>
InHeader(done) ==
    /\ reading = "header" /\ number = NoNumber /\ content = <<>>
    /\ left \in 1 .. HeaderSize /\ done = HeaderSize - left
InLength(done, m) ==
    /\ reading = "length" /\ content = <<>>
    /\ done \in HeaderSize .. HeaderSize + HowLong(m)
    /\ \E v : /\ CountedAs(v, Digits(Len(m)), Len(m))
              /\ number = IF done = HeaderSize THEN NoNumber ELSE v[done - HeaderSize]
InBreak(done, m) ==
    /\ reading = "break" /\ content = <<>> /\ number = Len(m)
    /\ left \in 1 .. BreakSize /\ done = Start(m) - left
InContent(done, m) ==
    /\ reading = "content"
    /\ left \in 1 .. Len(m) /\ done = Start(m) + Len(m) - left
    /\ content = SubSeq(m, 1, Len(m) - left)
Reads(done, m) == InHeader(done) \/ InLength(done, m) \/ InBreak(done, m) \/ InContent(done, m)
Place(done, frames) == IF frames = <<>> THEN Fresh /\ done = 0 ELSE Reads(done, frames[1])

Agree(rest, frames, ends) ==
    /\ ends \in [0 .. Len(frames) -> Int]
    /\ Follows(pipe \o rest, frames, ends)
    /\ Missing(rest, frames)
    /\ InPipe(ends, Len(frames))
    /\ Place(0 - ends[0], frames)

(* Until the end of the stream is met, the symbols in it are the frames of *)
(* the messages that are still to be received, the first of them as far as *)
(* it is not read and the last perhaps cut off; behind it there are none.  *)
StreamInv ==
    /\ pipe \in Seq(Symbols) /\ outbox \in Seq(Symbols) /\ queue \in Seq(Messages)
    /\ open \in BOOLEAN /\ ended \in BOOLEAN
    /\ ended => ~open /\ queue = <<>>
    /\ \/ ended
       \/ \E rest \in Seq(Symbols), frames \in Seq(Messages) : \E ends : Agree(rest, frames, ends)

(* One symbol is read, and every frame ends one symbol sooner.             *)
Sooner(ends, n) == [k \in 0 .. n |-> ends[k] - 1]
LEMMA FollowsTail ==
    ASSUME NEW stream \in Seq(Symbols), NEW frames \in Seq(Messages),
           NEW ends \in [0 .. Len(frames) -> Int],
           Follows(stream, frames, ends), stream # <<>>
    PROVE  /\ Sooner(ends, Len(frames)) \in [0 .. Len(frames) -> Int]
           /\ Sooner(ends, Len(frames))[0] = ends[0] - 1
           /\ Follows(Tail(stream), frames, Sooner(ends, Len(frames)))
<1>1. PICK n \in Nat : n = Len(frames)
  BY LenProperties
<1>2. PICK l \in Nat : l = Len(stream) /\ l # 0
  BY EmptySeq
<1>3. PICK later : later = Sooner(ends, n)
  OBVIOUS
<1>4. /\ later \in [0 .. n -> Int] /\ \A k \in 0 .. n : later[k] = ends[k] - 1 /\ ends[k] \in Int
  BY <1>1, <1>3 DEF Sooner
<1>5. Len(Tail(stream)) = l - 1 /\ \A i \in 1 .. l - 1 : Tail(stream)[i] = stream[i + 1]
  BY <1>2, HeadTailProperties
<1>6. Len(Tail(stream)) = later[n]
  BY <1>1, <1>2, <1>4, <1>5 DEF Follows
<1>7. ASSUME NEW k \in 1 .. n
      PROVE  /\ later[k] = later[k - 1] + Len(Frame(frames[k]))
             /\ later[k] <= l - 1
             /\ \A i \in 1 .. Len(Frame(frames[k])) :
                   later[k - 1] + i >= 1 => Tail(stream)[later[k - 1] + i] = Frame(frames[k])[i]
  <2>1. k \in 0 .. n /\ k - 1 \in 0 .. n
    OBVIOUS
  <2>2. frames[k] \in Messages
    BY <1>1, ElementOfSeq
  <2>3. PICK size \in Nat : size = Len(Frame(frames[k]))
    BY <2>2, FrameIs
  <2>4. /\ ends[k] = ends[k - 1] + size /\ ends[k] <= l
        /\ \A i \in 1 .. size : ends[k - 1] + i >= 1 => stream[ends[k - 1] + i] = Frame(frames[k])[i]
    BY <1>1, <1>2, <2>3 DEF Follows
  <2>5. ASSUME NEW i \in 1 .. size, later[k - 1] + i >= 1
        PROVE  Tail(stream)[later[k - 1] + i] = Frame(frames[k])[i]
    <3>1. PICK a \in Int : a = ends[k - 1] /\ later[k - 1] = a - 1
      BY <1>4, <2>1
    <3>2. a + size <= l
      BY <2>4, <3>1
    <3>3. a - 1 + i >= 1 /\ i <= size /\ i \in Int
      BY <2>5, <3>1
    <3>4. a - 1 + i <= l - 1
      BY <3>2, <3>3
    <3>5. a - 1 + i \in 1 .. l - 1 /\ (a - 1 + i) + 1 = a + i /\ a + i >= 1
      BY <3>3, <3>4
    <3> QED
      BY <1>5, <2>4, <3>1, <3>5
  <2>6. later[k] = ends[k] - 1 /\ later[k - 1] = ends[k - 1] - 1 /\ ends[k] \in Int /\ ends[k - 1] \in Int
    BY <1>4, <2>1
  <2>7. later[k] = later[k - 1] + size /\ later[k] <= l - 1
    BY <2>4, <2>6
  <2> QED
    BY <2>3, <2>5, <2>7
<1>8. 0 \in 0 .. n
  OBVIOUS
<1> QED
  BY <1>1, <1>3, <1>4, <1>5, <1>6, <1>7, <1>8 DEF Follows

(* The first frame has been read.                                          *)
Dropped(ends, n) == [k \in 0 .. n - 1 |-> ends[k + 1]]
LEMMA FollowsDrop ==
    ASSUME NEW stream \in Seq(Symbols), NEW frames \in Seq(Messages), frames # <<>>,
           NEW ends \in [0 .. Len(frames) -> Int], Follows(stream, frames, ends)
    PROVE  /\ Dropped(ends, Len(frames)) \in [0 .. Len(Tail(frames)) -> Int]
           /\ Dropped(ends, Len(frames))[0] = ends[1]
           /\ Follows(stream, Tail(frames), Dropped(ends, Len(frames)))
<1>1. PICK n \in Nat : n = Len(frames) /\ n # 0
  BY EmptySeq
<1>2. PICK later : later = Dropped(ends, n)
  OBVIOUS
<1>3. /\ later \in [0 .. n - 1 -> Int] /\ \A k \in 0 .. n - 1 : later[k] = ends[k + 1]
  BY <1>1, <1>2 DEF Dropped
<1>4. Len(Tail(frames)) = n - 1 /\ \A k \in 1 .. n - 1 : Tail(frames)[k] = frames[k + 1]
  BY <1>1, HeadTailProperties
<1>5. Len(stream) = later[n - 1]
  <2>1. n - 1 \in 0 .. n - 1 /\ (n - 1) + 1 = n
    BY <1>1
  <2> QED
    BY <1>1, <1>3, <2>1 DEF Follows
<1>6. ASSUME NEW k \in 1 .. n - 1
      PROVE  /\ later[k] = later[k - 1] + Len(Frame(Tail(frames)[k]))
             /\ later[k] <= Len(stream)
             /\ \A i \in 1 .. Len(Frame(Tail(frames)[k])) :
                   later[k - 1] + i >= 1 => stream[later[k - 1] + i] = Frame(Tail(frames)[k])[i]
  <2>1. k \in 0 .. n - 1 /\ k - 1 \in 0 .. n - 1 /\ (k - 1) + 1 = k /\ (k + 1) - 1 = k /\ k + 1 \in 1 .. n
    BY <1>1
  <2>2. /\ ends[k + 1] = ends[k] + Len(Frame(frames[k + 1]))
        /\ ends[k + 1] <= Len(stream)
        /\ \A i \in 1 .. Len(Frame(frames[k + 1])) :
              ends[k] + i >= 1 => stream[ends[k] + i] = Frame(frames[k + 1])[i]
    BY <1>1, <2>1 DEF Follows
  <2>3. later[k] = ends[k + 1] /\ later[k - 1] = ends[k] /\ Tail(frames)[k] = frames[k + 1]
    BY <1>3, <1>4, <2>1
  <2> QED
    BY <2>2, <2>3
<1>7. 0 \in 0 .. n - 1 /\ 0 + 1 = 1
  BY <1>1
<1> QED
  BY <1>1, <1>2, <1>3, <1>4, <1>5, <1>6, <1>7 DEF Follows

(* One more frame is written.                                              *)
Longer(ends, n, size) == [k \in 0 .. n + 1 |-> IF k = n + 1 THEN ends[n] + size ELSE ends[k]]
LEMMA FollowsMore ==
    ASSUME NEW stream \in Seq(Symbols), NEW frames \in Seq(Messages), NEW m \in Messages,
           NEW ends \in [0 .. Len(frames) -> Int], Follows(stream, frames, ends)
    PROVE  LET more == Longer(ends, Len(frames), Len(Frame(m)))
           IN  /\ more \in [0 .. Len(Append(frames, m)) -> Int] /\ more[0] = ends[0]
               /\ Follows(stream \o Frame(m), Append(frames, m), more)
<1>1. PICK n \in Nat : n = Len(frames)
  BY LenProperties
<1>2. PICK l \in Nat : l = Len(stream) /\ l = ends[n]
  BY <1>1, LenProperties DEF Follows
<1>3. PICK size \in Nat : size = Len(Frame(m)) /\ Frame(m) \in Seq(Symbols)
  BY FrameIs
<1>4. PICK more : more = Longer(ends, n, size)
  OBVIOUS
<1>5. PICK longer : longer = stream \o Frame(m)
  OBVIOUS
<1>6. PICK all : all = Append(frames, m)
  OBVIOUS
<1>7. Len(all) = n + 1 /\ all[n + 1] = m /\ \A k \in 1 .. n : all[k] = frames[k]
  BY <1>1, <1>6, AppendProperties
<1>8. Len(longer) = l + size
  BY <1>2, <1>3, <1>5, ConcatProperties
<1>9. \A i \in 1 .. l + size : longer[i] = IF i <= l THEN stream[i] ELSE Frame(m)[i - l]
  <2>1. \A i \in 1 .. Len(stream) + Len(Frame(m)) :
           longer[i] = IF i <= Len(stream) THEN stream[i] ELSE Frame(m)[i - Len(stream)]
    BY <1>3, <1>5, ConcatProperties
  <2> QED
    BY <1>2, <1>3, <2>1
<1>10. \A k \in 0 .. n : more[k] = ends[k] /\ ends[k] \in Int
  <2>1. \A k \in 0 .. n : k \in 0 .. n + 1 /\ k # n + 1
    OBVIOUS
  <2> QED
    BY <1>1, <1>4, <2>1 DEF Longer
<1>11. more[n + 1] = l + size
  BY <1>2, <1>4 DEF Longer
<1>12. more \in [0 .. n + 1 -> Int]
  <2>1. \A k \in 0 .. n + 1 : k = n + 1 \/ k \in 0 .. n
    OBVIOUS
  <2>2. more = [k \in 0 .. n + 1 |-> more[k]]
    BY <1>4 DEF Longer
  <2>3. \A k \in 0 .. n + 1 : more[k] \in Int
    BY <1>10, <1>11, <2>1
  <2> QED
    BY <2>2, <2>3
<1>13. ASSUME NEW k \in 1 .. n + 1
       PROVE  /\ more[k] = more[k - 1] + Len(Frame(all[k]))
              /\ more[k] <= l + size
              /\ \A i \in 1 .. Len(Frame(all[k])) :
                    more[k - 1] + i >= 1 => longer[more[k - 1] + i] = Frame(all[k])[i]
  <2>1. CASE k = n + 1
    <3>1. more[k - 1] = l /\ all[k] = m /\ more[k] = l + size
      BY <1>2, <1>7, <1>10, <1>11, <2>1
    <3>2. ASSUME NEW i \in 1 .. size
          PROVE  longer[l + i] = Frame(m)[i]
      <4>1. l + i \in 1 .. l + size /\ ~(l + i <= l) /\ (l + i) - l = i
        OBVIOUS
      <4> QED
        BY <1>9, <4>1
    <3>3. Len(Frame(all[k])) = size
      BY <1>3, <3>1
    <3>4. more[k] = more[k - 1] + size /\ more[k] <= l + size
      BY <3>1
    <3> QED
      BY <3>1, <3>2, <3>3, <3>4
  <2>2. CASE k # n + 1
    <3>1. k \in 1 .. n /\ k \in 0 .. n /\ k - 1 \in 0 .. n
      BY <2>2
    <3>2. all[k] = frames[k] /\ more[k] = ends[k] /\ more[k - 1] = ends[k - 1]
      BY <1>7, <1>10, <3>1
    <3>3. frames[k] \in Messages
      BY <1>1, <3>1, ElementOfSeq
    <3>4. PICK part \in Nat : part = Len(Frame(frames[k]))
      BY <3>3, FrameIs
    <3>5. /\ ends[k] = ends[k - 1] + part /\ ends[k] <= l
          /\ \A i \in 1 .. part : ends[k - 1] + i >= 1 => stream[ends[k - 1] + i] = Frame(frames[k])[i]
      BY <1>1, <1>2, <3>1, <3>4 DEF Follows
    <3>6. ASSUME NEW i \in 1 .. part, ends[k - 1] + i >= 1
          PROVE  longer[ends[k - 1] + i] = Frame(frames[k])[i]
      <4>1. PICK a \in Int : a = ends[k - 1]
        BY <1>10, <3>1
      <4>2. a + part <= l
        BY <3>5, <4>1
      <4>3. a + i \in 1 .. l + size /\ a + i <= l
        BY <3>6, <4>1, <4>2
      <4> QED
        BY <1>9, <3>5, <3>6, <4>1, <4>3
    <3>7. ends[k] <= l + size
      BY <1>10, <3>1, <3>5
    <3> QED
      BY <3>2, <3>4, <3>5, <3>6, <3>7
  <2> QED
    BY <2>1, <2>2
<1>14. 0 \in 0 .. n
  OBVIOUS
<1>15. Follows(longer, all, more)
  BY <1>7, <1>8, <1>11, <1>13 DEF Follows
<1> QED
  BY <1>1, <1>3, <1>4, <1>5, <1>6, <1>7, <1>10, <1>12, <1>14, <1>15

(* What is read next is the symbol of the first frame the reader waits for. *)
LEMMA FirstSymbol ==
    ASSUME NEW p \in Seq(Symbols), p # <<>>, NEW rest \in Seq(Symbols)
    PROVE  /\ p \o rest \in Seq(Symbols) /\ p \o rest # <<>>
           /\ Tail(p) \in Seq(Symbols) /\ Tail(p) \o rest = Tail(p \o rest)
           /\ Head(p) \in Symbols /\ (p \o rest)[1] = Head(p)
<1>1. Len(p) \in Nat /\ Len(p) # 0 /\ Len(rest) \in Nat
  BY EmptySeq, LenProperties
<1>2. /\ p \o rest \in Seq(Symbols) /\ Len(p \o rest) = Len(p) + Len(rest)
      /\ \A i \in 1 .. Len(p) + Len(rest) : (p \o rest)[i] = IF i <= Len(p) THEN p[i] ELSE rest[i - Len(p)]
  BY ConcatProperties
<1>3. p \o rest # <<>>
  BY <1>1, <1>2
<1>4. /\ Head(p) \in Symbols /\ Tail(p) \in Seq(Symbols) /\ Len(Tail(p)) = Len(p) - 1
      /\ \A i \in 1 .. Len(p) - 1 : Tail(p)[i] = p[i + 1]
  BY HeadTailProperties
<1>5. PICK all : all = p \o rest
  OBVIOUS
<1>6. /\ Tail(all) \in Seq(Symbols) /\ Len(Tail(all)) = Len(p) + Len(rest) - 1
      /\ \A i \in 1 .. Len(p) + Len(rest) - 1 : Tail(all)[i] = all[i + 1]
  BY <1>2, <1>3, <1>5, HeadTailProperties
<1>7. PICK joined : joined = Tail(p) \o rest
  OBVIOUS
<1>8. /\ joined \in Seq(Symbols) /\ Len(joined) = Len(p) + Len(rest) - 1
      /\ \A i \in 1 .. Len(p) + Len(rest) - 1 :
            joined[i] = IF i <= Len(p) - 1 THEN Tail(p)[i] ELSE rest[i - (Len(p) - 1)]
  <2>1. /\ joined \in Seq(Symbols) /\ Len(joined) = Len(Tail(p)) + Len(rest)
        /\ \A i \in 1 .. Len(Tail(p)) + Len(rest) :
              joined[i] = IF i <= Len(Tail(p)) THEN Tail(p)[i] ELSE rest[i - Len(Tail(p))]
    BY <1>4, <1>7, ConcatProperties
  <2>2. Len(Tail(p)) + Len(rest) = Len(p) + Len(rest) - 1
    BY <1>1, <1>4
  <2> QED
    BY <1>4, <2>1, <2>2
<1>9. ASSUME NEW i \in 1 .. Len(p) + Len(rest) - 1
      PROVE  joined[i] = Tail(all)[i]
  <2>1. i + 1 \in 1 .. Len(p) + Len(rest) /\ i - (Len(p) - 1) = (i + 1) - Len(p)
    BY <1>1
  <2>2. all[i + 1] = IF i + 1 <= Len(p) THEN p[i + 1] ELSE rest[(i + 1) - Len(p)]
    BY <1>2, <1>5, <2>1
  <2>3. CASE i + 1 <= Len(p)
    <3>1. i \in 1 .. Len(p) - 1 /\ i <= Len(p) - 1
      BY <1>1, <2>3
    <3> QED
      BY <1>4, <1>6, <1>8, <2>2, <2>3, <3>1
  <2>4. CASE ~(i + 1 <= Len(p))
    <3>1. ~(i <= Len(p) - 1)
      BY <1>1, <2>4
    <3> QED
      BY <1>6, <1>8, <2>1, <2>2, <2>4, <3>1
  <2> QED
    BY <2>3, <2>4
<1>10. joined = Tail(all)
  <2>1. Len(joined) = Len(Tail(all)) /\ \A i \in 1 .. Len(joined) : joined[i] = Tail(all)[i]
    BY <1>6, <1>8, <1>9
  <2> QED
    BY <1>6, <1>8, <2>1, SeqEqual
<1>11. all[1] = Head(p)
  <2>1. 1 \in 1 .. Len(p) + Len(rest) /\ 1 <= Len(p)
    BY <1>1
  <2>2. all[1] = p[1]
    BY <1>2, <1>5, <2>1
  <2> QED
    BY <2>2
<1> QED
  BY <1>2, <1>3, <1>4, <1>5, <1>7, <1>10, <1>11

(* The places inside a frame.                                              *)
LEMMA InsideFrame ==
    ASSUME NEW m \in Messages, NEW done, Reads(done, m)
    PROVE  done \in Nat /\ done < Len(Frame(m))
<1>1. /\ Len(m) \in Nat \ {0} /\ HowLong(m) \in Nat \ {0} /\ Len(Frame(m)) = Start(m) + Len(m)
      /\ Start(m) = HeaderSize + HowLong(m) + BreakSize
      /\ HeaderSize \in Nat \ {0} /\ BreakSize \in Nat \ {0}
  BY FrameIs, SizesAssumption DEF Start
<1>2. CASE InHeader(done)
  BY <1>1, <1>2 DEF InHeader
<1>3. CASE InLength(done, m)
  BY <1>1, <1>3 DEF InLength
<1>4. CASE InBreak(done, m)
  BY <1>1, <1>4 DEF InBreak
<1>5. CASE InContent(done, m)
  BY <1>1, <1>5 DEF InContent
<1> QED
  BY <1>2, <1>3, <1>4, <1>5 DEF Reads

LEMMA NextSymbol ==
    ASSUME pipe \in Seq(Symbols), pipe # <<>>,
           NEW rest \in Seq(Symbols), NEW frames \in Seq(Messages), NEW ends, Agree(rest, frames, ends)
    PROVE  /\ frames # <<>>
           /\ \E m \in Messages, done \in Nat :
                 /\ m = frames[1] /\ done = 0 - ends[0] /\ ends[0] = 0 - done /\ Reads(done, m)
                 /\ Head(pipe) = Frame(m)[done + 1]
                 /\ ends[1] = Len(Frame(m)) - done
<1>1. PICK stream \in Seq(Symbols) : stream = pipe \o rest /\ stream # <<>> /\ stream[1] = Head(pipe)
  BY FirstSymbol
<1>2. Follows(stream, frames, ends) /\ ends \in [0 .. Len(frames) -> Int]
  BY <1>1 DEF Agree
<1>3. Len(stream) \in Nat \ {0} /\ Len(frames) \in Nat
  BY <1>1, EmptySeq, LenProperties
<1>4. frames # <<>>
  <2>1. ASSUME frames = <<>>
        PROVE  FALSE
    <3>1. Len(frames) = 0 /\ 0 - ends[0] = 0
      BY <2>1 DEF Agree, Place
    <3>2. ends[0] \in Int
      BY <1>2, <3>1
    <3>3. Len(stream) = 0
      BY <1>2, <3>1, <3>2 DEF Follows
    <3> QED
      BY <1>3, <3>3
  <2> QED
    BY <2>1
<1>5. 1 \in 1 .. Len(frames) /\ 0 \in 0 .. Len(frames) /\ frames[1] \in Messages
  <2>1. Len(frames) # 0
    BY <1>4, EmptySeq
  <2>2. 1 \in 1 .. Len(frames) /\ 0 \in 0 .. Len(frames)
    BY <1>3, <2>1
  <2> QED
    BY <2>2, ElementOfSeq
<1>6. PICK m \in Messages : m = frames[1]
  BY <1>5
<1>7. PICK begin \in Int : begin = ends[0]
  BY <1>2, <1>5
<1>8. Reads(0 - begin, m)
  BY <1>4, <1>6, <1>7 DEF Agree, Place
<1>9. PICK done \in Nat : done = 0 - begin /\ done < Len(Frame(m))
  BY <1>6, <1>8, InsideFrame
<1>10. Len(Frame(m)) \in Nat
  BY <1>6, FrameIs
<1>11. begin = 0 - done /\ begin + (done + 1) = 1 /\ done + 1 \in 1 .. Len(Frame(m))
  BY <1>9, <1>10
<1>12. /\ ends[1] = ends[0] + Len(Frame(m))
       /\ \A i \in 1 .. Len(Frame(m)) : ends[0] + i >= 1 => stream[ends[0] + i] = Frame(m)[i]
  <2>1. 1 - 1 = 0
    OBVIOUS
  <2> QED
    BY <1>2, <1>5, <1>6, <2>1 DEF Follows
<1>13. stream[1] = Frame(m)[done + 1]
  BY <1>7, <1>11, <1>12
<1>14. ends[1] = Len(Frame(m)) - done
  <2>1. PICK size \in Nat : size = Len(Frame(m))
    BY <1>10
  <2>2. ends[1] = begin + size
    BY <1>7, <1>12, <2>1
  <2>3. begin + size = size - done
    BY <1>11
  <2> QED
    BY <2>1, <2>2, <2>3
<1> QED
  BY <1>1, <1>4, <1>6, <1>7, <1>8, <1>9, <1>11, <1>13, <1>14

(* One symbol is taken out of the stream.                                  *)
LEMMA StreamShifts ==
    ASSUME pipe \in Seq(Symbols), pipe # <<>>, pipe' = Tail(pipe),
           NEW rest \in Seq(Symbols), NEW frames \in Seq(Messages), NEW ends,
           ends \in [0 .. Len(frames) -> Int], Follows(pipe \o rest, frames, ends)
    PROVE  /\ pipe' \in Seq(Symbols)
           /\ \E later : /\ later \in [0 .. Len(frames) -> Int] /\ later[0] = ends[0] - 1
                         /\ \A k \in 0 .. Len(frames) : later[k] = ends[k] - 1
                         /\ InPipe(ends, Len(frames)) => InPipe(later, Len(frames))'
                         /\ Follows(pipe' \o rest, frames, later)
<1>1. PICK stream \in Seq(Symbols) : stream = pipe \o rest /\ stream # <<>>
  BY FirstSymbol
<1>2. Tail(stream) = pipe' \o rest /\ pipe' \in Seq(Symbols)
  BY <1>1, FirstSymbol
<1>3. PICK later : later = Sooner(ends, Len(frames))
  OBVIOUS
<1>4. /\ later \in [0 .. Len(frames) -> Int] /\ later[0] = ends[0] - 1
      /\ Follows(Tail(stream), frames, later)
  BY <1>1, <1>3, FollowsTail
<1>5. \A k \in 0 .. Len(frames) : later[k] = ends[k] - 1
  BY <1>3 DEF Sooner
<1>6. ASSUME InPipe(ends, Len(frames))
      PROVE  InPipe(later, Len(frames))'
  <2>1. Len(pipe') = Len(pipe) - 1 /\ Len(pipe) \in Nat /\ Len(frames) \in Nat
    BY HeadTailProperties, LenProperties
  <2>2. ASSUME NEW k \in 1 .. Len(frames) - 1
        PROVE  later[k] <= Len(pipe')
    <3>1. k \in 0 .. Len(frames)
      BY <2>1
    <3>2. later[k] = ends[k] - 1 /\ ends[k] <= Len(pipe) /\ ends[k] \in Int
      BY <1>5, <1>6, <3>1 DEF InPipe
    <3> QED
      BY <2>1, <3>2
  <2> QED
    BY <2>2 DEF InPipe
<1> QED
  BY <1>2, <1>4, <1>5, <1>6

(* The reader goes on inside the first frame.                              *)
LEMMA GoesOn ==
    ASSUME pipe \in Seq(Symbols), pipe # <<>>, pipe' = Tail(pipe), UNCHANGED <<outbox, open, queue>>,
           NEW rest \in Seq(Symbols), NEW frames \in Seq(Messages), NEW ends, Agree(rest, frames, ends),
           frames # <<>>, NEW done \in Nat, ends[0] = 0 - done, Reads(done + 1, frames[1])'
    PROVE  /\ pipe' \in Seq(Symbols)
           /\ \E later : Agree(rest, frames, later)'
<1>1. pipe' \in Seq(Symbols)
  BY FirstSymbol
<1>2. PICK later : /\ later \in [0 .. Len(frames) -> Int] /\ later[0] = ends[0] - 1
                   /\ InPipe(later, Len(frames))'
                   /\ Follows(pipe' \o rest, frames, later)
  BY StreamShifts DEF Agree
<1>3. 0 - later[0] = done + 1
  BY <1>2
<1>4. Missing(rest, frames)'
  BY DEF Agree, Missing
<1>5. Place(0 - later[0], frames)'
  BY <1>3 DEF Place
<1>6. Agree(rest, frames, later)'
  BY <1>2, <1>4, <1>5 DEF Agree
<1> QED
  BY <1>1, <1>6

(* read_message skips any symbols where it expects the header and the      *)
(* separator, and skips as many as those have.                             *)
LEMMA IgnoreGoesOn ==
    ASSUME Ignore, NEW m \in Messages, NEW done \in Nat, Reads(done, m)
    PROVE  Reads(done + 1, m)'
<1>1. /\ Len(m) \in Nat \ {0} /\ HowLong(m) \in Nat \ {0} /\ m \in Seq(Symbols)
      /\ Start(m) = HeaderSize + HowLong(m) + BreakSize
      /\ HeaderSize \in Nat \ {0} /\ BreakSize \in Nat \ {0}
  BY FrameIs, SizesAssumption DEF Start
<1>2. UNCHANGED <<number, content>>
  BY DEF Ignore
<1>3. CASE InHeader(done)
  <2>1. CASE left > 1
    <3>1. left' = left - 1 /\ UNCHANGED reading
      BY <2>1 DEF Ignore
    <3>2. InHeader(done + 1)'
      BY <1>1, <1>2, <1>3, <2>1, <3>1 DEF InHeader
    <3> QED
      BY <3>2 DEF Reads
  <2>2. CASE ~(left > 1)
    <3>1. reading' = "length" /\ done + 1 = HeaderSize
      BY <1>1, <1>3, <2>2 DEF Ignore, InHeader
    <3>2. \E v : CountedAs(v, Digits(Len(m)), Len(m))
      BY <1>1, DigitsAreRead
    <3>3. done + 1 \in HeaderSize .. HeaderSize + HowLong(m)
      BY <1>1, <3>1
    <3>4. InLength(done + 1, m)'
      BY <1>2, <1>3, <3>1, <3>2, <3>3 DEF InHeader, InLength
    <3> QED
      BY <3>4 DEF Reads
  <2> QED
    BY <2>1, <2>2
<1>4. CASE InBreak(done, m)
  <2>1. CASE left > 1
    <3>1. left' = left - 1 /\ UNCHANGED reading
      BY <2>1 DEF Ignore
    <3>2. InBreak(done + 1, m)'
      BY <1>1, <1>2, <1>4, <2>1, <3>1 DEF InBreak
    <3> QED
      BY <3>2 DEF Reads
  <2>2. CASE ~(left > 1)
    <3>1. reading' = "content" /\ left' = Len(m) /\ done + 1 = Start(m)
      BY <1>1, <1>4, <2>2 DEF Ignore, InBreak
    <3>2. content' = <<>> /\ SubSeq(m, 1, Len(m) - Len(m)) = <<>>
      <4>1. Len(m) - Len(m) = 0
        BY <1>1
      <4> QED
        BY <1>2, <1>4, <4>1, SubSeqEmpty DEF InBreak
    <3>3. left' \in 1 .. Len(m) /\ done + 1 = Start(m) + Len(m) - Len(m)
      BY <1>1, <3>1
    <3>4. InContent(done + 1, m)'
      BY <3>1, <3>2, <3>3 DEF InContent
    <3> QED
      BY <3>4 DEF Reads
  <2> QED
    BY <2>1, <2>2
<1>5. ~InLength(done, m) /\ ~InContent(done, m)
  BY DEF Ignore, InLength, InContent
<1> QED
  BY <1>3, <1>4, <1>5 DEF Reads

(* What follows in the frame while its length is read.                     *)
LEMMA SymbolOfLength ==
    ASSUME NEW m \in Messages, NEW done \in Nat, InLength(done, m), Head(pipe) = Frame(m)[done + 1]
    PROVE  /\ HowLong(m) \in Nat \ {0} /\ HeaderSize \in Nat \ {0}
           /\ \/ /\ done < HeaderSize + HowLong(m) /\ done - HeaderSize + 1 \in 1 .. HowLong(m)
                 /\ Head(pipe) = Digits(Len(m))[done - HeaderSize + 1] /\ Head(pipe) \in Digit
              \/ /\ done = HeaderSize + HowLong(m) /\ Head(pipe) = "r" /\ Head(pipe) \notin Digit
                 /\ number = Len(m) /\ number # NoNumber
<1>1. /\ Len(m) \in Nat \ {0} /\ HowLong(m) \in Nat \ {0}
      /\ HeaderSize \in Nat \ {0}
      /\ \A i \in 1 .. HowLong(m) : Frame(m)[HeaderSize + i] = Digits(Len(m))[i]
      /\ Frame(m)[HeaderSize + HowLong(m) + 1] = "r"
  BY FrameIs, SizesAssumption
<1>2. done \in HeaderSize .. HeaderSize + HowLong(m)
  BY DEF InLength
<1>3. CASE done < HeaderSize + HowLong(m)
  <2>1. PICK i \in 1 .. HowLong(m) : i = done - HeaderSize + 1 /\ HeaderSize + i = done + 1
    BY <1>1, <1>2, <1>3
  <2>2. Head(pipe) = Digits(Len(m))[i]
    BY <1>1, <2>1
  <2>3. Digits(Len(m))[i] \in Digit
    BY <1>1, DigitsAreRead DEF HowLong
  <2> QED
    BY <1>1, <1>3, <2>1, <2>2, <2>3
<1>4. CASE done = HeaderSize + HowLong(m)
  <2>1. Head(pipe) = "r" /\ "r" \notin Digit
    BY <1>1, <1>4 DEF Digit
  <2>2. PICK v : /\ CountedAs(v, Digits(Len(m)), Len(m))
                 /\ number = IF done = HeaderSize THEN NoNumber ELSE v[done - HeaderSize]
    BY DEF InLength
  <2>3. done # HeaderSize /\ done - HeaderSize = HowLong(m)
    BY <1>1, <1>4
  <2>4. number = Len(m)
    BY <2>2, <2>3 DEF CountedAs, HowLong
  <2>5. Len(m) # NoNumber
    BY <1>1 DEF NoNumber
  <2> QED
    BY <1>1, <1>4, <2>1, <2>4, <2>5
<1> QED
  BY <1>1, <1>2, <1>3, <1>4

LEMMA ReadDigitGoesOn ==
    ASSUME ReadDigit, NEW m \in Messages, NEW done \in Nat, Reads(done, m),
           Head(pipe) = Frame(m)[done + 1]
    PROVE  Reads(done + 1, m)'
<1>1. reading = "length" /\ UNCHANGED <<reading, left, content>>
  BY DEF ReadDigit
<1>2. InLength(done, m)
  BY <1>1 DEF Reads, InHeader, InBreak, InContent
<1>3. Head(pipe) \in Digit
  <2>1. Head(pipe) \in Digit \/ (number = NoNumber /\ Head(pipe) = "r")
    BY DEF ReadDigit
  <2>2. "r" \notin Digit
    BY DEF Digit
  <2> QED
    BY <1>2, <2>1, <2>2, SymbolOfLength
<1>4. number' = 2 * (IF number = NoNumber THEN 0 ELSE number) + ValueOf(Head(pipe))
  <2>1. Head(pipe) # "r"
    BY <1>3 DEF Digit
  <2> QED
    BY <2>1 DEF ReadDigit
<1>5. /\ HowLong(m) \in Nat \ {0} /\ HeaderSize \in Nat \ {0}
      /\ done < HeaderSize + HowLong(m) /\ done - HeaderSize + 1 \in 1 .. HowLong(m)
      /\ Head(pipe) = Digits(Len(m))[done - HeaderSize + 1]
  BY <1>2, <1>3, SymbolOfLength
<1>6. PICK v : /\ CountedAs(v, Digits(Len(m)), Len(m))
               /\ number = IF done = HeaderSize THEN NoNumber ELSE v[done - HeaderSize]
  BY <1>2 DEF InLength
<1>7. PICK k \in 0 .. HowLong(m) - 1 : k = done - HeaderSize
  BY <1>2, <1>5 DEF InLength
<1>8. /\ v[0] = 0 /\ v[k] \in Nat
      /\ v[k + 1] = 2 * v[k] + ValueOf(Digits(Len(m))[k + 1])
  <2>1. k + 1 \in 1 .. HowLong(m) /\ k \in 0 .. HowLong(m) /\ (k + 1) - 1 = k
    BY <1>5, <1>7
  <2> QED
    BY <1>6, <2>1 DEF CountedAs, HowLong
<1>9. (IF number = NoNumber THEN 0 ELSE number) = v[k]
  <2>1. CASE done = HeaderSize
    BY <1>5, <1>6, <1>7, <1>8, <2>1
  <2>2. CASE done # HeaderSize
    <3>1. number = v[k]
      BY <1>6, <1>7, <2>2
    <3>2. v[k] # NoNumber
      BY <1>8 DEF NoNumber
    <3> QED
      BY <3>1, <3>2
  <2> QED
    BY <2>1, <2>2
<1>10. number' = v[k + 1] /\ k + 1 = (done + 1) - HeaderSize /\ done + 1 # HeaderSize
       /\ done + 1 \in HeaderSize .. HeaderSize + HowLong(m)
  <2>1. Head(pipe) = Digits(Len(m))[k + 1]
    BY <1>5, <1>7
  <2>2. number' = v[k + 1]
    BY <1>4, <1>8, <1>9, <2>1
  <2> QED
    BY <1>2, <1>5, <1>7, <2>2 DEF InLength
<1>11. InLength(done + 1, m)'
  BY <1>1, <1>2, <1>6, <1>10 DEF InLength
<1> QED
  BY <1>11 DEF Reads

LEMMA EndOfDigitsGoesOn ==
    ASSUME EndOfDigits, NEW m \in Messages, NEW done \in Nat, Reads(done, m),
           Head(pipe) = Frame(m)[done + 1]
    PROVE  Reads(done, m)'
<1>1. reading = "length" /\ UNCHANGED <<number, content>> /\ Head(pipe) \notin Digit
  BY DEF EndOfDigits
<1>2. InLength(done, m)
  BY <1>1 DEF Reads, InHeader, InBreak, InContent
<1>3. /\ done = HeaderSize + HowLong(m) /\ HowLong(m) \in Nat /\ HeaderSize \in Nat
      /\ number = Len(m) /\ number # NoNumber
  BY <1>1, <1>2, SymbolOfLength
<1>4. reading' = "break" /\ left' = BreakSize
  BY <1>3 DEF EndOfDigits
<1>5. BreakSize \in 1 .. BreakSize /\ done = Start(m) - BreakSize
  BY <1>3, SizesAssumption DEF Start
<1>6. InBreak(done, m)'
  BY <1>1, <1>2, <1>3, <1>4, <1>5 DEF InLength, InBreak
<1> QED
  BY <1>6 DEF Reads

(* What is read as the content is the message, up to where the reader is.  *)
LEMMA ContentIs ==
    ASSUME ReadContent, NEW m \in Messages, NEW done \in Nat, Reads(done, m),
           Head(pipe) = Frame(m)[done + 1]
    PROVE  /\ left > 1 => Reads(done + 1, m)'
           /\ ~(left > 1) => Append(content, Head(pipe)) = m /\ done + 1 = Len(Frame(m))
<1>1. InContent(done, m)
  BY DEF ReadContent, Reads, InHeader, InLength, InBreak
<1>2. /\ Len(m) \in Nat \ {0} /\ m \in Seq(Symbols) /\ Start(m) \in Nat
      /\ Len(Frame(m)) = Start(m) + Len(m)
      /\ \A i \in 1 .. Len(m) : Frame(m)[Start(m) + i] = m[i]
  BY FrameIs
<1>3. PICK k \in 1 .. Len(m) : /\ k = Len(m) - left + 1 /\ done + 1 = Start(m) + k
                               /\ content = SubSeq(m, 1, k - 1)
  <2>1. Len(m) - left + 1 \in 1 .. Len(m) /\ Len(m) - left = (Len(m) - left + 1) - 1
    BY <1>1, <1>2 DEF InContent
  <2>2. done + 1 = Start(m) + (Len(m) - left + 1)
    BY <1>1, <1>2 DEF InContent
  <2> QED
    BY <1>1, <2>1, <2>2 DEF InContent
<1>4. Head(pipe) = m[k]
  BY <1>2, <1>3
<1>5. Append(content, Head(pipe)) = SubSeq(m, 1, k)
  <2>1. k \in 1 .. Len(m) /\ 1 \in 1 .. Len(m) /\ k \in 1 .. Len(m)
    BY <1>2
  <2>2. SubSeq(m, 1, k) = SubSeq(m, 1, k - 1) \o <<m[k]>>
    BY <1>2, <2>1, SubSeqRecursiveSecond
  <2>3. content \in Seq(Symbols) /\ m[k] \in Symbols
    <3>1. \A i \in 1 .. k - 1 : m[i] \in Symbols
      BY <1>2, ElementOfSeq
    <3>2. m[k] \in Symbols
      BY <1>2, ElementOfSeq
    <3> QED
      BY <1>3, <3>1, <3>2, SubSeqProperties
  <2>4. Append(content, m[k]) = content \o <<m[k]>>
    BY <2>3, AppendIsConcat
  <2> QED
    BY <1>3, <1>4, <2>2, <2>4
<1>6. ASSUME left > 1
      PROVE  Reads(done + 1, m)'
  <2>1. left' = left - 1 /\ content' = SubSeq(m, 1, k) /\ reading' = "content"
    BY <1>5, <1>6 DEF ReadContent
  <2>2. left \in 1 .. Len(m)
    BY <1>1 DEF InContent
  <2>3. left - 1 \in 1 .. Len(m) /\ k = Len(m) - (left - 1) /\ done + 1 = Start(m) + Len(m) - (left - 1)
    BY <1>2, <1>3, <1>6, <2>2
  <2>4. InContent(done + 1, m)'
    BY <2>1, <2>3 DEF InContent
  <2> QED
    BY <2>4 DEF Reads
<1>7. ASSUME ~(left > 1)
      PROVE  Append(content, Head(pipe)) = m /\ done + 1 = Len(Frame(m))
  <2>1. left = 1
    BY <1>1, <1>2, <1>7 DEF InContent
  <2>2. k = Len(m)
    BY <1>2, <1>3, <2>1
  <2> QED
    BY <1>2, <1>3, <1>5, <2>2, SubSeqFull
<1> QED
  BY <1>6, <1>7

(* When the last symbol of a message is read, the message is the first of  *)
(* those that are not received, and the reader begins anew.                *)
LEMMA LastSymbolReceives ==
    ASSUME StreamInv, ReadContent, ~(left > 1)
    PROVE  StreamInv' /\ Ends!Receive
<1>1. /\ pipe \in Seq(Symbols) /\ outbox \in Seq(Symbols) /\ queue \in Seq(Messages)
      /\ open \in BOOLEAN /\ ended = FALSE /\ pipe # <<>>
  BY DEF StreamInv, ReadContent
<1>2. PICK rest \in Seq(Symbols), frames \in Seq(Messages) : \E ends : Agree(rest, frames, ends)
  BY <1>1 DEF StreamInv
<1>3. PICK ends : Agree(rest, frames, ends)
  BY <1>2
<1>4. frames # <<>>
  BY <1>1, <1>3, NextSymbol
<1>5. PICK m \in Messages, done \in Nat :
         /\ m = frames[1] /\ done = 0 - ends[0] /\ Reads(done, m)
         /\ Head(pipe) = Frame(m)[done + 1] /\ ends[1] = Len(Frame(m)) - done
  BY <1>1, <1>3, NextSymbol
<1>6. Append(content, Head(pipe)) = m /\ done + 1 = Len(Frame(m))
  BY <1>5, ContentIs
<1>7. ends[1] = 1
  <2>1. Len(Frame(m)) \in Nat
    BY FrameIs
  <2> QED
    BY <1>5, <1>6, <2>1
<1>8. /\ pipe' = Tail(pipe) /\ UNCHANGED <<outbox, open, ended>>
      /\ reading' = "header" /\ left' = HeaderSize /\ number' = NoNumber /\ content' = <<>>
      /\ received' = Append(received, m) /\ queue' = Tail(queue)
  BY <1>6 DEF ReadContent
<1>9. PICK n \in Nat : n = Len(frames) /\ n # 0
  BY <1>4, EmptySeq
<1>10. /\ Head(frames) = m /\ Tail(frames) \in Seq(Messages) /\ Len(Tail(frames)) = n - 1
       /\ \A k \in 1 .. n - 1 : Tail(frames)[k] = frames[k + 1]
  BY <1>4, <1>5, <1>9, HeadTailProperties
<1>11. pipe' \in Seq(Symbols)
  BY <1>1, <1>8, FirstSymbol
<1>12. PICK later : /\ later \in [0 .. n -> Int] /\ later[1] = 0
                    /\ InPipe(later, n)' /\ Follows(pipe' \o rest, frames, later)
  <2>1. ends \in [0 .. n -> Int] /\ Follows(pipe \o rest, frames, ends) /\ InPipe(ends, n)
    BY <1>3, <1>9 DEF Agree
  <2>2. PICK later : /\ later \in [0 .. n -> Int]
                     /\ \A k \in 0 .. n : later[k] = ends[k] - 1
                     /\ InPipe(later, n)' /\ Follows(pipe' \o rest, frames, later)
    BY <1>1, <1>8, <1>9, <2>1, StreamShifts
  <2>3. 1 \in 0 .. n
    BY <1>9
  <2>4. later[1] = 0
    BY <1>7, <2>2, <2>3
  <2> QED
    BY <2>2, <2>4
<1>13. PICK behind : /\ behind \in [0 .. Len(Tail(frames)) -> Int] /\ behind[0] = 0
                     /\ InPipe(behind, Len(Tail(frames)))'
                     /\ Follows(pipe' \o rest, Tail(frames), behind)
  <2>1. pipe' \o rest \in Seq(Symbols)
    BY <1>11, ConcatProperties
  <2>2. PICK behind : behind = Dropped(later, n)
    OBVIOUS
  <2>3. /\ behind \in [0 .. Len(Tail(frames)) -> Int] /\ behind[0] = 0
        /\ Follows(pipe' \o rest, Tail(frames), behind)
    BY <1>4, <1>9, <1>12, <2>1, <2>2, FollowsDrop
  <2>4. ASSUME NEW k \in 1 .. (n - 1) - 1
        PROVE  behind[k] <= Len(pipe')
    <3>1. k \in 0 .. n - 1 /\ k + 1 \in 1 .. n - 1
      BY <1>9
    <3>2. behind[k] = later[k + 1]
      BY <2>2, <3>1 DEF Dropped
    <3> QED
      BY <1>12, <3>1, <3>2 DEF InPipe
  <2> QED
    BY <1>10, <2>3, <2>4 DEF InPipe
<1>14. rest # <<>> => n >= 2
  <2>1. ASSUME rest # <<>>, n = 1
        PROVE  FALSE
    <3>1. Len(pipe \o rest) = ends[1]
      BY <1>3, <1>9, <2>1 DEF Agree, Follows
    <3>2. Len(pipe) \in Nat \ {0} /\ Len(rest) \in Nat \ {0}
      BY <1>1, <2>1, EmptySeq
    <3>3. Len(pipe \o rest) = Len(pipe) + Len(rest)
      BY <1>1, ConcatProperties
    <3> QED
      BY <1>7, <3>1, <3>2, <3>3
  <2> QED
    BY <1>9, <2>1
<1>15. /\ queue # <<>> /\ Head(queue) = m /\ Tail(queue) \in Seq(Messages)
       /\ Missing(rest, Tail(frames))'
  <2>1. CASE open \/ rest = <<>>
    <3>1. queue = frames
      BY <1>3, <2>1 DEF Agree, Missing
    <3>2. Missing(rest, Tail(frames))'
      BY <1>3, <1>8, <2>1, <3>1 DEF Agree, Missing
    <3> QED
      BY <1>4, <1>10, <3>1, <3>2
  <2>2. CASE ~open /\ rest # <<>>
    <3>1. outbox = <<>> /\ queue = SubSeq(frames, 1, n - 1)
      BY <1>3, <1>9, <2>2 DEF Agree, Missing
    <3>2. n >= 2
      BY <1>14, <2>2
    <3>3. Head(queue) = frames[1] /\ Tail(queue) = SubSeq(frames, 2, n - 1) /\ queue # <<>>
      <4>1. 1 \in 1 .. Len(frames) /\ n - 1 \in 1 .. Len(frames) /\ 1 + 1 = 2
        BY <1>9, <3>2
      <4>2. \A k \in 1 .. n - 1 : frames[k] \in Messages
        BY <1>9, ElementOfSeq
      <4>3. Len(queue) = n - 1
        BY <3>1, <3>2, <4>2, SubSeqProperties
      <4>4. queue # <<>>
        BY <3>2, <4>3
      <4> QED
        BY <3>1, <4>1, <4>4, HeadTailOfSubSeq
    <3>4. SubSeq(frames, 2, n - 1) = SubSeq(Tail(frames), 1, Len(Tail(frames)) - 1)
      <4>1. PICK a : a = SubSeq(frames, 2, n - 1)
        OBVIOUS
      <4>2. PICK p \in Nat : p = n - 2 /\ p = Len(Tail(frames)) - 1 /\ p = (n - 1) - 2 + 1
        BY <1>9, <1>10, <3>2
      <4>3. PICK tail \in Seq(Messages) : tail = Tail(frames)
        BY <1>10
      <4>4. PICK b : b = SubSeq(tail, 1, p)
        OBVIOUS
      <4>5. a \in Seq(Messages) /\ Len(a) = p /\ \A i \in 1 .. p : a[i] = frames[i + 1]
        <5>1. \A k \in 2 .. n - 1 : frames[k] \in Messages
          BY <1>9, ElementOfSeq
        <5>2. /\ a \in Seq(Messages) /\ Len(a) = IF 2 <= n - 1 THEN (n - 1) - 2 + 1 ELSE 0
              /\ \A i \in 1 .. (n - 1) - 2 + 1 : a[i] = frames[2 + i - 1]
          BY <4>1, <5>1, SubSeqProperties
        <5>3. \A i \in 1 .. p : 2 + i - 1 = i + 1
          OBVIOUS
        <5> QED
          BY <1>9, <4>2, <5>2, <5>3
      <4>6. b \in Seq(Messages) /\ Len(b) = p /\ \A i \in 1 .. p : b[i] = frames[i + 1]
        <5>1. \A k \in 1 .. p : k \in 1 .. n - 1 /\ k \in 1 .. Len(tail)
          BY <1>10, <4>2, <4>3
        <5>2. \A k \in 1 .. p : tail[k] \in Messages /\ tail[k] = frames[k + 1]
          BY <1>10, <4>3, <5>1, ElementOfSeq
        <5>3. /\ b \in Seq(Messages) /\ Len(b) = IF 1 <= p THEN p - 1 + 1 ELSE 0
              /\ \A i \in 1 .. p - 1 + 1 : b[i] = tail[1 + i - 1]
          BY <4>4, <5>2, SubSeqProperties
        <5>4. \A i \in 1 .. p : i \in 1 .. p - 1 + 1 /\ 1 + i - 1 = i
          OBVIOUS
        <5> QED
          BY <5>2, <5>3, <5>4
      <4>7. \A i \in 1 .. Len(a) : a[i] = b[i]
        BY <4>5, <4>6
      <4>8. a = b
        BY <4>5, <4>6, <4>7, SeqEqual
      <4> QED
        BY <4>1, <4>2, <4>3, <4>4, <4>8
    <3>5. Tail(frames) # <<>>
      <4>1. PICK tail : tail = Tail(frames)
        OBVIOUS
      <4>2. Len(tail) # 0
        BY <1>10, <3>2, <4>1
      <4> QED
        BY <4>1, <4>2
    <3>6. queue' = SubSeq(Tail(frames), 1, Len(Tail(frames)) - 1)
      BY <1>8, <3>3, <3>4
    <3>7. Missing(rest, Tail(frames))'
      BY <1>8, <2>2, <3>1, <3>5, <3>6 DEF Missing
    <3>8. queue \in Seq(Messages)
      BY <1>1
    <3> QED
      BY <1>5, <3>3, <3>7, <3>8, HeadTailProperties
  <2> QED
    BY <2>1, <2>2
<1>16. Place(0 - behind[0], Tail(frames))'
  <2>1. 0 - behind[0] = 0 /\ HeaderSize \in 1 .. HeaderSize /\ HeaderSize - HeaderSize = 0
    BY <1>13, SizesAssumption
  <2>2. Fresh' /\ InHeader(0)'
    BY <1>8, <2>1 DEF Fresh, InHeader
  <2> QED
    BY <2>1, <2>2 DEF Place, Reads
<1>17. Agree(rest, Tail(frames), behind)'
  BY <1>13, <1>15, <1>16 DEF Agree
<1>18. StreamInv'
  BY <1>1, <1>8, <1>10, <1>11, <1>15, <1>17 DEF StreamInv
<1>19. Ends!Receive
  BY <1>8, <1>15 DEF Ends!Receive
<1> QED
  BY <1>18, <1>19

(* Every other step of the reader leaves the messages alone.               *)
LEMMA ReaderGoesOn ==
    ASSUME StreamInv, Ignore \/ ReadDigit \/ EndOfDigits \/ (ReadContent /\ left > 1)
    PROVE  StreamInv' /\ UNCHANGED <<queue, received, open>>
<1>1. UNCHANGED <<outbox, open, queue, received, ended>> /\ ended = FALSE /\ pipe # <<>>
  <2>1. CASE Ignore
    BY <2>1 DEF StreamInv, Ignore, Shift, written_end
  <2>2. CASE ReadDigit
    BY <2>2 DEF StreamInv, ReadDigit, Shift, written_end
  <2>3. CASE EndOfDigits
    BY <2>3 DEF StreamInv, EndOfDigits, written_end
  <2>4. CASE ReadContent /\ left > 1
    BY <2>4 DEF StreamInv, ReadContent
  <2> QED
    BY <2>1, <2>2, <2>3, <2>4
<1>2. /\ pipe \in Seq(Symbols) /\ outbox \in Seq(Symbols) /\ queue \in Seq(Messages)
      /\ open \in BOOLEAN /\ ended \in BOOLEAN
  BY DEF StreamInv
<1>3. PICK rest \in Seq(Symbols), frames \in Seq(Messages) : \E ends : Agree(rest, frames, ends)
  BY <1>1 DEF StreamInv
<1>4. PICK ends : Agree(rest, frames, ends)
  BY <1>3
<1>5. frames # <<>>
  BY <1>1, <1>2, <1>4, NextSymbol
<1>6. PICK m \in Messages, done \in Nat :
         /\ m = frames[1] /\ done = 0 - ends[0] /\ ends[0] = 0 - done /\ Reads(done, m)
         /\ Head(pipe) = Frame(m)[done + 1]
  BY <1>1, <1>2, <1>4, NextSymbol
<1>7. pipe' \in Seq(Symbols) /\ \E later : Agree(rest, frames, later)'
  <2>1. CASE EndOfDigits
    <3>1. Reads(done, m)'
      BY <1>6, <2>1, EndOfDigitsGoesOn
    <3>2. UNCHANGED pipe
      BY <2>1 DEF EndOfDigits
    <3>3. Missing(rest, frames)'
      BY <1>1, <1>4 DEF Agree, Missing
    <3>4. Place(0 - ends[0], frames)'
      BY <1>5, <1>6, <3>1 DEF Place
    <3>5. Agree(rest, frames, ends)'
      BY <1>4, <3>2, <3>3, <3>4 DEF Agree, InPipe
    <3> QED
      BY <1>2, <3>2, <3>5
  <2>2. CASE Ignore \/ ReadDigit \/ (ReadContent /\ left > 1)
    <3>1. Reads(done + 1, m)'
      BY <1>6, <2>2, IgnoreGoesOn, ReadDigitGoesOn, ContentIs
    <3>2. pipe' = Tail(pipe)
      BY <2>2 DEF Ignore, ReadDigit, ReadContent, Shift
    <3>3. Reads(done + 1, frames[1])'
      BY <1>6, <3>1
    <3>4. UNCHANGED <<outbox, open, queue>>
      BY <1>1
    <3> QED
      BY <1>1, <1>2, <1>4, <1>5, <1>6, <3>2, <3>3, <3>4, GoesOn
  <2> QED
    BY <2>1, <2>2
<1>8. StreamInv'
  BY <1>1, <1>2, <1>7 DEF StreamInv
<1> QED
  BY <1>1, <1>8

LEMMA StreamInitHolds == StreamInit => StreamInv /\ Ends!Init
<1> SUFFICES ASSUME StreamInit
             PROVE  StreamInv
  BY DEF StreamInit, Ends!Init
<1>1. PICK ends : ends = [k \in 0 .. 0 |-> 0]
  OBVIOUS
<1>2. ends \in [0 .. Len(<<>>) -> Int] /\ ends[0] = 0 /\ Len(<<>>) = 0
  BY <1>1
<1>3. pipe \o <<>> = <<>>
  BY DEF StreamInit
<1>4. Follows(pipe \o <<>>, <<>>, ends)
  BY <1>2, <1>3 DEF Follows
<1>5. Missing(<<>>, <<>>)
  BY DEF StreamInit, Missing
<1>6. 0 - ends[0] = 0
  BY <1>2
<1>7. Place(0 - ends[0], <<>>)
  BY <1>6 DEF StreamInit, Place, Fresh
<1>8. Agree(<<>>, <<>>, ends)
  <2>1. InPipe(ends, Len(<<>>))
    BY <1>2 DEF InPipe
  <2> QED
    BY <1>2, <1>4, <1>5, <1>7, <2>1 DEF Agree
<1>9. <<>> \in Seq(Symbols) /\ <<>> \in Seq(Messages)
  OBVIOUS
<1> QED
  BY <1>8, <1>9 DEF StreamInit, StreamInv

(* The steps of the writer.                                                *)
LEMMA WriterGoesOn ==
    ASSUME StreamInv, WriteMessage \/ Flush \/ HangUp
    PROVE  StreamInv' /\ [Ends!Next]_(Ends!vars)
<1>1. /\ pipe \in Seq(Symbols) /\ outbox \in Seq(Symbols) /\ queue \in Seq(Messages)
      /\ ended = FALSE /\ open = TRUE
  BY DEF StreamInv, WriteMessage, Flush, HangUp
<1>2. PICK rest \in Seq(Symbols), frames \in Seq(Messages) : \E ends : Agree(rest, frames, ends)
  BY <1>1 DEF StreamInv
<1>3. PICK ends : Agree(rest, frames, ends)
  BY <1>2
<1>4. rest = outbox /\ frames = queue
  BY <1>1, <1>3 DEF Agree, Missing
<1>5. /\ ends \in [0 .. Len(queue) -> Int] /\ Follows(pipe \o outbox, queue, ends)
      /\ InPipe(ends, Len(queue)) /\ Place(0 - ends[0], queue)
  BY <1>3, <1>4 DEF Agree
<1>6. CASE WriteMessage
  <2>1. PICK m \in Messages : outbox' = Frame(m) /\ queue' = Append(queue, m)
    BY <1>6 DEF WriteMessage
  <2>2. outbox = <<>> /\ UNCHANGED <<open, pipe, reader, received>>
    BY <1>6 DEF WriteMessage
  <2>3. Frame(m) \in Seq(Symbols) /\ queue' \in Seq(Messages)
    BY <1>1, <2>1, FrameIs, AppendProperties
  <2>4. pipe \o outbox = pipe
    BY <1>1, <2>2, ConcatEmptySeq
  <2>5. PICK longer \in Seq(Messages), frame \in Seq(Symbols) :
           longer = queue' /\ longer = Append(frames, m) /\ frame = outbox' /\ frame = Frame(m)
    BY <1>4, <2>1, <2>3
  <2>6. PICK more : /\ more \in [0 .. Len(longer) -> Int] /\ more[0] = ends[0]
                    /\ InPipe(more, Len(longer))' /\ Follows(pipe' \o frame, longer, more)
    <3>1. PICK p \in Seq(Symbols) : p = pipe
      BY <1>1
    <3>2. ends \in [0 .. Len(frames) -> Int] /\ Follows(p, frames, ends)
      BY <1>4, <1>5, <2>4, <3>1
    <3>3. PICK more : more = Longer(ends, Len(frames), Len(Frame(m)))
      OBVIOUS
    <3>4. /\ more \in [0 .. Len(Append(frames, m)) -> Int] /\ more[0] = ends[0]
          /\ Follows(p \o Frame(m), Append(frames, m), more)
      BY <3>2, <3>3, FollowsMore
    <3>5. PICK n \in Nat : n = Len(frames) /\ Len(longer) = n + 1
      BY <2>5, AppendProperties, LenProperties
    <3>6. ASSUME NEW k \in 1 .. (n + 1) - 1
          PROVE  more[k] <= Len(p)
      <4>1. k \in 0 .. n + 1 /\ k # n + 1 /\ k \in 1 .. n
        OBVIOUS
      <4>2. more[k] = ends[k]
        BY <3>3, <3>5, <4>1 DEF Longer
      <4> QED
        BY <3>2, <3>5, <4>1, <4>2 DEF Follows
    <3>7. InPipe(more, Len(longer))'
      BY <2>2, <3>1, <3>5, <3>6 DEF InPipe
    <3> QED
      BY <2>2, <2>5, <3>1, <3>4, <3>7
  <2>7. Place(0 - more[0], longer)'
    <3>1. UNCHANGED <<reading, left, number, content>>
      BY <2>2 DEF reader
    <3>2. CASE frames = <<>>
      <4>1. longer # <<>>
        BY <2>5, <3>2
      <4>2. Fresh /\ 0 - ends[0] = 0 /\ HeaderSize \in Nat \ {0}
        BY <1>4, <1>5, <3>2, SizesAssumption DEF Place
      <4>3. InHeader(0 - more[0])'
        BY <2>6, <3>1, <4>2 DEF Fresh, InHeader
      <4> QED
        BY <4>1, <4>3 DEF Place, Reads
    <3>3. CASE frames # <<>>
      <4>1. Len(frames) \in Nat \ {0}
        BY <3>3, EmptySeq
      <4>2. longer # <<>> /\ longer[1] = frames[1]
        BY <2>5, <4>1, AppendProperties
      <4>3. PICK first, done : first = frames[1] /\ done = 0 - ends[0] /\ done = 0 - more[0] /\ first = longer[1]
        BY <2>6, <4>2
      <4>4. Reads(done, first)
        BY <1>4, <1>5, <3>3, <4>3 DEF Place
      <4>5. Reads(done, first)'
        BY <3>1, <4>4 DEF Reads, InHeader, InLength, InBreak, InContent
      <4> QED
        BY <4>2, <4>3, <4>5 DEF Place
    <3> QED
      BY <3>2, <3>3
  <2>8. Agree(frame, longer, more)'
    <3>1. Missing(frame, longer)'
      BY <1>1, <2>2, <2>5 DEF Missing
    <3> QED
      BY <2>6, <2>7, <3>1 DEF Agree
  <2>9. StreamInv'
    BY <1>1, <2>1, <2>2, <2>3, <2>8 DEF StreamInv, reader
  <2>10. Ends!Write(m)
    BY <1>1, <2>1, <2>2 DEF Ends!Write
  <2> QED
    BY <2>9, <2>10 DEF Ends!Next
<1>7. CASE Flush
  <2>1. outbox # <<>> /\ pipe' = Append(pipe, Head(outbox)) /\ outbox' = Tail(outbox)
    BY <1>7 DEF Flush
  <2>2. UNCHANGED <<open, queue, received, reading, left, number, content, ended>>
    BY <1>7 DEF Flush, reader
  <2>3. Head(outbox) \in Symbols /\ outbox' \in Seq(Symbols) /\ outbox = <<Head(outbox)>> \o outbox'
    BY <1>1, <2>1, HeadTailProperties
  <2>4. pipe' \in Seq(Symbols) /\ pipe' = pipe \o <<Head(outbox)>>
    BY <1>1, <2>1, <2>3, AppendProperties, AppendIsConcat
  <2>5. pipe' \o outbox' = pipe \o outbox
    <3>1. <<Head(outbox)>> \in Seq(Symbols)
      BY <2>3
    <3>2. PICK p \in Seq(Symbols), one \in Seq(Symbols), others \in Seq(Symbols) :
             p = pipe /\ one = <<Head(outbox)>> /\ others = outbox'
      BY <1>1, <2>3, <3>1
    <3>3. (p \o one) \o others = p \o (one \o others)
      BY ConcatAssociative
    <3> QED
      BY <2>3, <2>4, <3>2, <3>3
  <2>6. Place(0 - ends[0], frames)'
    BY <1>4, <1>5, <2>2 DEF Place, Fresh, Reads, InHeader, InLength, InBreak, InContent
  <2>7. PICK rest2 \in Seq(Symbols) : rest2 = outbox'
    BY <2>3
  <2>8. Agree(rest2, frames, ends)'
    <3>1. Missing(rest2, frames)'
      BY <1>1, <1>4, <2>2, <2>7 DEF Missing
    <3>2. InPipe(ends, Len(frames))'
      <4>1. PICK n \in Nat : n = Len(frames)
        BY LenProperties
      <4>2. Len(pipe') = Len(pipe) + 1 /\ Len(pipe) \in Nat
        BY <1>1, <2>1, <2>3, AppendProperties, LenProperties
      <4>3. ASSUME NEW k \in 1 .. n - 1
            PROVE  ends[k] <= Len(pipe')
        <5>1. ends[k] \in Int /\ ends[k] <= Len(pipe)
          BY <1>4, <1>5, <4>1 DEF InPipe
        <5> QED
          BY <4>2, <5>1
      <4> QED
        BY <4>1, <4>3 DEF InPipe
    <3> QED
      BY <1>4, <1>5, <2>5, <2>6, <2>7, <3>1, <3>2 DEF Agree
  <2>9. StreamInv'
    BY <1>1, <2>2, <2>3, <2>4, <2>7, <2>8 DEF StreamInv
  <2> QED
    BY <2>2, <2>9 DEF Ends!vars
<1>8. CASE HangUp
  <2>1. /\ open' = FALSE /\ outbox' = <<>>
        /\ queue' = IF outbox = <<>> THEN queue ELSE SubSeq(queue, 1, Len(queue) - 1)
        /\ UNCHANGED <<pipe, received, reading, left, number, content, ended>>
    BY <1>8 DEF HangUp, reader
  <2>2. outbox # <<>> => queue # <<>>
    <3>1. ASSUME outbox # <<>>, queue = <<>>
          PROVE  FALSE
      <4>1. Len(queue) = 0 /\ 0 - ends[0] = 0
        BY <1>5, <3>1 DEF Place
      <4>2. ends[0] \in Int
        BY <1>5, <4>1
      <4>3. Len(pipe \o outbox) = 0
        BY <1>5, <4>1, <4>2 DEF Follows
      <4>4. Len(outbox) \in Nat \ {0} /\ Len(pipe) \in Nat /\ Len(pipe \o outbox) = Len(pipe) + Len(outbox)
        BY <1>1, <3>1, EmptySeq, LenProperties, ConcatProperties
      <4> QED
        BY <4>3, <4>4
    <3> QED
      BY <3>1
  <2>3. queue' \in Seq(Messages)
    <3>1. Len(queue) \in Nat /\ \A k \in 1 .. Len(queue) - 1 : queue[k] \in Messages
      BY <1>1, LenProperties, ElementOfSeq
    <3>2. SubSeq(queue, 1, Len(queue) - 1) \in Seq(Messages)
      BY <3>1, SubSeqProperties
    <3> QED
      BY <1>1, <2>1, <3>2
  <2>4. Missing(rest, frames)'
    BY <1>4, <2>1, <2>2 DEF Missing
  <2>5. Place(0 - ends[0], frames)'
    BY <1>4, <1>5, <2>1 DEF Place, Fresh, Reads, InHeader, InLength, InBreak, InContent
  <2>6. Agree(rest, frames, ends)'
    BY <1>3, <2>1, <2>4, <2>5 DEF Agree, InPipe
  <2>7. StreamInv'
    <3>1. \E later : Agree(rest, frames, later)'
      BY <2>6
    <3>2. pipe' \in Seq(Symbols) /\ open' \in BOOLEAN /\ ended' = FALSE
      BY <1>1, <2>1
    <3>3. outbox' \in Seq(Symbols)
      BY <2>1, EmptySeq
    <3> QED
      BY <2>3, <3>1, <3>2, <3>3 DEF StreamInv
  <2>8. Ends!HangUp
    BY <1>1, <2>1, <2>2 DEF Ends!HangUp
  <2> QED
    BY <2>7, <2>8 DEF Ends!Next
<1> QED
  BY <1>6, <1>7, <1>8

(* Behind the end of the stream there is nothing to receive.               *)
LEMMA NothingBehindEnd ==
    ASSUME StreamInv, MeetEnd
    PROVE  StreamInv' /\ UNCHANGED <<queue, received, open>>
<1>1. /\ UNCHANGED <<outbox, open, pipe, queue, received>> /\ ended' = TRUE
      /\ open = FALSE /\ pipe = <<>>
  BY DEF StreamInv, MeetEnd, written_end
<1>2. ASSUME ~ended
      PROVE  queue = <<>>
  <2>1. PICK rest \in Seq(Symbols), frames \in Seq(Messages) : \E ends : Agree(rest, frames, ends)
    BY <1>2 DEF StreamInv
  <2>2. PICK ends : Agree(rest, frames, ends)
    BY <2>1
  <2>3. CASE frames = <<>>
    BY <1>1, <2>2, <2>3 DEF Agree, Missing
  <2>4. CASE frames # <<>>
    <3>1. PICK n \in Nat : n = Len(frames) /\ n # 0
      BY <2>4, EmptySeq
    <3>2. PICK m \in Messages : m = frames[1]
      <4>1. 1 \in 1 .. Len(frames)
        BY <3>1
      <4> QED
        BY <4>1, ElementOfSeq
    <3>3. PICK begin : begin = 0 - ends[0]
      OBVIOUS
    <3>4. begin \in Nat /\ begin < Len(Frame(m))
      BY <2>2, <2>4, <3>2, <3>3, InsideFrame DEF Agree, Place
    <3>5. PICK start \in Int : start = ends[0]
      <4>1. 0 \in 0 .. n
        OBVIOUS
      <4> QED
        BY <2>2, <3>1, <4>1 DEF Agree
    <3>6. PICK size \in Nat : size = Len(Frame(m)) /\ ends[1] = start + size
      <4>1. 1 \in 1 .. n /\ 1 - 1 = 0
        BY <3>1
      <4> QED
        BY <2>2, <3>1, <3>2, <3>5, <4>1, FrameIs DEF Agree, Follows
    <3>7. ends[1] > 0 /\ ends[1] \in Int
      BY <3>3, <3>4, <3>5, <3>6
    <3>8. n = 1
      <4>1. ASSUME n # 1
            PROVE  FALSE
        <5>1. 1 \in 1 .. n - 1
          BY <3>1, <4>1
        <5>2. ends[1] <= Len(pipe) /\ Len(pipe) = 0
          BY <1>1, <2>2, <3>1, <5>1 DEF Agree, InPipe
        <5> QED
          BY <3>7, <5>2
      <4> QED
        BY <4>1
    <3>9. rest # <<>>
      <4>1. ASSUME rest = <<>>
            PROVE  FALSE
        <5>1. pipe \o rest = <<>>
          BY <1>1, <4>1
        <5>2. Len(pipe \o rest) = ends[1] /\ Len(<<>>) = 0
          BY <2>2, <3>1, <3>8 DEF Agree, Follows
        <5> QED
          BY <3>7, <5>1, <5>2
      <4> QED
        BY <4>1
    <3>10. queue = SubSeq(frames, 1, 0)
      BY <1>1, <2>2, <3>1, <3>8, <3>9 DEF Agree, Missing
    <3> QED
      BY <3>10, SubSeqEmpty
  <2> QED
    BY <2>3, <2>4
<1>3. queue = <<>>
  BY <1>2 DEF StreamInv
<1> QED
  BY <1>1, <1>3 DEF StreamInv

LEMMA StreamStepRefines ==
    StreamInv /\ [StreamNext]_streamVars => StreamInv' /\ [Ends!Next]_(Ends!vars)
<1> SUFFICES ASSUME StreamInv, [StreamNext]_streamVars
             PROVE  StreamInv' /\ [Ends!Next]_(Ends!vars)
  OBVIOUS
<1>1. CASE WriteMessage \/ Flush \/ HangUp
  BY <1>1, WriterGoesOn
<1>2. CASE Ignore \/ ReadDigit \/ EndOfDigits \/ (ReadContent /\ left > 1)
  BY <1>2, ReaderGoesOn DEF Ends!vars
<1>3. CASE ReadContent /\ ~(left > 1)
  BY <1>3, LastSymbolReceives DEF Ends!Next
<1>4. CASE MeetEnd
  BY <1>4, NothingBehindEnd DEF Ends!vars
<1>5. CASE UNCHANGED streamVars
  <2>1. UNCHANGED <<outbox, open, pipe, reading, left, number, content, ended, queue, received>>
    BY <1>5 DEF streamVars
  <2>2. ASSUME NEW rest, NEW frames, NEW ends, Agree(rest, frames, ends)
        PROVE  Agree(rest, frames, ends)'
    <3>1. Missing(rest, frames)'
      BY <2>1, <2>2 DEF Agree, Missing
    <3>2. Place(0 - ends[0], frames)'
      BY <2>1, <2>2 DEF Agree, Place, Fresh, Reads, InHeader, InLength, InBreak, InContent
    <3> QED
      BY <2>1, <2>2, <3>1, <3>2 DEF Agree, InPipe
  <2>3. StreamInv'
    <3>1. CASE ended
      BY <2>1, <3>1 DEF StreamInv
    <3>2. CASE ~ended
      <4>1. PICK rest \in Seq(Symbols), frames \in Seq(Messages) : \E ends : Agree(rest, frames, ends)
        BY <3>2 DEF StreamInv
      <4>2. \E ends : Agree(rest, frames, ends)'
        BY <2>2, <4>1
      <4> QED
        BY <2>1, <4>2 DEF StreamInv
    <3> QED
      BY <3>1, <3>2
  <2> QED
    BY <2>1, <2>3 DEF Ends!vars
<1> QED
  BY <1>1, <1>2, <1>3, <1>4, <1>5 DEF StreamNext, Read

LEMMA StreamInductive == StreamSpec => []StreamInv
BY StreamInitHolds, StreamStepRefines, PTL DEF StreamSpec

(* Whatever the messages look like and however their frames are cut up,    *)
(* read_message returns the messages that write_message was given, whole,  *)
(* in order and once; one whose frame is cut off is returned in no part.   *)
THEOREM MessagesArriveWhole == StreamSpec => Ends!Safety
BY StreamInitHolds, StreamStepRefines, StreamInductive, PTL DEF StreamSpec, Ends!Safety

(* read_message fails only behind the end of the stream, when every        *)
(* message that was written to its end has been returned.                  *)
THEOREM FailsWithNothingLost == StreamSpec => [](reading = "failed" => ~open /\ queue = <<>>)
<1>1. StreamInv /\ reading = "failed" => ~open /\ queue = <<>>
  <2> SUFFICES ASSUME StreamInv, reading = "failed"
               PROVE  ~open /\ queue = <<>>
    OBVIOUS
  <2>1. ended
    <3>1. ASSUME ~ended
          PROVE  FALSE
      <4>1. PICK rest \in Seq(Symbols), frames \in Seq(Messages) : \E ends : Agree(rest, frames, ends)
        BY <3>1 DEF StreamInv
      <4>2. PICK ends : Agree(rest, frames, ends)
        BY <4>1
      <4> QED
        BY <4>2 DEF Agree, Place, Fresh, Reads, InHeader, InLength, InBreak, InContent
    <3> QED
      BY <3>1
  <2> QED
    BY <2>1 DEF StreamInv
<1> QED
  BY <1>1, StreamInductive, PTL

-----------------------------------------------------------------------------
(* The document.                                                           *)

(* The line feeds of a string are some of its offsets, and can be counted. *)
LEMMA LineFeedsAreOffsets ==
    ASSUME NEW S, NEW s \in Seq(S)
    PROVE  /\ Len(s) \in Nat /\ DOMAIN s = 1 .. Len(s)
           /\ LineFeeds(s) \subseteq 1 .. Len(s)
           /\ \A o \in Int : /\ IsFiniteSet({i \in LineFeeds(s) : i <= o})
                            /\ LineOf(s, o) \in Nat
           /\ \A o \in 0 .. Len(s) : LineOf(s, o) \in Nat
           /\ LineOf(s, Len(s)) \in Nat
<1>1. Len(s) \in Nat /\ DOMAIN s = 1 .. Len(s)
  BY LenProperties
<1>2. LineFeeds(s) \subseteq 1 .. Len(s)
  BY <1>1 DEF LineFeeds
<1>3. ASSUME NEW o \in Int
      PROVE  IsFiniteSet({i \in LineFeeds(s) : i <= o}) /\ LineOf(s, o) \in Nat
  <2>1. IsFiniteSet(1 .. Len(s))
    BY <1>1, FS_Interval
  <2>2. IsFiniteSet({i \in LineFeeds(s) : i <= o})
    BY <1>2, <2>1, FS_Subset
  <2> QED
    BY <2>2, FS_CardinalityType DEF LineOf
<1>4. 0 .. Len(s) \subseteq Int /\ Len(s) \in Int
  BY <1>1
<1> QED
  BY <1>1, <1>2, <1>3, <1>4, Zenon

(* Counting goes up by one at each line feed.                              *)
LEMMA LineOfNext ==
    ASSUME NEW S, NEW s \in Seq(S)
    PROVE  /\ LineOf(s, 0) = 0
           /\ \A o \in 0 .. Len(s) - 1 :
                 LineOf(s, o + 1) = IF s[o + 1] = LF THEN LineOf(s, o) + 1 ELSE LineOf(s, o)
<1> USE LineFeedsAreOffsets
<1>1. {i \in LineFeeds(s) : i <= 0} = {}
  OBVIOUS
<1>2. LineOf(s, 0) = 0
  BY <1>1, FS_EmptySet DEF LineOf
<1>3. ASSUME NEW o \in 0 .. Len(s) - 1
      PROVE  LineOf(s, o + 1) = IF s[o + 1] = LF THEN LineOf(s, o) + 1 ELSE LineOf(s, o)
  <2> DEFINE Upto == {i \in LineFeeds(s) : i <= o}
  <2> DEFINE Next1 == {i \in LineFeeds(s) : i <= o + 1}
  <2>1. IsFiniteSet(Upto)
    OBVIOUS
  <2>2. o + 1 \notin Upto /\ o + 1 \in 1 .. Len(s) /\ LineFeeds(s) \subseteq 1 .. Len(s)
    OBVIOUS
  <2>3. CASE s[o + 1] = LF
    <3>1. o + 1 \in LineFeeds(s)
      BY <2>2, <2>3 DEF LineFeeds
    <3>2. Next1 = Upto \cup {o + 1}
      BY <2>2, <3>1
    <3>3. Cardinality(Next1) = Cardinality(Upto) + 1
      BY <2>1, <2>2, <3>2, FS_AddElement
    <3> QED
      BY <2>3, <3>3 DEF LineOf
  <2>4. CASE s[o + 1] # LF
    <3>1. o + 1 \notin LineFeeds(s)
      BY <2>4 DEF LineFeeds
    <3>2. Next1 = Upto
      BY <2>2, <3>1
    <3> QED
      BY <2>4, <3>2 DEF LineOf
  <2> QED
    BY <2>3, <2>4
<1> QED
  BY <1>2, <1>3

(* Lines only go on; a line feed begins another one, and nothing else does. *)
LEMMA LineOfGrows ==
    ASSUME NEW S, NEW s \in Seq(S), NEW i \in 0 .. Len(s), NEW j \in i .. Len(s)
    PROVE  /\ LineOf(s, i) <= LineOf(s, j)
           /\ (i < j /\ s[j] = LF) => LineOf(s, i) < LineOf(s, j)
           /\ (\A k \in i + 1 .. j : s[k] # LF) => LineOf(s, i) = LineOf(s, j)
<1>0. Len(s) \in Nat /\ i \in Int /\ j \in Int
  BY LineFeedsAreOffsets
<1>1. \A o \in 0 .. Len(s) : LineOf(s, o) \in Nat
  BY <1>0, LineFeedsAreOffsets
<1>2. ASSUME NEW k \in i .. Len(s)
      PROVE  LineOf(s, i) <= LineOf(s, k)
  <2>1. {l \in LineFeeds(s) : l <= i} \in SUBSET {l \in LineFeeds(s) : l <= k}
    BY <1>0, LineFeedsAreOffsets
  <2>2. IsFiniteSet({l \in LineFeeds(s) : l <= k})
    BY <1>0, LineFeedsAreOffsets
  <2> QED
    BY <2>1, <2>2, FS_Subset DEF LineOf
<1>3. ASSUME i < j, s[j] = LF
      PROVE  LineOf(s, i) < LineOf(s, j)
  <2>1. j - 1 \in i .. Len(s) /\ j - 1 \in 0 .. Len(s) - 1 /\ (j - 1) + 1 = j
    BY <1>0, <1>3
  <2>2. LineOf(s, j) = LineOf(s, j - 1) + 1
    BY <1>3, <2>1, LineOfNext
  <2>3. LineOf(s, i) <= LineOf(s, j - 1)
    BY <1>2, <2>1
  <2> QED
    BY <1>1, <2>1, <2>2, <2>3
<1>4. ASSUME \A k \in i + 1 .. j : s[k] # LF
      PROVE  LineOf(s, i) = LineOf(s, j)
  <2>1. \A l \in LineFeeds(s) : l <= j => l <= i
    BY <1>0, <1>4, LineFeedsAreOffsets DEF LineFeeds
  <2>2. \A l \in LineFeeds(s) : l <= i => l <= j
    BY <1>0, LineFeedsAreOffsets
  <2>3. {l \in LineFeeds(s) : l <= i} = {l \in LineFeeds(s) : l <= j}
    BY <2>1, <2>2
  <2> QED
    BY <2>3 DEF LineOf
<1> QED
  BY <1>2, <1>3, <1>4

(* Where a string's lines begin.                                           *)
LEMMA StartsAreOffsets ==
    ASSUME NEW S, NEW s \in Seq(S)
    PROVE  /\ LineStarts(s) \subseteq 0 .. Len(s) /\ 0 \in LineStarts(s)
           /\ \A i \in 1 .. Len(s) : i \in LineStarts(s) <=> s[i] = LF
BY LineFeedsAreOffsets DEF LineStarts, LineFeeds

(* Each line up to the last has one beginning, and there are no others.    *)
LEMMA LineStartIs ==
    ASSUME NEW S, NEW s \in Seq(S), NEW n \in 0 .. LineOf(s, Len(s))
    PROVE  /\ HasLine(s, n)
           /\ LineStart(s, n) \in LineStarts(s) /\ LineStart(s, n) \in 0 .. Len(s)
           /\ LineOf(s, LineStart(s, n)) = n
           /\ \A i \in LineStarts(s) : LineOf(s, i) = n => i = LineStart(s, n)
<1>0. Len(s) \in Nat /\ LineOf(s, Len(s)) \in Nat /\ \A o \in 0 .. Len(s) : LineOf(s, o) \in Nat
  BY LineFeedsAreOffsets
<1> DEFINE Reached == {o \in 0 .. Len(s) : n <= LineOf(s, o)}
<1>1. Reached \subseteq Nat /\ Reached # {}
  BY <1>0
<1>2. PICK o \in Reached : \A k \in Reached : o <= k
  BY <1>1, LeastNumber
<1>3. o \in LineStarts(s) /\ LineOf(s, o) = n
  <2>1. CASE o = 0
    BY <1>0, <1>2, <2>1, LineOfNext, StartsAreOffsets
  <2>2. CASE o # 0
    <3>1. o - 1 \in 0 .. Len(s) - 1 /\ o - 1 \in 0 .. Len(s) /\ (o - 1) + 1 = o /\ ~(o <= o - 1)
      BY <1>0, <1>2, <2>2
    <3>2. o - 1 \notin Reached
      BY <1>2, <3>1
    <3>3. LineOf(s, o - 1) < n /\ n <= LineOf(s, o)
      BY <1>0, <1>2, <3>1, <3>2
    <3>4. LineOf(s, o) = IF s[o] = LF THEN LineOf(s, o - 1) + 1 ELSE LineOf(s, o - 1)
      BY <3>1, LineOfNext
    <3>5. s[o] = LF /\ LineOf(s, o) = n
      BY <1>0, <3>1, <3>3, <3>4
    <3> QED
      BY <3>1, <3>5, StartsAreOffsets
  <2> QED
    BY <2>1, <2>2
<1>4. HasLine(s, n) /\ LineStart(s, n) \in LineStarts(s) /\ LineOf(s, LineStart(s, n)) = n
  BY <1>3 DEF HasLine, LineStart
<1>5. ASSUME NEW i \in LineStarts(s), NEW j \in LineStarts(s), i < j
      PROVE  LineOf(s, i) # LineOf(s, j)
  <2>1. i \in 0 .. Len(s) /\ j \in i .. Len(s) /\ s[j] = LF
    BY <1>0, <1>5, StartsAreOffsets
  <2>2. LineOf(s, i) < LineOf(s, j)
    BY <1>5, <2>1, LineOfGrows
  <2> QED
    BY <1>0, <2>1, <2>2
<1>6. ASSUME NEW i \in LineStarts(s), LineOf(s, i) = n
      PROVE  i = LineStart(s, n)
  <2>1. i \in Int /\ LineStart(s, n) \in Int
    BY <1>4, StartsAreOffsets
  <2> QED
    BY <1>4, <1>5, <1>6, <2>1
<1> QED
  BY <1>4, <1>6, StartsAreOffsets
LEMMA NoLineBehindLast ==
    ASSUME NEW S, NEW s \in Seq(S), NEW n, HasLine(s, n)
    PROVE  n \in 0 .. LineOf(s, Len(s))
<1>1. PICK i \in LineStarts(s) : LineOf(s, i) = n
  BY DEF HasLine
<1>2. i \in 0 .. Len(s) /\ Len(s) \in i .. Len(s) /\ Len(s) \in Int
  BY StartsAreOffsets, LineFeedsAreOffsets
<1>3. LineOf(s, i) <= LineOf(s, Len(s))
  BY <1>2, LineOfGrows
<1> QED
  BY <1>1, <1>2, <1>3, LineFeedsAreOffsets

(* The last offset of a line. *)
LineEnd(s, n) == IF HasLine(s, n + 1) THEN LineStart(s, n + 1) - 1 ELSE Len(s)

(* An offset is on a line when it is between the line's two ends.          *)
LEMMA LineOfIs ==
    ASSUME NEW S, NEW s \in Seq(S), NEW n \in 0 .. LineOf(s, Len(s))
    PROVE  /\ LineEnd(s, n) \in LineStart(s, n) .. Len(s)
           /\ \A o \in 0 .. Len(s) :
                 LineOf(s, o) = n <=> o \in LineStart(s, n) .. LineEnd(s, n)
<1>0. Len(s) \in Nat /\ LineOf(s, Len(s)) \in Nat /\ \A o \in 0 .. Len(s) : LineOf(s, o) \in Nat
  BY LineFeedsAreOffsets
<1>1. LineStart(s, n) \in 0 .. Len(s) /\ LineOf(s, LineStart(s, n)) = n
  BY LineStartIs
<1>2. ASSUME NEW o \in 0 .. Len(s), o < LineStart(s, n)
      PROVE  LineOf(s, o) < n
  <2>1. LineStart(s, n) # 0 /\ LineStart(s, n) \in LineStarts(s)
    BY <1>0, <1>1, <1>2, LineStartIs
  <2>2. s[LineStart(s, n)] = LF /\ LineStart(s, n) \in o .. Len(s)
    BY <1>0, <1>1, <1>2, <2>1, StartsAreOffsets
  <2> QED
    BY <1>1, <1>2, <2>2, LineOfGrows
<1>3. ASSUME NEW o \in LineStart(s, n) .. Len(s)
      PROVE  n <= LineOf(s, o)
  BY <1>0, <1>1, LineOfGrows
<1>4. CASE n + 1 \in 0 .. LineOf(s, Len(s))
  <2>1. HasLine(s, n + 1) /\ LineStart(s, n + 1) \in 0 .. Len(s)
        /\ LineOf(s, LineStart(s, n + 1)) = n + 1 /\ LineStart(s, n + 1) \in LineStarts(s)
    BY <1>4, LineStartIs
  <2>2. LineStart(s, n) < LineStart(s, n + 1)
    <3>1. CASE LineStart(s, n + 1) <= LineStart(s, n)
      <4>1. LineStart(s, n) \in LineStart(s, n + 1) .. Len(s)
        BY <1>1, <2>1, <3>1
      <4>2. n + 1 <= n
        BY <1>1, <2>1, <4>1, LineOfGrows
      <4> QED
        BY <4>2
    <3> QED
      BY <1>1, <2>1, <3>1
  <2>3. LineEnd(s, n) = LineStart(s, n + 1) - 1
    BY <2>1 DEF LineEnd
  <2>4. ASSUME NEW o \in 0 .. Len(s)
        PROVE  LineOf(s, o) <= n <=> o <= LineStart(s, n + 1) - 1
    <3>1. CASE o < LineStart(s, n + 1)
      <4>1. s[LineStart(s, n + 1)] = LF /\ LineStart(s, n + 1) \in o .. Len(s)
        BY <1>0, <2>1, <3>1, StartsAreOffsets
      <4>2. LineOf(s, o) < n + 1
        BY <2>1, <3>1, <4>1, LineOfGrows
      <4> QED
        BY <1>0, <2>1, <3>1, <4>2
    <3>2. CASE ~(o < LineStart(s, n + 1))
      <4>1. o \in LineStart(s, n + 1) .. Len(s)
        BY <2>1, <3>2
      <4>2. n + 1 <= LineOf(s, o)
        BY <2>1, <4>1, LineOfGrows
      <4> QED
        BY <1>0, <2>1, <3>2, <4>2
    <3> QED
      BY <3>1, <3>2
  <2>5. ASSUME NEW o \in 0 .. Len(s)
        PROVE  LineOf(s, o) = n <=> o \in LineStart(s, n) .. LineEnd(s, n)
    <3>1. o < LineStart(s, n) \/ o \in LineStart(s, n) .. Len(s)
      BY <1>1
    <3>2. LineOf(s, o) \in Nat
      BY <1>0
    <3>3. n <= LineOf(s, o) <=> LineStart(s, n) <= o
      BY <1>1, <1>2, <1>3, <3>1, <3>2
    <3> QED
      BY <1>1, <2>1, <2>3, <2>4, <3>2, <3>3
  <2> QED
    BY <1>1, <2>1, <2>2, <2>3, <2>5
<1>5. CASE n + 1 \notin 0 .. LineOf(s, Len(s))
  <2>1. ~HasLine(s, n + 1) /\ n = LineOf(s, Len(s))
    BY <1>0, <1>5, NoLineBehindLast
  <2>2. LineEnd(s, n) = Len(s)
    BY <2>1 DEF LineEnd
  <2>3. ASSUME NEW o \in 0 .. Len(s)
        PROVE  LineOf(s, o) <= n
    <3>1. Len(s) \in o .. Len(s)
      BY <1>0
    <3> QED
      BY <2>1, <3>1, LineOfGrows
  <2>4. ASSUME NEW o \in 0 .. Len(s)
        PROVE  LineOf(s, o) = n <=> o \in LineStart(s, n) .. LineEnd(s, n)
    <3>1. o < LineStart(s, n) \/ o \in LineStart(s, n) .. Len(s)
      BY <1>1
    <3>2. LineOf(s, o) \in Nat
      BY <1>0
    <3>3. n <= LineOf(s, o) <=> LineStart(s, n) <= o
      BY <1>1, <1>2, <1>3, <3>1, <3>2
    <3> QED
      BY <1>1, <2>2, <2>3, <3>2, <3>3
  <2> QED
    BY <1>0, <1>1, <2>2, <2>4
<1> QED
  BY <1>4, <1>5

-----------------------------------------------------------------------------
(* The line feeds of two strings one after the other.                      *)
LEMMA LineOfJoined ==
    ASSUME NEW S, NEW a \in Seq(S), NEW b \in Seq(S)
    PROVE  /\ \A o \in 0 .. Len(a) : LineOf(a \o b, o) = LineOf(a, o)
           /\ \A i \in 0 .. Len(b) : LineOf(a \o b, Len(a) + i) = LineOf(a, Len(a)) + LineOf(b, i)
<1> DEFINE u == a \o b
<1>0. /\ u \in Seq(S) /\ Len(u) = Len(a) + Len(b) /\ Len(a) \in Nat /\ Len(b) \in Nat
      /\ \A i \in 1 .. Len(a) : u[i] = a[i]
      /\ \A i \in 1 .. Len(b) : u[Len(a) + i] = b[i]
  BY ConcatProperties, LineFeedsAreOffsets
<1> HIDE DEF u
<1>1. ASSUME NEW o \in 0 .. Len(a)
      PROVE  LineOf(u, o) = LineOf(a, o)
  <2>1. \A i \in 1 .. o : i \in LineFeeds(u) <=> i \in LineFeeds(a)
    BY <1>0, LineFeedsAreOffsets DEF LineFeeds
  <2>2. LineFeeds(u) \subseteq 1 .. Len(u) /\ LineFeeds(a) \subseteq 1 .. Len(a)
    BY <1>0, LineFeedsAreOffsets
  <2>3. {i \in LineFeeds(u) : i <= o} = {i \in LineFeeds(a) : i <= o}
    BY <1>0, <2>1, <2>2
  <2> QED
    BY <2>3 DEF LineOf
<1> DEFINE Wrong == {i \in 0 .. Len(b) : LineOf(u, Len(a) + i) # LineOf(a, Len(a)) + LineOf(b, i)}
<1>2. ASSUME Wrong # {}
      PROVE  FALSE
  <2>1. Wrong \subseteq Nat
    BY <1>0
  <2>2. PICK i \in Wrong : \A k \in Wrong : i <= k
    BY <1>2, <2>1, LeastNumber
  <2>3. i # 0
    <3>1. LineOf(u, Len(a) + 0) = LineOf(a, Len(a)) /\ LineOf(b, 0) = 0
      BY <1>0, <1>1, LineOfNext
    <3>2. LineOf(a, Len(a)) \in Nat
      BY LineFeedsAreOffsets
    <3> QED
      BY <3>1, <3>2
  <2>4. i - 1 \in 0 .. Len(b) - 1 /\ i - 1 \in 0 .. Len(b) /\ (i - 1) + 1 = i /\ ~(i <= i - 1)
    BY <1>0, <2>3
  <2>5. LineOf(u, Len(a) + (i - 1)) = LineOf(a, Len(a)) + LineOf(b, i - 1)
    BY <2>2, <2>4
  <2>6. Len(a) + (i - 1) \in 0 .. Len(u) - 1 /\ (Len(a) + (i - 1)) + 1 = Len(a) + i
    BY <1>0, <2>4
  <2>7. LineOf(u, Len(a) + i) = IF u[Len(a) + i] = LF THEN LineOf(u, Len(a) + (i - 1)) + 1
                                ELSE LineOf(u, Len(a) + (i - 1))
    BY <1>0, <2>6, LineOfNext
  <2>8. LineOf(b, i) = IF b[i] = LF THEN LineOf(b, i - 1) + 1 ELSE LineOf(b, i - 1)
    BY <2>4, LineOfNext
  <2>9. u[Len(a) + i] = b[i]
    BY <1>0, <2>4
  <2>10. LineOf(a, Len(a)) \in Nat /\ LineOf(b, i - 1) \in Nat
    BY <2>4, LineFeedsAreOffsets
  <2>11. LineOf(u, Len(a) + i) = LineOf(a, Len(a)) + LineOf(b, i)
    BY <2>5, <2>7, <2>8, <2>9, <2>10
  <2> QED
    BY <2>2, <2>11
<1>3. \A i \in 0 .. Len(b) : LineOf(u, Len(a) + i) = LineOf(a, Len(a)) + LineOf(b, i)
  BY <1>2
<1> QED
  BY <1>1, <1>3 DEF u

(* Its lines begin where those of the first begin, and then where those of *)
(* the second do that a line feed of its own begins.                       *)
LEMMA LineStartJoined ==
    ASSUME NEW S, NEW a \in Seq(S), NEW b \in Seq(S)
    PROVE  /\ \A n \in 0 .. LineOf(a, Len(a)) :
                 HasLine(a \o b, n) /\ LineStart(a \o b, n) = LineStart(a, n)
           /\ \A n \in 1 .. LineOf(b, Len(b)) :
                 /\ HasLine(a \o b, LineOf(a, Len(a)) + n)
                 /\ LineStart(a \o b, LineOf(a, Len(a)) + n) = Len(a) + LineStart(b, n)
<1> DEFINE u == a \o b
<1> DEFINE L == LineOf(a, Len(a))
<1>0. /\ u \in Seq(S) /\ Len(u) = Len(a) + Len(b) /\ Len(a) \in Nat /\ Len(b) \in Nat
      /\ \A i \in 1 .. Len(a) : u[i] = a[i]
      /\ \A i \in 1 .. Len(b) : u[Len(a) + i] = b[i]
  BY ConcatProperties, LineFeedsAreOffsets
<1>1. /\ \A o \in 0 .. Len(a) : LineOf(u, o) = LineOf(a, o)
      /\ \A i \in 0 .. Len(b) : LineOf(u, Len(a) + i) = L + LineOf(b, i)
  BY LineOfJoined
<1>2. L \in Nat /\ LineOf(b, Len(b)) \in Nat /\ LineOf(u, Len(u)) = L + LineOf(b, Len(b))
  BY <1>0, <1>1, LineFeedsAreOffsets
<1> HIDE DEF u, L
<1>3. ASSUME NEW n \in 0 .. L
      PROVE  HasLine(u, n) /\ LineStart(u, n) = LineStart(a, n)
  <2>1. LineStart(a, n) \in LineStarts(a) /\ LineStart(a, n) \in 0 .. Len(a)
        /\ LineOf(a, LineStart(a, n)) = n
    BY LineStartIs DEF L
  <2>2. LineStart(a, n) \in LineStarts(u)
    <3>1. LineStart(a, n) = 0 \/ LineStart(a, n) \in 1 .. Len(a)
      BY <1>0, <2>1
    <3>2. CASE LineStart(a, n) \in 1 .. Len(a)
      <4>1. a[LineStart(a, n)] = LF
        BY <2>1, <3>2, StartsAreOffsets
      <4>2. u[LineStart(a, n)] = LF /\ LineStart(a, n) \in 1 .. Len(u)
        BY <1>0, <3>2, <4>1
      <4> QED
        BY <1>0, <4>2, StartsAreOffsets
    <3> QED
      BY <1>0, <3>1, <3>2, StartsAreOffsets
  <2>3. LineOf(u, LineStart(a, n)) = n
    BY <1>1, <2>1
  <2>4. n \in 0 .. LineOf(u, Len(u))
    BY <1>2
  <2> QED
    BY <1>0, <2>2, <2>3, <2>4, LineStartIs
<1>4. ASSUME NEW n \in 1 .. LineOf(b, Len(b))
      PROVE  HasLine(u, L + n) /\ LineStart(u, L + n) = Len(a) + LineStart(b, n)
  <2>1. n \in 0 .. LineOf(b, Len(b))
    BY <1>2
  <2>2. LineStart(b, n) \in LineStarts(b) /\ LineStart(b, n) \in 0 .. Len(b)
        /\ LineOf(b, LineStart(b, n)) = n
    BY <2>1, LineStartIs
  <2>3. LineStart(b, n) \in 1 .. Len(b)
    BY <1>0, <2>2, LineOfNext
  <2>4. b[LineStart(b, n)] = LF
    BY <2>2, <2>3, StartsAreOffsets
  <2>5. Len(a) + LineStart(b, n) \in 1 .. Len(u) /\ u[Len(a) + LineStart(b, n)] = LF
    BY <1>0, <2>3, <2>4
  <2>6. Len(a) + LineStart(b, n) \in LineStarts(u)
    BY <1>0, <2>5, StartsAreOffsets
  <2>7. LineOf(u, Len(a) + LineStart(b, n)) = L + n
    BY <1>1, <2>2
  <2>8. L + n \in 0 .. LineOf(u, Len(u))
    BY <1>2
  <2> QED
    BY <1>0, <2>6, <2>7, <2>8, LineStartIs
<1> QED
  BY <1>3, <1>4 DEF u, L

-----------------------------------------------------------------------------
(* What lies between two offsets.                                          *)
LEMMA SliceIs ==
    ASSUME NEW S, NEW s \in Seq(S), NEW l \in 0 .. Len(s), NEW e \in l .. Len(s)
    PROVE  /\ SubSeq(s, l + 1, e) \in Seq(S) /\ Len(SubSeq(s, l + 1, e)) = e - l
           /\ \A i \in 1 .. e - l : SubSeq(s, l + 1, e)[i] = s[l + i]
<1>0. Len(s) \in Nat /\ s \in [1 .. Len(s) -> S]
  BY LenProperties
<1>1. l + 1 \in Int /\ e \in Int /\ \A i \in l + 1 .. e : s[i] \in S
  BY <1>0
<1>2. PICK m \in Int : m = l + 1
  BY <1>1
<1>3. /\ SubSeq(s, m, e) \in Seq(S)
      /\ Len(SubSeq(s, m, e)) = IF m <= e THEN e - m + 1 ELSE 0
      /\ \A i \in 1 .. e - m + 1 : SubSeq(s, m, e)[i] = s[m + i - 1]
  BY <1>1, <1>2, SubSeqProperties
<1> QED
  BY <1>0, <1>2, <1>3

(* Lines one after the other: the last of the first is continued by the    *)
(* first of the others.                                                    *)
Join(K, M) == [n \in 1 .. Len(K) + Len(M) - 1 |->
                  IF n < Len(K) THEN K[n]
                  ELSE IF n = Len(K) THEN K[n] \o M[1]
                  ELSE M[n - Len(K) + 1]]

(* The lines of a string are strings, one at least.                        *)
LEMMA LinesAreStrings ==
    ASSUME NEW S, NEW s \in Seq(S)
    PROVE  /\ LinesOf(s) \in Seq(Seq(S)) /\ Len(LinesOf(s)) = LineOf(s, Len(s)) + 1
           /\ Len(LinesOf(s)) \in Nat \ {0}
           /\ \A n \in 0 .. LineOf(s, Len(s)) :
                 /\ LinesOf(s)[n + 1] = SubSeq(s, LineStart(s, n) + 1, LineEnd(s, n))
                 /\ LinesOf(s)[n + 1] \in Seq(S)
                 /\ Len(LinesOf(s)[n + 1]) = LineEnd(s, n) - LineStart(s, n)
                 /\ \A i \in 1 .. LineEnd(s, n) - LineStart(s, n) :
                       LinesOf(s)[n + 1][i] = s[LineStart(s, n) + i]
<1>0. Len(s) \in Nat /\ LineOf(s, Len(s)) \in Nat /\ s \in [1 .. Len(s) -> S]
  BY LineFeedsAreOffsets, LenProperties
<1>1. ASSUME NEW n \in 1 .. LineOf(s, Len(s)) + 1
      PROVE  LinesOf(s)[n] = SubSeq(s, LineStart(s, n - 1) + 1, LineEnd(s, n - 1))
  <2>1. (n - 1) + 1 = n
    BY <1>0
  <2>2. LineEnd(s, n - 1) = IF HasLine(s, n) THEN LineStart(s, n) - 1 ELSE Len(s)
    BY <2>1 DEF LineEnd
  <2> QED
    BY <2>2 DEF LinesOf
<1>2. ASSUME NEW n \in 0 .. LineOf(s, Len(s))
      PROVE  /\ LinesOf(s)[n + 1] = SubSeq(s, LineStart(s, n) + 1, LineEnd(s, n))
             /\ LinesOf(s)[n + 1] \in Seq(S)
             /\ Len(LinesOf(s)[n + 1]) = LineEnd(s, n) - LineStart(s, n)
             /\ \A i \in 1 .. LineEnd(s, n) - LineStart(s, n) :
                   LinesOf(s)[n + 1][i] = s[LineStart(s, n) + i]
  <2>1. n + 1 \in 1 .. LineOf(s, Len(s)) + 1 /\ (n + 1) - 1 = n
    BY <1>0
  <2>2. LinesOf(s)[n + 1] = SubSeq(s, LineStart(s, n) + 1, LineEnd(s, n))
    BY <1>1, <2>1
  <2>3. LineStart(s, n) \in 0 .. Len(s) /\ LineEnd(s, n) \in LineStart(s, n) .. Len(s)
    BY LineStartIs, LineOfIs
  <2> HIDE DEF LinesOf
  <2> QED
    BY <2>2, <2>3, SliceIs
<1>3. /\ LinesOf(s) = [n \in 1 .. LineOf(s, Len(s)) + 1 |-> LinesOf(s)[n]]
      /\ \A n \in 1 .. LineOf(s, Len(s)) + 1 : LinesOf(s)[n] \in Seq(S)
  <2>1. LinesOf(s) = [n \in 1 .. LineOf(s, Len(s)) + 1 |-> LinesOf(s)[n]]
    BY DEF LinesOf
  <2>2. ASSUME NEW n \in 1 .. LineOf(s, Len(s)) + 1
        PROVE  LinesOf(s)[n] \in Seq(S)
    <3>1. n - 1 \in 0 .. LineOf(s, Len(s)) /\ (n - 1) + 1 = n
      BY <1>0
    <3> QED
      BY <1>2, <3>1
  <2> QED
    BY <2>1, <2>2
<1>4. LinesOf(s) \in Seq(Seq(S)) /\ Len(LinesOf(s)) = LineOf(s, Len(s)) + 1
  <2> DEFINE k == LineOf(s, Len(s)) + 1
  <2>1. k \in Nat /\ LinesOf(s) \in [1 .. k -> Seq(S)]
    BY <1>0, <1>3
  <2> HIDE DEF k
  <2>2. LinesOf(s) \in Seq(Seq(S)) /\ Len(LinesOf(s)) = k
    BY <2>1
  <2> QED
    BY <2>2 DEF k
<1> QED
  BY <1>0, <1>2, <1>4

(* Where the lines of two strings one after the other end.                 *)
LEMMA LineEndJoined ==
    ASSUME NEW S, NEW a \in Seq(S), NEW b \in Seq(S)
    PROVE  /\ \A n \in 0 .. LineOf(a, Len(a)) - 1 : LineEnd(a \o b, n) = LineEnd(a, n)
           /\ LineEnd(a, LineOf(a, Len(a))) = Len(a) /\ LineStart(b, 0) = 0
           /\ \A n \in 0 .. LineOf(b, Len(b)) :
                 LineEnd(a \o b, LineOf(a, Len(a)) + n) = Len(a) + LineEnd(b, n)
<1> DEFINE u == a \o b
<1> DEFINE L == LineOf(a, Len(a))
<1> DEFINE R == LineOf(b, Len(b))
<1>0. /\ u \in Seq(S) /\ Len(u) = Len(a) + Len(b) /\ Len(a) \in Nat /\ Len(b) \in Nat
      /\ L \in Nat /\ R \in Nat
  BY ConcatProperties, LineFeedsAreOffsets
<1>1. LineOf(u, Len(u)) = L + R
  BY <1>0, LineOfJoined
<1>2. /\ \A n \in 0 .. L : HasLine(u, n) /\ LineStart(u, n) = LineStart(a, n)
      /\ \A n \in 1 .. R : HasLine(u, L + n) /\ LineStart(u, L + n) = Len(a) + LineStart(b, n)
  BY LineStartJoined
<1>3. /\ \A n \in 0 .. L : HasLine(a, n)
      /\ \A n \in 0 .. R : HasLine(b, n) /\ LineStart(b, n) \in 0 .. Len(b)
  BY LineStartIs
<1>4. ~HasLine(a, L + 1) /\ ~HasLine(b, R + 1) /\ ~HasLine(u, L + R + 1)
  <2>1. L + 1 \notin 0 .. L /\ R + 1 \notin 0 .. R /\ L + R + 1 \notin 0 .. L + R
    BY <1>0
  <2> QED
    BY <1>0, <1>1, <2>1, NoLineBehindLast
<1>5. LineEnd(a, L) = Len(a)
  BY <1>4 DEF LineEnd
<1>6. LineStart(b, 0) = 0
  <2>1. LineStart(b, 0) \in 0 .. Len(b) /\ 0 \in LineStarts(b) /\ LineOf(b, 0) = 0 /\ 0 \in 0 .. R
    BY <1>0, <1>3, StartsAreOffsets, LineOfNext
  <2> QED
    BY <2>1, LineStartIs
<1> HIDE DEF u, L, R
<1>7. ASSUME NEW n \in 0 .. L - 1
      PROVE  LineEnd(u, n) = LineEnd(a, n)
  <2>1. n + 1 \in 0 .. L
    BY <1>0
  <2> QED
    BY <1>2, <1>3, <2>1 DEF LineEnd
<1>8. ASSUME NEW n \in 0 .. R
      PROVE  LineEnd(u, L + n) = Len(a) + LineEnd(b, n)
  <2>1. CASE n = R
    <3>1. LineEnd(b, n) = Len(b)
      BY <1>4, <2>1 DEF LineEnd
    <3>2. LineEnd(u, L + n) = Len(u)
      BY <1>4, <2>1 DEF LineEnd
    <3> QED
      BY <1>0, <3>1, <3>2
  <2>2. CASE n # R
    <3>1. n + 1 \in 1 .. R /\ n + 1 \in 0 .. R /\ L + (n + 1) = (L + n) + 1
      BY <1>0, <2>2
    <3>2. LineEnd(b, n) = LineStart(b, n + 1) - 1 /\ LineStart(b, n + 1) \in Int
      BY <1>3, <3>1 DEF LineEnd
    <3>3. HasLine(u, (L + n) + 1) /\ LineStart(u, (L + n) + 1) = Len(a) + LineStart(b, n + 1)
      BY <1>2, <3>1
    <3>4. LineEnd(u, L + n) = LineStart(u, (L + n) + 1) - 1
      BY <3>3 DEF LineEnd
    <3> QED
      BY <1>0, <3>2, <3>3, <3>4
  <2> QED
    BY <2>1, <2>2
<1> QED
  BY <1>5, <1>6, <1>7, <1>8 DEF u, L, R

(* The lines of two strings one after the other.                           *)
LEMMA LinesOfJoined ==
    ASSUME NEW S, NEW a \in Seq(S), NEW b \in Seq(S)
    PROVE  LinesOf(a \o b) = Join(LinesOf(a), LinesOf(b))
<1> DEFINE u == a \o b
<1> DEFINE K == LinesOf(a)
<1> DEFINE M == LinesOf(b)
<1> DEFINE U == LinesOf(u)
<1> DEFINE L == LineOf(a, Len(a))
<1> DEFINE R == LineOf(b, Len(b))
<1>0. /\ u \in Seq(S) /\ Len(u) = Len(a) + Len(b) /\ Len(a) \in Nat /\ Len(b) \in Nat
      /\ L \in Nat /\ R \in Nat
      /\ \A i \in 1 .. Len(a) : u[i] = a[i]
      /\ \A i \in 1 .. Len(b) : u[Len(a) + i] = b[i]
  BY ConcatProperties, LineFeedsAreOffsets
<1>1. LineOf(u, Len(u)) = L + R
  BY <1>0, LineOfJoined
<1>2. Len(K) = L + 1 /\ Len(M) = R + 1 /\ Len(U) = L + R + 1
      /\ K \in Seq(Seq(S)) /\ M \in Seq(Seq(S)) /\ U \in Seq(Seq(S))
  BY <1>0, <1>1, LinesAreStrings
<1>3. /\ \A n \in 0 .. L : LineStart(u, n) = LineStart(a, n)
      /\ \A n \in 1 .. R : LineStart(u, L + n) = Len(a) + LineStart(b, n)
      /\ \A n \in 0 .. L - 1 : LineEnd(u, n) = LineEnd(a, n)
      /\ LineEnd(a, L) = Len(a) /\ LineStart(b, 0) = 0
      /\ \A n \in 0 .. R : LineEnd(u, L + n) = Len(a) + LineEnd(b, n)
  BY LineStartJoined, LineEndJoined
<1>4. /\ \A n \in 0 .. L : LineStart(a, n) \in 0 .. Len(a) /\ LineEnd(a, n) \in LineStart(a, n) .. Len(a)
      /\ \A n \in 0 .. R : LineStart(b, n) \in 0 .. Len(b) /\ LineEnd(b, n) \in LineStart(b, n) .. Len(b)
  BY LineStartIs, LineOfIs
<1>5. /\ \A n \in 0 .. L :
            /\ K[n + 1] \in Seq(S) /\ Len(K[n + 1]) = LineEnd(a, n) - LineStart(a, n)
            /\ \A i \in 1 .. LineEnd(a, n) - LineStart(a, n) : K[n + 1][i] = a[LineStart(a, n) + i]
      /\ \A n \in 0 .. R :
            /\ M[n + 1] \in Seq(S) /\ Len(M[n + 1]) = LineEnd(b, n) - LineStart(b, n)
            /\ \A i \in 1 .. LineEnd(b, n) - LineStart(b, n) : M[n + 1][i] = b[LineStart(b, n) + i]
      /\ \A n \in 0 .. L + R :
            /\ U[n + 1] \in Seq(S) /\ Len(U[n + 1]) = LineEnd(u, n) - LineStart(u, n)
            /\ \A i \in 1 .. LineEnd(u, n) - LineStart(u, n) : U[n + 1][i] = u[LineStart(u, n) + i]
  <2>1. \A n \in 0 .. L :
            /\ K[n + 1] \in Seq(S) /\ Len(K[n + 1]) = LineEnd(a, n) - LineStart(a, n)
            /\ \A i \in 1 .. LineEnd(a, n) - LineStart(a, n) : K[n + 1][i] = a[LineStart(a, n) + i]
    BY LinesAreStrings
  <2>2. \A n \in 0 .. R :
            /\ M[n + 1] \in Seq(S) /\ Len(M[n + 1]) = LineEnd(b, n) - LineStart(b, n)
            /\ \A i \in 1 .. LineEnd(b, n) - LineStart(b, n) : M[n + 1][i] = b[LineStart(b, n) + i]
    BY LinesAreStrings
  <2>3. \A n \in 0 .. LineOf(u, Len(u)) :
            /\ U[n + 1] \in Seq(S) /\ Len(U[n + 1]) = LineEnd(u, n) - LineStart(u, n)
            /\ \A i \in 1 .. LineEnd(u, n) - LineStart(u, n) : U[n + 1][i] = u[LineStart(u, n) + i]
    <3>1. u \in Seq(S)
      BY <1>0
    <3> HIDE DEF u
    <3> QED
      BY <3>1, LinesAreStrings
  <2> HIDE DEF u, K, M, U, L, R
  <2> QED
    BY <1>1, <2>1, <2>2, <2>3
<1> HIDE DEF u, K, M, U, L, R
<1>6. ASSUME NEW n \in 0 .. L - 1
      PROVE  U[n + 1] = K[n + 1]
  <2>1. n \in 0 .. L /\ n \in 0 .. L + R
    BY <1>0
  <2>2. LineStart(u, n) = LineStart(a, n) /\ LineEnd(u, n) = LineEnd(a, n)
    BY <1>3, <2>1
  <2>3. U[n + 1] \in Seq(S) /\ K[n + 1] \in Seq(S) /\ Len(U[n + 1]) = Len(K[n + 1])
    BY <1>5, <2>1, <2>2
  <2>4. ASSUME NEW i \in 1 .. Len(U[n + 1])
        PROVE  U[n + 1][i] = K[n + 1][i]
    <3>1. i \in 1 .. LineEnd(a, n) - LineStart(a, n)
      BY <1>5, <2>1, <2>2
    <3>2. LineStart(a, n) + i \in 1 .. Len(a)
      <4>1. LineStart(a, n) \in 0 .. Len(a) /\ LineEnd(a, n) \in LineStart(a, n) .. Len(a)
        BY <1>4, <2>1
      <4> QED
        BY <1>0, <3>1, <4>1
    <3>3. U[n + 1][i] = u[LineStart(a, n) + i] /\ K[n + 1][i] = a[LineStart(a, n) + i]
      BY <1>5, <2>1, <2>2, <3>1
    <3> QED
      BY <1>0, <3>2, <3>3
  <2> QED
    BY <2>3, <2>4, SeqEqual
<1>7. U[L + 1] = K[L + 1] \o M[1]
  <2>1. L \in 0 .. L /\ 0 \in 0 .. R /\ L \in 0 .. L + R /\ L + 0 = L /\ 0 + 1 = 1
    BY <1>0
  <2>2. LineStart(u, L) = LineStart(a, L) /\ LineEnd(u, L) = Len(a) + LineEnd(b, 0)
    BY <1>3, <2>1
  <2>3. /\ K[L + 1] \in Seq(S) /\ Len(K[L + 1]) = Len(a) - LineStart(a, L)
        /\ \A i \in 1 .. Len(a) - LineStart(a, L) : K[L + 1][i] = a[LineStart(a, L) + i]
    BY <1>3, <1>5, <2>1
  <2>4. LineEnd(b, 0) \in 0 .. Len(b) /\ LineEnd(b, 0) - 0 = LineEnd(b, 0)
    BY <1>0, <1>3, <1>4, <2>1
  <2>5. /\ M[1] \in Seq(S) /\ Len(M[1]) = LineEnd(b, 0)
        /\ \A i \in 1 .. LineEnd(b, 0) : M[1][i] = b[0 + i]
    <3>1. /\ M[0 + 1] \in Seq(S) /\ Len(M[0 + 1]) = LineEnd(b, 0) - LineStart(b, 0)
          /\ \A i \in 1 .. LineEnd(b, 0) - LineStart(b, 0) : M[0 + 1][i] = b[LineStart(b, 0) + i]
      BY <1>5, <2>1
    <3> QED
      BY <1>3, <2>1, <2>4, <3>1
  <2>6. /\ U[L + 1] \in Seq(S) /\ Len(U[L + 1]) = Len(a) + LineEnd(b, 0) - LineStart(a, L)
        /\ \A i \in 1 .. Len(a) + LineEnd(b, 0) - LineStart(a, L) : U[L + 1][i] = u[LineStart(a, L) + i]
    <3>1. /\ U[L + 1] \in Seq(S) /\ Len(U[L + 1]) = LineEnd(u, L) - LineStart(u, L)
          /\ \A i \in 1 .. LineEnd(u, L) - LineStart(u, L) : U[L + 1][i] = u[LineStart(u, L) + i]
      BY <1>5, <2>1
    <3>2. PICK w : w = LineEnd(u, L) - LineStart(u, L)
      OBVIOUS
    <3>3. w = Len(a) + LineEnd(b, 0) - LineStart(a, L)
      <4>1. LineStart(a, L) \in 0 .. Len(a)
        BY <1>4, <2>1
      <4> QED
        BY <1>0, <2>2, <2>4, <3>2, <4>1
    <3>4. /\ U[L + 1] \in Seq(S) /\ Len(U[L + 1]) = w
          /\ \A i \in 1 .. w : U[L + 1][i] = u[LineStart(u, L) + i]
      BY <3>1, <3>2, Zenon
    <3>5. \A i \in 1 .. w : U[L + 1][i] = u[LineStart(a, L) + i]
      BY <2>2, <3>4
    <3> QED
      BY <3>3, <3>4, <3>5, Zenon
  <2>7. LineStart(a, L) \in 0 .. Len(a)
    BY <1>4, <2>1
  <2>8. /\ K[L + 1] \o M[1] \in Seq(S)
        /\ Len(K[L + 1] \o M[1]) = Len(K[L + 1]) + Len(M[1])
        /\ \A i \in 1 .. Len(K[L + 1]) + Len(M[1]) :
              (K[L + 1] \o M[1])[i] = IF i <= Len(K[L + 1]) THEN K[L + 1][i] ELSE M[1][i - Len(K[L + 1])]
    BY <2>3, <2>5, ConcatProperties
  <2>9. Len(U[L + 1]) = Len(K[L + 1] \o M[1])
    BY <1>0, <2>3, <2>4, <2>5, <2>6, <2>7, <2>8
  <2>10. ASSUME NEW i \in 1 .. Len(U[L + 1])
         PROVE  U[L + 1][i] = (K[L + 1] \o M[1])[i]
    <3>1. U[L + 1][i] = u[LineStart(a, L) + i] /\ i \in 1 .. Len(a) + LineEnd(b, 0) - LineStart(a, L)
      BY <2>6
    <3>2. i \in 1 .. Len(K[L + 1]) + Len(M[1])
      BY <2>8, <2>9
    <3>3. CASE i <= Len(K[L + 1])
      <4>1. i \in 1 .. Len(a) - LineStart(a, L) /\ LineStart(a, L) + i \in 1 .. Len(a)
        BY <1>0, <2>3, <2>7, <3>3
      <4>2. (K[L + 1] \o M[1])[i] = a[LineStart(a, L) + i]
        BY <2>3, <2>8, <3>2, <3>3, <4>1
      <4> QED
        BY <1>0, <3>1, <4>1, <4>2
    <3>4. CASE ~(i <= Len(K[L + 1]))
      <4>1. PICK j \in Int : j = i - Len(K[L + 1])
        BY <1>0, <2>3, <2>7
      <4>2. j \in 1 .. LineEnd(b, 0) /\ j \in 1 .. Len(b) /\ LineStart(a, L) + i = Len(a) + j
        <5>1. PICK l \in Int : l = LineStart(a, L) /\ Len(K[L + 1]) = Len(a) - l
          BY <1>0, <2>3, <2>7
        <5>2. PICK e \in Int : e = LineEnd(b, 0) /\ e <= Len(b) /\ Len(M[1]) = e
          BY <1>0, <2>4, <2>5
        <5>3. j = i - (Len(a) - l) /\ i \in 1 .. (Len(a) - l) + e /\ ~(i <= Len(a) - l)
          BY <3>2, <3>4, <4>1, <5>1, <5>2
        <5>4. j \in 1 .. e /\ l + i = Len(a) + j
          BY <1>0, <5>3
        <5> QED
          BY <1>0, <5>1, <5>2, <5>4
      <4>3. (K[L + 1] \o M[1])[i] = M[1][j]
        BY <2>8, <3>2, <3>4, <4>1
      <4>4. M[1][j] = b[j] /\ u[Len(a) + j] = b[j]
        BY <1>0, <2>5, <4>2
      <4> QED
        BY <3>1, <4>2, <4>3, <4>4
    <3> QED
      BY <3>3, <3>4
  <2> QED
    BY <2>6, <2>8, <2>9, <2>10, SeqEqual
<1>8. ASSUME NEW n \in 1 .. R
      PROVE  U[L + n + 1] = M[n + 1]
  <2>1. n \in 0 .. R /\ L + n \in 0 .. L + R
    BY <1>0
  <2>2. LineStart(u, L + n) = Len(a) + LineStart(b, n) /\ LineEnd(u, L + n) = Len(a) + LineEnd(b, n)
    BY <1>3, <2>1
  <2>3. LineStart(b, n) \in 0 .. Len(b) /\ LineEnd(b, n) \in LineStart(b, n) .. Len(b)
    BY <1>4, <2>1
  <2>4. /\ U[L + n + 1] \in Seq(S) /\ Len(U[L + n + 1]) = LineEnd(b, n) - LineStart(b, n)
        /\ \A i \in 1 .. LineEnd(b, n) - LineStart(b, n) :
              U[L + n + 1][i] = u[(Len(a) + LineStart(b, n)) + i]
    <3>1. LineEnd(u, L + n) - LineStart(u, L + n) = LineEnd(b, n) - LineStart(b, n)
      BY <1>0, <2>2, <2>3
    <3> QED
      BY <1>5, <2>1, <2>2, <3>1
  <2>5. /\ M[n + 1] \in Seq(S) /\ Len(M[n + 1]) = LineEnd(b, n) - LineStart(b, n)
        /\ \A i \in 1 .. LineEnd(b, n) - LineStart(b, n) : M[n + 1][i] = b[LineStart(b, n) + i]
    BY <1>5, <2>1
  <2>6. ASSUME NEW i \in 1 .. Len(U[L + n + 1])
        PROVE  U[L + n + 1][i] = M[n + 1][i]
    <3>1. i \in 1 .. LineEnd(b, n) - LineStart(b, n)
      BY <2>4
    <3>2. LineStart(b, n) + i \in 1 .. Len(b) /\ (Len(a) + LineStart(b, n)) + i = Len(a) + (LineStart(b, n) + i)
      BY <1>0, <2>3, <3>1
    <3>3. u[Len(a) + (LineStart(b, n) + i)] = b[LineStart(b, n) + i]
      BY <1>0, <3>2
    <3> QED
      BY <2>4, <2>5, <3>1, <3>2, <3>3
  <2> QED
    <3>1. U[L + n + 1] \in Seq(S) /\ M[n + 1] \in Seq(S) /\ Len(U[L + n + 1]) = Len(M[n + 1])
      BY <2>4, <2>5
    <3> QED
      BY <2>6, <3>1, SeqEqual
<1>9. ASSUME NEW n \in 1 .. Len(K) + Len(M) - 1
      PROVE  U[n] = IF n < Len(K) THEN K[n]
                    ELSE IF n = Len(K) THEN K[n] \o M[1]
                    ELSE M[n - Len(K) + 1]
  <2>1. CASE n < Len(K)
    <3>1. n - 1 \in 0 .. L - 1 /\ (n - 1) + 1 = n
      BY <1>0, <1>2, <2>1
    <3> QED
      BY <1>6, <2>1, <3>1
  <2>2. CASE n = Len(K)
    <3>1. n = L + 1 /\ ~(n < Len(K))
      BY <1>0, <1>2, <2>2
    <3> QED
      BY <1>7, <2>2, <3>1
  <2>3. CASE n > Len(K)
    <3>1. PICK m \in 1 .. R : m = n - Len(K) /\ n = L + m + 1 /\ n - Len(K) + 1 = m + 1
      <4>1. n - Len(K) \in 1 .. R /\ n = L + (n - Len(K)) + 1
        BY <1>0, <1>2, <2>3
      <4> QED
        BY <4>1
    <3>2. U[n] = M[m + 1]
      BY <1>8, <3>1
    <3>3. ~(n < Len(K)) /\ n # Len(K)
      <4>1. PICK k \in Nat : k = Len(K)
        BY <1>0, <1>2
      <4>2. n > k /\ n \in Int
        BY <1>0, <1>2, <2>3, <4>1
      <4>3. ~(n < k) /\ n # k
        BY <4>2
      <4> QED
        BY <4>1, <4>3, Zenon
    <3> QED
      BY <3>1, <3>2, <3>3, Zenon
  <2> QED
    BY <1>0, <1>2, <2>1, <2>2, <2>3
<1>10. U = [n \in 1 .. Len(K) + Len(M) - 1 |-> U[n]]
  <2>1. U \in [1 .. Len(U) -> Seq(S)]
    BY <1>2, LenProperties
  <2>2. Len(U) = Len(K) + Len(M) - 1
    BY <1>0, <1>2
  <2> QED
    BY <2>1, <2>2
<1>11. U = Join(K, M)
  BY <1>9, <1>10 DEF Join
<1> QED
  BY <1>11 DEF U, K, M, u

-----------------------------------------------------------------------------
(* The position of an offset.                                              *)
PosOf(s, o) == At(LineOf(s, o), o - LineStart(s, LineOf(s, o)))

LEMMA PosOfIs ==
    ASSUME NEW S, NEW s \in Seq(S), NEW o \in 0 .. Len(s)
    PROVE  /\ LineOf(s, o) \in 0 .. LineOf(s, Len(s))
           /\ LineStart(s, LineOf(s, o)) \in 0 .. o /\ o <= LineEnd(s, LineOf(s, o))
           /\ LineEnd(s, LineOf(s, o)) \in 0 .. Len(s)
           /\ PosOf(s, o).line = LineOf(s, o)
           /\ PosOf(s, o).column = o - LineStart(s, LineOf(s, o))
           /\ PosOf(s, o).column \in Nat
<1>0. Len(s) \in Nat /\ LineOf(s, Len(s)) \in Nat /\ LineOf(s, o) \in Nat
  BY LineFeedsAreOffsets
<1>1. LineOf(s, o) \in 0 .. LineOf(s, Len(s))
  <2>1. Len(s) \in o .. Len(s)
    BY <1>0
  <2> QED
    BY <1>0, <2>1, LineOfGrows
<1>2. LineStart(s, LineOf(s, o)) \in 0 .. Len(s)
      /\ LineEnd(s, LineOf(s, o)) \in LineStart(s, LineOf(s, o)) .. Len(s)
      /\ o \in LineStart(s, LineOf(s, o)) .. LineEnd(s, LineOf(s, o))
  BY <1>1, LineStartIs, LineOfIs
<1>3. PosOf(s, o).line = LineOf(s, o) /\ PosOf(s, o).column = o - LineStart(s, LineOf(s, o))
  BY DEF PosOf, At
<1> QED
  BY <1>0, <1>1, <1>2, <1>3

(* One character on, the position advances as text_range counts.           *)
LEMMA PosAdvances ==
    ASSUME NEW S, NEW s \in Seq(S), NEW o \in 1 .. Len(s)
    PROVE  PosOf(s, o) = Advance(PosOf(s, o - 1), s[o])
<1>0. Len(s) \in Nat /\ o - 1 \in 0 .. Len(s) - 1 /\ o - 1 \in 0 .. Len(s)
      /\ o \in 0 .. Len(s) /\ (o - 1) + 1 = o
  BY LineFeedsAreOffsets
<1>1. LineOf(s, o) = IF s[o] = LF THEN LineOf(s, o - 1) + 1 ELSE LineOf(s, o - 1)
  BY <1>0, LineOfNext
<1>2. /\ LineStart(s, LineOf(s, o - 1)) \in 0 .. o - 1 /\ LineStart(s, LineOf(s, o)) \in 0 .. o
      /\ LineOf(s, o) \in 0 .. LineOf(s, Len(s))
      /\ PosOf(s, o - 1).line = LineOf(s, o - 1)
      /\ PosOf(s, o - 1).column = (o - 1) - LineStart(s, LineOf(s, o - 1))
  BY <1>0, PosOfIs
<1>3. CASE s[o] = LF
  <2>1. o \in LineStarts(s)
    BY <1>3, StartsAreOffsets
  <2>2. LineStart(s, LineOf(s, o)) = o
    BY <1>2, <2>1, LineStartIs
  <2>3. PosOf(s, o) = At(LineOf(s, o - 1) + 1, 0)
    BY <1>0, <1>1, <1>3, <2>2 DEF PosOf
  <2> QED
    BY <1>2, <1>3, <2>3 DEF Advance
<1>4. CASE s[o] # LF
  <2>1. LineOf(s, o) = LineOf(s, o - 1)
    BY <1>1, <1>4
  <2>2. o - LineStart(s, LineOf(s, o)) = ((o - 1) - LineStart(s, LineOf(s, o - 1))) + 1
    BY <1>0, <1>2, <2>1
  <2>3. PosOf(s, o) = At(LineOf(s, o - 1), ((o - 1) - LineStart(s, LineOf(s, o - 1))) + 1)
    BY <2>1, <2>2 DEF PosOf
  <2> QED
    BY <1>2, <1>4, <2>3 DEF Advance
<1> QED
  BY <1>3, <1>4

(* Positions are ordered as offsets are.                                   *)
LEMMA PosInOrder ==
    ASSUME NEW S, NEW s \in Seq(S), NEW i \in 0 .. Len(s), NEW j \in 0 .. Len(s)
    PROVE  /\ NotAfter(PosOf(s, i), PosOf(s, j)) <=> i <= j
           /\ PosOf(s, i) = PosOf(s, j) <=> i = j
<1>0. Len(s) \in Nat /\ LineOf(s, i) \in Nat /\ LineOf(s, j) \in Nat
  BY LineFeedsAreOffsets
<1>1. /\ LineStart(s, LineOf(s, i)) \in 0 .. i /\ LineStart(s, LineOf(s, j)) \in 0 .. j
      /\ PosOf(s, i).line = LineOf(s, i) /\ PosOf(s, i).column = i - LineStart(s, LineOf(s, i))
      /\ PosOf(s, j).line = LineOf(s, j) /\ PosOf(s, j).column = j - LineStart(s, LineOf(s, j))
  BY PosOfIs
<1>2. i <= j => LineOf(s, i) <= LineOf(s, j)
  BY <1>0, LineOfGrows
<1>3. j <= i => LineOf(s, j) <= LineOf(s, i)
  BY <1>0, LineOfGrows
<1>4. CASE LineOf(s, i) = LineOf(s, j)
  <2>1. PICK b \in 0 .. Len(s) : b = LineStart(s, LineOf(s, i)) /\ b = LineStart(s, LineOf(s, j))
    BY <1>0, <1>1, <1>4
  <2>2. PosOf(s, i).column = i - b /\ PosOf(s, j).column = j - b
    BY <1>1, <2>1
  <2> QED
    BY <1>0, <1>1, <1>4, <2>2 DEF NotAfter
<1>5. CASE LineOf(s, i) # LineOf(s, j)
  BY <1>0, <1>1, <1>2, <1>3, <1>5 DEF NotAfter
<1> QED
  BY <1>4, <1>5

(* What the loop of text_range counts is the position of each offset.      *)
LEMMA WalkIs ==
    ASSUME NEW S, NEW s \in Seq(S), NEW o \in 0 .. Len(s)
    PROVE  \A i \in o .. Len(s) : Walk(s, PosOf(s, o), o)[i] = PosOf(s, i)
<1> DEFINE Counts(f) == f = [i \in o .. Len(s) |-> IF i = o THEN PosOf(s, o) ELSE Advance(f[i - 1], s[i])]
<1> DEFINE w == Walk(s, PosOf(s, o), o)
<1>0. Len(s) \in Nat
  BY LineFeedsAreOffsets
<1>1. PICK h : h = [i \in o .. Len(s) |-> PosOf(s, i)]
  OBVIOUS
<1>2. Counts(h)
  <2>1. ASSUME NEW i \in o .. Len(s)
        PROVE  PosOf(s, i) = IF i = o THEN PosOf(s, o) ELSE Advance(h[i - 1], s[i])
    <3>1. CASE i # o
      <4>1. i \in 1 .. Len(s) /\ i - 1 \in o .. Len(s)
        BY <1>0, <3>1
      <4>2. h[i - 1] = PosOf(s, i - 1)
        BY <1>1, <4>1
      <4> QED
        BY <3>1, <4>1, <4>2, PosAdvances
    <3> QED
      BY <3>1
  <2>2. [i \in o .. Len(s) |-> PosOf(s, i)]
        = [i \in o .. Len(s) |-> IF i = o THEN PosOf(s, o) ELSE Advance(h[i - 1], s[i])]
    BY <2>1
  <2> QED
    BY <1>1, <2>2
<1>3. w = CHOOSE f : Counts(f)
  BY DEF Walk
<1>4. Counts(w)
  <2> HIDE DEF Counts, w
  <2> QED
    BY <1>2, <1>3
<1>5. \A i \in o .. Len(s) : w[i] = IF i = o THEN PosOf(s, o) ELSE Advance(w[i - 1], s[i])
  <2> HIDE DEF w
  <2> QED
    BY <1>4
<1> HIDE DEF w, Counts
<1> DEFINE Wrong == {i \in o .. Len(s) : w[i] # PosOf(s, i)}
<1>6. ASSUME Wrong # {}
      PROVE  FALSE
  <2>1. Wrong \subseteq Nat
    BY <1>0
  <2>2. PICK i \in Wrong : \A k \in Wrong : i <= k
    BY <1>6, <2>1, LeastNumber
  <2>3. i # o
    BY <1>0, <1>5, <2>2
  <2>4. i \in 1 .. Len(s) /\ i - 1 \in o .. Len(s) /\ ~(i <= i - 1)
    BY <1>0, <2>2, <2>3
  <2>5. w[i - 1] = PosOf(s, i - 1)
    BY <2>2, <2>4
  <2>6. w[i] = PosOf(s, i)
    BY <1>5, <2>2, <2>3, <2>4, <2>5, PosAdvances
  <2> QED
    BY <2>2, <2>6
<1> QED
  BY <1>6 DEF w

(* text_range finds the offsets of positions that are there.               *)
LEMMA RangeIs ==
    ASSUME NEW S, NEW s \in Seq(S), NEW i \in 0 .. Len(s), NEW j \in i .. Len(s)
    PROVE  TextRange(s, PosOf(s, i), PosOf(s, j)) = <<i, j>>
<1> DEFINE start == PosOf(s, i)
<1> DEFINE stop == PosOf(s, j)
<1> DEFINE begin == LineStart(s, start.line) + start.column
<1>0. Len(s) \in Nat /\ i \in Int /\ j \in 0 .. Len(s)
  BY LineFeedsAreOffsets
<1>1. NotAfter(start, stop)
  BY <1>0, PosInOrder
<1>2. HasLine(s, start.line) /\ begin = i
  <2>1. LineOf(s, i) \in 0 .. LineOf(s, Len(s)) /\ LineStart(s, LineOf(s, i)) \in 0 .. i
        /\ start.line = LineOf(s, i) /\ start.column = i - LineStart(s, LineOf(s, i))
    BY PosOfIs
  <2>2. HasLine(s, start.line)
    BY <2>1, LineStartIs
  <2> QED
    BY <1>0, <2>1, <2>2
<1>3. \A k \in i .. Len(s) : Walk(s, start, i)[k] = PosOf(s, k)
  BY WalkIs
<1>4. {k \in i .. Len(s) : Walk(s, start, i)[k] = stop} = {j}
  <2>1. ASSUME NEW k \in i .. Len(s)
        PROVE  Walk(s, start, i)[k] = stop <=> k = j
    <3>1. k \in 0 .. Len(s)
      BY <1>0
    <3>2. PosOf(s, k) = PosOf(s, j) <=> k = j
      BY <1>0, <3>1, PosInOrder
    <3> QED
      BY <1>3, <3>2
  <2> QED
    BY <2>1
<1> HIDE DEF start, stop, begin
<1>5. (CHOOSE k \in {j} : \A l \in {j} : k <= l) = j
  <2>1. \A k \in {j} : \A l \in {j} : k <= l
    BY <1>0
  <2> QED
    BY <2>1
<1>6. ~(i > Len(s))
  BY <1>0
<1>7. TextRange(s, start, stop) = <<i, j>>
  BY <1>1, <1>2, <1>4, <1>5, <1>6 DEF TextRange, begin
<1> QED
  BY <1>7 DEF start, stop

(* It finds none when the positions are in the wrong order, when the first *)
(* is on no line, or when the second is no position.                       *)
LEMMA RangeIsNowhere ==
    ASSUME NEW S, NEW s \in Seq(S), NEW start, NEW stop,
           \/ ~NotAfter(start, stop)
           \/ ~HasLine(s, start.line)
           \/ \E i \in 0 .. Len(s) : start = PosOf(s, i) /\ \A k \in i .. Len(s) : stop # PosOf(s, k)
    PROVE  TextRange(s, start, stop) = Nowhere
<1>1. CASE ~NotAfter(start, stop) \/ ~HasLine(s, start.line)
  BY <1>1 DEF TextRange
<1>2. ASSUME NEW i \in 0 .. Len(s), start = PosOf(s, i), \A k \in i .. Len(s) : stop # PosOf(s, k)
      PROVE  TextRange(s, start, stop) = Nowhere
  <2>1. LineStart(s, start.line) + start.column = i
    <3>1. LineStart(s, LineOf(s, i)) \in 0 .. i
          /\ start.line = LineOf(s, i) /\ start.column = i - LineStart(s, LineOf(s, i))
      BY <1>2, PosOfIs
    <3> QED
      BY <3>1
  <2>2. \A k \in i .. Len(s) : Walk(s, start, i)[k] = PosOf(s, k)
    BY <1>2, WalkIs
  <2>3. {k \in i .. Len(s) : Walk(s, start, i)[k] = stop} = {}
    BY <1>2, <2>2
  <2> QED
    BY <2>1, <2>3 DEF TextRange
<1> QED
  BY <1>1, <1>2

-----------------------------------------------------------------------------
(* Lines one after the other are lines.                                    *)
LEMMA JoinIs ==
    ASSUME NEW S, NEW K \in Seq(Seq(S)), NEW M \in Seq(Seq(S)), Len(K) # 0, Len(M) # 0
    PROVE  /\ Join(K, M) \in Seq(Seq(S)) /\ Len(Join(K, M)) = Len(K) + Len(M) - 1
           /\ \A n \in 1 .. Len(K) + Len(M) - 1 :
                 Join(K, M)[n] = IF n < Len(K) THEN K[n]
                                 ELSE IF n = Len(K) THEN K[n] \o M[1]
                                 ELSE M[n - Len(K) + 1]
<1>0. /\ Len(K) \in Nat \ {0} /\ Len(M) \in Nat \ {0}
      /\ \A n \in 1 .. Len(K) : K[n] \in Seq(S)
      /\ \A n \in 1 .. Len(M) : M[n] \in Seq(S)
  BY LenProperties
<1>1. PICK k \in Nat : k = Len(K) + Len(M) - 1
  <2>1. Len(K) + Len(M) - 1 \in Nat
    BY <1>0
  <2> QED
    BY <2>1
<1>2. ASSUME NEW n \in 1 .. k
      PROVE  /\ Join(K, M)[n] = IF n < Len(K) THEN K[n]
                                ELSE IF n = Len(K) THEN K[n] \o M[1]
                                ELSE M[n - Len(K) + 1]
             /\ Join(K, M)[n] \in Seq(S)
  <2>1. Join(K, M)[n] = IF n < Len(K) THEN K[n]
                        ELSE IF n = Len(K) THEN K[n] \o M[1]
                        ELSE M[n - Len(K) + 1]
    BY <1>1 DEF Join
  <2>2. CASE n < Len(K)
    <3>1. n \in 1 .. Len(K)
      BY <1>0, <2>2
    <3> QED
      BY <1>0, <2>1, <2>2, <3>1
  <2>3. CASE n = Len(K)
    <3>1. n \in 1 .. Len(K) /\ 1 \in 1 .. Len(M)
      BY <1>0, <2>3
    <3>2. K[n] \o M[1] \in Seq(S)
      BY <1>0, <3>1, ConcatProperties
    <3> QED
      BY <1>0, <2>1, <2>3, <3>2
  <2>4. CASE n > Len(K)
    <3>1. n - Len(K) + 1 \in 1 .. Len(M)
      BY <1>0, <1>1, <2>4
    <3> QED
      BY <1>0, <2>1, <2>4, <3>1
  <2> QED
    BY <1>0, <2>1, <2>2, <2>3, <2>4
<1>3. Join(K, M) \in [1 .. k -> Seq(S)]
  <2>1. Join(K, M) = [n \in 1 .. k |-> Join(K, M)[n]]
    BY <1>1 DEF Join
  <2> QED
    BY <1>2, <2>1
<1>4. Join(K, M) \in Seq(Seq(S)) /\ Len(Join(K, M)) = k
  BY <1>3
<1> QED
  BY <1>1, <1>2, <1>4

(* What an editor puts between two positions.                              *)
Between(x, N, z, w, q) ==
    /\ Len(w) = q
    /\ q = 1 => w[1] = x \o N[1] \o z
    /\ q # 1 => /\ w[1] = x \o N[1]
                /\ w[q] = N[q] \o z
                /\ \A k \in 2 .. q - 1 : w[k] = N[k]

LEMMA SplicedIs ==
    ASSUME NEW S, NEW x \in Seq(S), NEW N \in Seq(Seq(S)), NEW z \in Seq(S),
           Len(N) # 0, NEW w, w = Editor!Spliced(x, N, z)
    PROVE  w \in Seq(Seq(S)) /\ \A q \in Nat : q = Len(N) => Between(x, N, z, w, q)
<1> SUFFICES ASSUME NEW q \in Nat, q = Len(N)
             PROVE  w \in Seq(Seq(S)) /\ Between(x, N, z, w, q)
  BY LenProperties
<1> USE DEF Between
<1>0. Len(N) = q /\ q # 0 /\ \A n \in 1 .. Len(N) : N[n] \in Seq(S)
  BY LenProperties
<1>1. N[1] \in Seq(S) /\ N[q] \in Seq(S)
  BY <1>0
<1>2. x \o N[1] \in Seq(S) /\ N[q] \o z \in Seq(S)
  BY <1>1, ConcatProperties
<1>3. x \o N[1] \o z \in Seq(S)
  BY <1>2, ConcatProperties
<1>4. CASE q = 1
  <2>1. Editor!Spliced(x, N, z) = <<x \o N[1] \o z>>
    BY <1>4 DEF Editor!Spliced
  <2> QED
    BY <1>3, <1>4, <2>1
<1>5. CASE q # 1
  <2>0. q \in Nat /\ q >= 2
    BY <1>5
  <2> DEFINE first == <<x \o N[1]>>
  <2> DEFINE last == <<N[q] \o z>>
  <2> DEFINE middle == SubSeq(N, 2, q - 1)
  <2>1. first \in Seq(Seq(S)) /\ Len(first) = 1 /\ first[1] = x \o N[1]
        /\ last \in Seq(Seq(S)) /\ Len(last) = 1 /\ last[1] = N[q] \o z
    BY <1>2
  <2>2. /\ middle \in Seq(Seq(S)) /\ Len(middle) = q - 2
        /\ \A k \in 1 .. q - 2 : middle[k] = N[1 + k]
    <3>0. q >= 2 /\ q \in Nat
      BY <2>0
    <3>1. PICK l, e \in Nat : /\ l = 1 /\ e = q - 1 /\ l + 1 = 2 /\ e - l = q - 2
                              /\ l <= e /\ l <= q /\ e <= q
      <4>1. 1 \in Nat /\ q - 1 \in Nat /\ 1 + 1 = 2 /\ (q - 1) - 1 = q - 2
            /\ 1 <= q - 1 /\ 1 <= q /\ q - 1 <= q
        BY <3>0
      <4> QED
        BY <4>1, Zenon
    <3>2. l \in 0 .. q /\ e \in l .. q
      BY <3>0, <3>1
    <3>3. l \in 0 .. Len(N) /\ e \in l .. Len(N)
      BY <1>0, <3>2, Zenon
    <3>4. /\ SubSeq(N, l + 1, e) \in Seq(Seq(S)) /\ Len(SubSeq(N, l + 1, e)) = e - l
          /\ \A i \in 1 .. e - l : SubSeq(N, l + 1, e)[i] = N[l + i]
      BY <3>3, SliceIs
    <3> QED
      BY <3>1, <3>4
  <2>3. Editor!Spliced(x, N, z) = (first \o middle) \o last
    BY <1>5 DEF Editor!Spliced
  <2> HIDE DEF first, middle, last
  <2>4. PICK b \in Seq(Seq(S)) : b = first \o middle
    BY <2>1, <2>2, ConcatProperties
  <2>5. Len(b) = Len(first) + Len(middle)
        /\ \A k \in 1 .. Len(first) + Len(middle) :
              b[k] = IF k <= Len(first) THEN first[k] ELSE middle[k - Len(first)]
    BY <2>1, <2>2, <2>4, ConcatProperties
  <2>6. Len(b) = q - 1 /\ \A k \in 1 .. q - 1 : b[k] = IF k <= 1 THEN first[k] ELSE middle[k - 1]
    <3>1. Len(first) + Len(middle) = q - 1
      BY <2>0, <2>1, <2>2
    <3> QED
      BY <2>1, <2>5, <3>1
  <2>7. PICK e \in Seq(Seq(S)) : e = b \o last
    BY <2>1, ConcatProperties
  <2>8. Len(e) = Len(b) + Len(last)
        /\ \A k \in 1 .. Len(b) + Len(last) : e[k] = IF k <= Len(b) THEN b[k] ELSE last[k - Len(b)]
    BY <2>1, <2>7, ConcatProperties
  <2>9. Len(e) = q /\ \A k \in 1 .. q : e[k] = IF k <= q - 1 THEN b[k] ELSE last[k - (q - 1)]
    <3>1. Len(b) + Len(last) = q
      BY <2>0, <2>1, <2>6
    <3> QED
      BY <2>6, <2>8, <3>1
  <2>10. e[1] = x \o N[1]
    <3>1. 1 \in 1 .. q /\ 1 <= q - 1 /\ 1 \in 1 .. q - 1
      BY <2>0
    <3>2. e[1] = b[1] /\ b[1] = first[1]
      BY <2>6, <2>9, <3>1
    <3> QED
      BY <2>1, <3>2
  <2>11. e[q] = N[q] \o z
    <3>1. q \in 1 .. q /\ ~(q <= q - 1) /\ q - (q - 1) = 1
      BY <2>0
    <3> QED
      BY <2>0, <2>1, <2>9, <3>1
  <2>12. ASSUME NEW k \in 2 .. q - 1
         PROVE  e[k] = N[k]
    <3>1. k \in 1 .. q /\ k <= q - 1 /\ k \in 1 .. q - 1 /\ ~(k <= 1)
          /\ k - 1 \in 1 .. q - 2 /\ 1 + (k - 1) = k
      BY <2>0
    <3>2. e[k] = b[k] /\ b[k] = middle[k - 1]
      BY <2>6, <2>9, <3>1
    <3>3. middle[k - 1] = N[1 + (k - 1)]
      BY <2>2, <3>1
    <3> QED
      BY <3>1, <3>2, <3>3
  <2> QED
    BY <1>5, <1>0, <2>0, <2>3, <2>4, <2>7, <2>9, <2>10, <2>11, <2>12
<1> QED
  BY <1>4, <1>5

(* To put lines between others as an editor does is to join the three.     *)
JoinsBetween(A, N, B) ==
    SubSeq(A, 1, Len(A) - 1) \o Editor!Spliced(A[Len(A)], N, B[1]) \o SubSeq(B, 2, Len(B))
    = Join(Join(A, N), B)

LEMMA SplicedJoins ==
    ASSUME NEW S, NEW A \in Seq(Seq(S)), NEW N \in Seq(Seq(S)), NEW B \in Seq(Seq(S)),
           Len(A) # 0, Len(N) # 0, Len(B) # 0
    PROVE  JoinsBetween(A, N, B)
<1> DEFINE J == Join(A, N)
<1> DEFINE T == Join(J, B)
<1> DEFINE head == SubSeq(A, 1, Len(A) - 1)
<1> DEFINE mid == Editor!Spliced(A[Len(A)], N, B[1])
<1> DEFINE tail == SubSeq(B, 2, Len(B))
<1>0. PICK p, q, r \in Nat : /\ p = Len(A) /\ q = Len(N) /\ r = Len(B)
                             /\ p >= 1 /\ q >= 1 /\ r >= 1
  BY LenProperties
<1>a. p >= 1 /\ q >= 1 /\ r >= 1
  BY <1>0
<1>1. /\ \A n \in 1 .. p : A[n] \in Seq(S)
      /\ \A n \in 1 .. q : N[n] \in Seq(S)
      /\ \A n \in 1 .. r : B[n] \in Seq(S)
  BY <1>0, LenProperties
<1>2. /\ J \in Seq(Seq(S)) /\ Len(J) = p + q - 1
      /\ \A n \in 1 .. p + q - 1 : J[n] = IF n < p THEN A[n]
                                          ELSE IF n = p THEN A[n] \o N[1] ELSE N[n - p + 1]
  BY <1>0, JoinIs
<1>3. /\ T \in Seq(Seq(S)) /\ Len(T) = (p + q - 1) + r - 1
      /\ \A n \in 1 .. (p + q - 1) + r - 1 :
            T[n] = IF n < p + q - 1 THEN J[n]
                   ELSE IF n = p + q - 1 THEN J[n] \o B[1] ELSE B[n - (p + q - 1) + 1]
  <2>1. PICK j \in Nat : j = Len(J) /\ j = p + q - 1 /\ j # 0
    <3>1. p + q - 1 \in Nat /\ p + q - 1 # 0
      BY <1>a
    <3> QED
      BY <1>2, <3>1
  <2>2. /\ T \in Seq(Seq(S)) /\ Len(T) = Len(J) + Len(B) - 1
        /\ \A n \in 1 .. Len(J) + Len(B) - 1 :
              T[n] = IF n < Len(J) THEN J[n]
                     ELSE IF n = Len(J) THEN J[n] \o B[1] ELSE B[n - Len(J) + 1]
    <3>1. J \in Seq(Seq(S)) /\ Len(J) # 0
      BY <1>2, <2>1
    <3> HIDE DEF J
    <3> QED
      BY <3>1, JoinIs
  <2>3. Len(J) = p + q - 1 /\ Len(B) = r
    BY <1>0, <1>2
  <2> HIDE DEF J, T
  <2> QED
    BY <2>2, <2>3
<1>4. /\ head \in Seq(Seq(S)) /\ Len(head) = p - 1
      /\ \A n \in 1 .. p - 1 : head[n] = A[n]
  <2>1. 0 \in 0 .. Len(A) /\ p - 1 \in 0 .. Len(A) /\ 0 + 1 = 1 /\ (p - 1) - 0 = p - 1
        /\ \A i \in 1 .. p - 1 : 0 + i = i
    BY <1>0
  <2>2. /\ SubSeq(A, 0 + 1, p - 1) \in Seq(Seq(S)) /\ Len(SubSeq(A, 0 + 1, p - 1)) = (p - 1) - 0
        /\ \A i \in 1 .. (p - 1) - 0 : SubSeq(A, 0 + 1, p - 1)[i] = A[0 + i]
    BY <2>1, SliceIs
  <2> QED
    BY <1>0, <2>1, <2>2
<1>5. A[p] \in Seq(S) /\ B[1] \in Seq(S)
  <2>1. p \in 1 .. p /\ 1 \in 1 .. r
    BY <1>a
  <2> QED
    BY <1>1, <2>1
<1>6. /\ mid \in Seq(Seq(S)) /\ Len(mid) = q
      /\ q = 1 => mid[1] = A[p] \o N[1] \o B[1]
      /\ q # 1 => /\ mid[1] = A[p] \o N[1] /\ mid[q] = N[q] \o B[1]
                  /\ \A k \in 2 .. q - 1 : mid[k] = N[k]
  <2>1. mid = Editor!Spliced(A[p], N, B[1])
    BY <1>0
  <2> HIDE DEF mid
  <2> QED
    <3>1. PICK f, l \in Seq(S) : f = A[p] /\ l = B[1]
      BY <1>5
    <3>2. PICK w : w = Editor!Spliced(f, N, l)
      OBVIOUS
    <3>3. w \in Seq(Seq(S)) /\ \A i \in Nat : i = Len(N) => Between(f, N, l, w, i)
      BY <3>2, SplicedIs
    <3>4. Between(f, N, l, w, q)
      BY <1>0, <3>3
    <3> QED
      BY <2>1, <3>1, <3>2, <3>3, <3>4 DEF Between
<1>7. /\ tail \in Seq(Seq(S)) /\ Len(tail) = r - 1
      /\ \A n \in 1 .. r - 1 : tail[n] = B[1 + n]
  <2>1. 1 \in 0 .. Len(B) /\ r \in 1 .. Len(B) /\ 1 + 1 = 2
    BY <1>0
  <2>2. /\ SubSeq(B, 1 + 1, r) \in Seq(Seq(S)) /\ Len(SubSeq(B, 1 + 1, r)) = r - 1
        /\ \A i \in 1 .. r - 1 : SubSeq(B, 1 + 1, r)[i] = B[1 + i]
    BY <2>1, SliceIs
  <2> QED
    BY <1>0, <2>1, <2>2
<1> HIDE DEF J, T, head, mid, tail
<1>8. PICK b \in Seq(Seq(S)) : b = head \o mid
  BY <1>4, <1>6, ConcatProperties
<1>9. Len(b) = p - 1 + q /\ \A n \in 1 .. p - 1 + q : b[n] = IF n <= p - 1 THEN head[n] ELSE mid[n - (p - 1)]
  <2>1. Len(b) = Len(head) + Len(mid)
        /\ \A n \in 1 .. Len(head) + Len(mid) :
              b[n] = IF n <= Len(head) THEN head[n] ELSE mid[n - Len(head)]
    BY <1>4, <1>6, <1>8, ConcatProperties
  <2> QED
    BY <1>4, <1>6, <2>1
<1>10. PICK e \in Seq(Seq(S)) : e = b \o tail
  BY <1>7, ConcatProperties
<1>11. Len(e) = (p - 1 + q) + (r - 1)
       /\ \A n \in 1 .. (p - 1 + q) + (r - 1) :
             e[n] = IF n <= p - 1 + q THEN b[n] ELSE tail[n - (p - 1 + q)]
  <2>1. Len(e) = Len(b) + Len(tail)
        /\ \A n \in 1 .. Len(b) + Len(tail) : e[n] = IF n <= Len(b) THEN b[n] ELSE tail[n - Len(b)]
    BY <1>7, <1>10, ConcatProperties
  <2> QED
    BY <1>7, <1>9, <2>1
<1>12. Len(e) = Len(T)
  BY <1>0, <1>3, <1>11
<1>13. ASSUME NEW n \in 1 .. Len(e)
       PROVE  e[n] = T[n]
  <2>1. n \in 1 .. (p + q - 1) + r - 1 /\ n \in 1 .. (p - 1 + q) + (r - 1)
    BY <1>0, <1>3, <1>11, <1>12
  <2>2. CASE n < p
    <3>1. n \in 1 .. p - 1 /\ n \in 1 .. p - 1 + q /\ n <= p - 1 + q /\ n <= p - 1
          /\ n < p + q - 1 /\ n \in 1 .. p + q - 1
      BY <1>0, <2>1, <2>2
    <3>2. e[n] = A[n]
      BY <1>4, <1>9, <1>11, <2>1, <3>1
    <3>3. T[n] = A[n]
      BY <1>2, <1>3, <2>1, <2>2, <3>1
    <3> QED
      BY <3>2, <3>3
  <2>3. CASE n = p
    <3>1. n \in 1 .. p - 1 + q /\ n <= p - 1 + q /\ ~(n <= p - 1) /\ n - (p - 1) = 1
          /\ n \in 1 .. p + q - 1 /\ ~(n < p)
      BY <1>0, <2>1, <2>3
    <3>2. e[n] = mid[1] /\ J[n] = A[p] \o N[1]
      <4>1. e[n] = b[n] /\ b[n] = mid[n - (p - 1)]
        BY <1>9, <1>11, <2>1, <3>1
      <4> QED
        BY <1>2, <2>3, <3>1, <4>1
    <3>3. CASE q = 1
      <4>1. n = p + q - 1 /\ ~(n < p + q - 1)
        BY <1>0, <2>3, <3>3
      <4>2. T[n] = J[n] \o B[1]
        BY <1>3, <2>1, <4>1
      <4> QED
        BY <1>6, <3>2, <3>3, <4>2
    <3>4. CASE q # 1
      <4>1. n < p + q - 1
        BY <1>0, <2>3, <3>4
      <4>2. T[n] = J[n]
        BY <1>3, <2>1, <4>1
      <4> QED
        BY <1>6, <3>2, <3>4, <4>2
    <3> QED
      BY <3>3, <3>4
  <2>4. CASE p < n /\ n <= p + q - 1
    <3>1. PICK k \in 2 .. q : k = n - p + 1 /\ n - (p - 1) = k /\ q # 1
      <4>1. n - p + 1 \in 2 .. q /\ n - (p - 1) = n - p + 1 /\ q # 1
        BY <1>a, <2>1, <2>4
      <4> QED
        BY <4>1
    <3>2. n \in 1 .. p - 1 + q /\ n <= p - 1 + q /\ ~(n <= p - 1)
          /\ n \in 1 .. p + q - 1 /\ ~(n < p) /\ n # p
      BY <1>a, <2>1, <2>4
    <3>3. e[n] = mid[k]
      <4>1. e[n] = b[n] /\ b[n] = mid[n - (p - 1)]
        BY <1>9, <1>11, <2>1, <3>2
      <4> QED
        BY <3>1, <4>1
    <3>4. J[n] = N[k]
      BY <1>2, <3>1, <3>2
    <3>5. CASE n = p + q - 1
      <4>1. k = q /\ ~(n < p + q - 1)
        BY <1>0, <3>1, <3>5
      <4>2. T[n] = J[n] \o B[1]
        BY <1>3, <2>1, <3>5, <4>1
      <4> QED
        BY <1>6, <3>1, <3>3, <3>4, <4>1, <4>2
    <3>6. CASE n # p + q - 1
      <4>1. k \in 2 .. q - 1 /\ n < p + q - 1
        BY <1>a, <2>4, <3>1, <3>6
      <4>2. T[n] = J[n]
        BY <1>3, <2>1, <4>1
      <4> QED
        BY <1>6, <3>1, <3>3, <3>4, <4>1, <4>2
    <3> QED
      BY <3>5, <3>6
  <2>5. CASE p + q - 1 < n
    <3>1. PICK m \in 1 .. r - 1 : m = n - (p - 1 + q) /\ n - (p + q - 1) + 1 = 1 + m
      <4>1. n - (p - 1 + q) \in 1 .. r - 1 /\ n - (p + q - 1) + 1 = 1 + (n - (p - 1 + q))
        BY <1>a, <2>1, <2>5
      <4> QED
        BY <4>1
    <3>2. ~(n <= p - 1 + q) /\ ~(n < p + q - 1) /\ n # p + q - 1
      BY <1>a, <2>1, <2>5
    <3>3. e[n] = tail[m]
      BY <1>11, <2>1, <3>1, <3>2
    <3>4. T[n] = B[1 + m]
      BY <1>3, <2>1, <3>1, <3>2
    <3> QED
      BY <1>7, <3>1, <3>3, <3>4
  <2> QED
    BY <1>0, <2>1, <2>2, <2>3, <2>4, <2>5
<1>14. e = T
  BY <1>3, <1>12, <1>13, SeqEqual
<1> QED
  BY <1>8, <1>10, <1>14 DEF J, T, head, mid, tail, JoinsBetween


(* What stands between two offsets, and when it is the same twice.         *)
IsSlice(s, l, n, u) == Len(u) = n /\ \A i \in 1 .. n : u[i] = s[l + i]

LEMMA SliceAt ==
    ASSUME NEW S, NEW s \in Seq(S), NEW l \in Nat, NEW n \in Nat, l + n <= Len(s),
           NEW f \in Int, f = l + 1, NEW e \in Int, e = l + n
    PROVE  SubSeq(s, f, e) \in Seq(S) /\ IsSlice(s, l, n, SubSeq(s, f, e))
<1>1. Len(s) \in Nat /\ l \in 0 .. Len(s) /\ e \in l .. Len(s) /\ e - l = n
  BY LenProperties
<1> QED
  BY <1>1, SliceIs DEF IsSlice

SameFrom(s, l, t, k, n) == \A i \in 1 .. n : s[l + i] = t[k + i]

LEMMA SameSlice ==
    ASSUME NEW S, NEW u \in Seq(S), NEW v \in Seq(S), NEW s, NEW t, NEW l, NEW k, NEW n \in Nat,
           IsSlice(s, l, n, u), IsSlice(t, k, n, v), SameFrom(s, l, t, k, n)
    PROVE  u = v
<1>1. Len(u) = n /\ Len(v) = n
  BY DEF IsSlice
<1>2. \A i \in 1 .. n : u[i] = v[i]
  BY DEF IsSlice, SameFrom
<1> QED
  BY <1>1, <1>2, SeqEqual

(* Two strings one after the other can be told apart again.                *)
LEMMA ConcatParts ==
    ASSUME NEW S, NEW u \in Seq(S), NEW v \in Seq(S)
    PROVE  /\ u \o v \in Seq(S) /\ Len(u \o v) = Len(u) + Len(v)
           /\ SubSeq(u \o v, 1, Len(u)) = u
           /\ SubSeq(u \o v, Len(u) + 1, Len(u \o v)) = v
<1>1. PICK w \in Seq(S) : w = u \o v
  BY ConcatProperties
<1>2. Len(w) = Len(u) + Len(v) /\ \A i \in 1 .. Len(u) + Len(v) : w[i] = IF i <= Len(u) THEN u[i] ELSE v[i - Len(u)]
  BY <1>1, ConcatProperties
<1>3. PICK k, l, z \in Nat : k = Len(u) /\ l = Len(v) /\ z = 0 /\ Len(w) = k + l
  BY <1>2, LenProperties
<1>4. z \in 0 .. Len(w) /\ k \in z .. Len(w) /\ k \in 0 .. Len(w) /\ k + l \in k .. Len(w)
      /\ z + 1 = 1 /\ k - z = k /\ k + l - k = l /\ \A i \in Int : z + i = i
  BY <1>3
<1>5. SubSeq(w, 1, k) = u
  <2>1. SubSeq(w, 1, k) \in Seq(S) /\ IsSlice(w, z, k, SubSeq(w, 1, k))
    <3>1. 1 \in Int /\ 1 = z + 1 /\ k = z + k /\ z + k <= Len(w) /\ k \in Int
      BY <1>3
    <3> QED
      BY <1>1, <3>1, SliceAt
  <2>2. IsSlice(u, z, k, u) /\ SameFrom(w, z, u, z, k)
    <3>1. \A i \in 1 .. k : z + i = i /\ i \in 1 .. k + l /\ i <= k
      BY <1>3
    <3> QED
      BY <1>2, <1>3, <3>1 DEF IsSlice, SameFrom
  <2> QED
    BY <1>3, <2>1, <2>2, SameSlice
<1>6. SubSeq(w, k + 1, k + l) = v
  <2>1. SubSeq(w, k + 1, k + l) \in Seq(S) /\ IsSlice(w, k, l, SubSeq(w, k + 1, k + l))
    <3>1. PICK f, e \in Int : f = k + 1 /\ e = k + l /\ k + l <= Len(w)
      BY <1>3
    <3>2. SubSeq(w, f, e) \in Seq(S) /\ IsSlice(w, k, l, SubSeq(w, f, e))
      BY <1>1, <3>1, SliceAt
    <3> QED
      BY <3>1, <3>2
  <2>2. IsSlice(v, z, l, v) /\ SameFrom(w, k, v, z, l)
    <3>1. \A i \in 1 .. l : z + i = i /\ k + i \in 1 .. k + l /\ ~(k + i <= k) /\ (k + i) - k = i
      BY <1>3
    <3> QED
      BY <1>2, <1>3, <3>1 DEF IsSlice, SameFrom
  <2> QED
    BY <1>3, <2>1, <2>2, SameSlice
<1> QED
  BY <1>1, <1>2, <1>3, <1>5, <1>6

(* So can lines that were joined.                                          *)
Parted(J, A, B, x) ==
    /\ J[x] = A[x] \o B[1] /\ x <= Len(J)
    /\ SubSeq(J, 1, x - 1) = SubSeq(A, 1, x - 1)
    /\ SubSeq(J, x + 1, Len(J)) = SubSeq(B, 2, Len(B))

LEMMA JoinParts ==
    ASSUME NEW S, NEW A \in Seq(Seq(S)), NEW B \in Seq(Seq(S)), Len(A) # 0, Len(B) # 0,
           NEW x \in Nat, Len(A) = x, NEW J, J = Join(A, B)
    PROVE  A[x] \in Seq(S) /\ B[1] \in Seq(S) /\ Parted(J, A, B, x)
<1>1. PICK r \in Nat : r = Len(B) /\ r # 0
  BY LenProperties
<1>2. x # 0 /\ x >= 1 /\ r >= 1
  BY <1>1
<1>3. /\ J \in Seq(Seq(S)) /\ Len(J) = x + r - 1
      /\ \A n \in 1 .. x + r - 1 : J[n] = IF n < x THEN A[n]
                                          ELSE IF n = x THEN A[n] \o B[1] ELSE B[n - x + 1]
  BY <1>1, JoinIs
<1>4. A[x] \in Seq(S) /\ B[1] \in Seq(S)
  <2>1. x \in 1 .. Len(A) /\ 1 \in 1 .. Len(B)
    BY <1>1, <1>2
  <2> QED
    BY <2>1, LenProperties
<1>5. J[x] = A[x] \o B[1] /\ x <= Len(J)
  <2>1. x \in 1 .. x + r - 1 /\ x <= x + r - 1 /\ ~(x < x)
    BY <1>2
  <2>2. J[x] = IF x < x THEN A[x] ELSE IF x = x THEN A[x] \o B[1] ELSE B[x - x + 1]
    BY <1>3, <2>1
  <2> QED
    BY <1>3, <2>1, <2>2
<1>6. SubSeq(J, 1, x - 1) = SubSeq(A, 1, x - 1)
  <2>1. PICK z, y \in Nat : z = 0 /\ y = x - 1
    <3>1. x - 1 \in Nat /\ 0 \in Nat
      BY <1>2
    <3> QED
      BY <3>1
  <2>2. 1 \in Int /\ 1 = z + 1 /\ y \in Int /\ y = z + y /\ z + y <= Len(J) /\ z + y <= Len(A)
    BY <1>2, <1>3, <2>1
  <2>3. SubSeq(J, 1, y) \in Seq(Seq(S)) /\ IsSlice(J, z, y, SubSeq(J, 1, y))
    BY <1>3, <2>2, SliceAt
  <2>4. SubSeq(A, 1, y) \in Seq(Seq(S)) /\ IsSlice(A, z, y, SubSeq(A, 1, y))
    BY <2>2, SliceAt
  <2>5. SameFrom(J, z, A, z, y)
    <3>1. \A i \in 1 .. y : z + i = i /\ i \in 1 .. x + r - 1 /\ i < x
      BY <1>2, <2>1
    <3> QED
      BY <1>3, <3>1 DEF SameFrom
  <2> QED
    BY <2>1, <2>3, <2>4, <2>5, SameSlice
<1>7. SubSeq(J, x + 1, Len(J)) = SubSeq(B, 2, Len(B))
  <2>1. PICK o, n, f, e \in Nat : o = 1 /\ n = r - 1 /\ f = x + 1 /\ e = x + r - 1
    <3>1. 1 \in Nat /\ r - 1 \in Nat /\ x + 1 \in Nat /\ x + r - 1 \in Nat
      BY <1>2
    <3> QED
      BY <3>1
  <2>2. e \in Int /\ e = x + n /\ x + n <= Len(J) /\ f \in Int /\ Len(J) = e
    BY <1>2, <1>3, <2>1
  <2>3. 2 \in Int /\ 2 = o + 1 /\ r = o + n /\ r \in Int /\ o + n <= Len(B)
    BY <1>1, <1>2, <2>1
  <2>4. SubSeq(J, f, e) \in Seq(Seq(S)) /\ IsSlice(J, x, n, SubSeq(J, f, e))
    BY <1>3, <2>1, <2>2, SliceAt
  <2>5. SubSeq(B, 2, r) \in Seq(Seq(S)) /\ IsSlice(B, o, n, SubSeq(B, 2, r))
    BY <2>3, SliceAt
  <2>6. SameFrom(J, x, B, o, n)
    <3>1. \A i \in 1 .. n : x + i \in 1 .. x + r - 1 /\ ~(x + i < x) /\ x + i # x /\ (x + i) - x + 1 = o + i
      BY <1>2, <2>1
    <3> QED
      BY <1>3, <3>1 DEF SameFrom
  <2> QED
    BY <1>1, <2>1, <2>2, <2>4, <2>5, <2>6, SameSlice
<1> QED
  BY <1>4, <1>5, <1>6, <1>7 DEF Parted

(* The position between two strings is where their lines are joined.       *)
Cut(L, p, A, B) ==
    /\ p.line < Len(L) /\ p.column <= Len(L[p.line + 1])
    /\ SubSeq(L, 1, p.line) = SubSeq(A, 1, Len(A) - 1)
    /\ SubSeq(L[p.line + 1], 1, p.column) = A[Len(A)]
    /\ SubSeq(L[p.line + 1], p.column + 1, Len(L[p.line + 1])) = B[1]
    /\ SubSeq(L, p.line + 2, Len(L)) = SubSeq(B, 2, Len(B))

LEMMA CutAt ==
    ASSUME NEW S, NEW a \in Seq(S), NEW b \in Seq(S),
           NEW p, p = PosOf(a \o b, Len(a)), NEW A, A = LinesOf(a), NEW B, B = LinesOf(b),
           NEW L, L = LinesOf(a \o b)
    PROVE  /\ p.line \in Nat /\ p.column \in Nat /\ Len(A) = p.line + 1
           /\ A \in Seq(Seq(S)) /\ B \in Seq(Seq(S)) /\ Len(A) # 0 /\ Len(B) # 0
           /\ Cut(L, p, A, B)
<1>1. PICK m \in Nat : m = LineOf(a, Len(a))
  BY LineFeedsAreOffsets
<1>2. A \in Seq(Seq(S)) /\ B \in Seq(Seq(S)) /\ Len(A) = m + 1 /\ Len(A) # 0 /\ Len(B) # 0
  BY <1>1, LinesAreStrings
<1>3. L = Join(A, B)
  BY LinesOfJoined
<1>4. Len(a) \in Nat /\ Len(a) \in 0 .. Len(a)
  BY LenProperties
<1>5. LineOf(a \o b, Len(a)) = m
  BY <1>1, <1>4, LineOfJoined
<1>6. m \in 0 .. LineOf(a, Len(a))
  BY <1>1
<1>7. LineStart(a \o b, m) = LineStart(a, m) /\ LineEnd(a, m) = Len(a)
  BY <1>1, <1>6, LineStartJoined, LineEndJoined
<1>8. Len(A[m + 1]) = Len(a) - LineStart(a, m)
  BY <1>6, <1>7, LinesAreStrings
<1>9. p.line = m /\ p.column = Len(A[m + 1])
  BY <1>5, <1>7, <1>8 DEF PosOf, At
<1>10. PICK x \in Nat : x = m + 1 /\ Len(A) = x /\ x - 1 = m /\ x + 1 = m + 2
  <2>1. m + 1 \in Nat /\ (m + 1) - 1 = m /\ (m + 1) + 1 = m + 2
    OBVIOUS
  <2> QED
    BY <1>2, <2>1
<1>11. A[x] \in Seq(S) /\ B[1] \in Seq(S) /\ Parted(L, A, B, x)
  BY <1>2, <1>3, <1>10, JoinParts
<1>a. PICK u, v \in Seq(S) : u = A[x] /\ v = B[1] /\ L[x] = u \o v
  BY <1>11 DEF Parted
<1>b. PICK y, z \in Nat : y = Len(u) /\ z = Len(v) /\ y <= y + z
  BY LenProperties
<1>12. /\ Len(L[x]) = y + z
       /\ SubSeq(L[x], 1, y) = u
       /\ SubSeq(L[x], y + 1, Len(L[x])) = v
  <2>1. /\ Len(u \o v) = Len(u) + Len(v)
        /\ SubSeq(u \o v, 1, Len(u)) = u
        /\ SubSeq(u \o v, Len(u) + 1, Len(u \o v)) = v
    BY ConcatParts
  <2> QED
    BY <1>a, <1>b, <2>1
<1>13. Len(L) \in Nat
  BY LinesAreStrings, ConcatProperties
<1>14. p.line < Len(L) /\ p.column <= Len(L[p.line + 1]) /\ p.column \in Nat
  <2>1. m < Len(L)
    BY <1>10, <1>11, <1>13 DEF Parted
  <2>2. p.column = y /\ p.line + 1 = x
    BY <1>9, <1>10, <1>a, <1>b
  <2> QED
    BY <1>9, <1>b, <1>12, <2>1, <2>2
<1> QED
  BY <1>2, <1>9, <1>10, <1>a, <1>b, <1>11, <1>12, <1>14 DEF Parted, Cut


-----------------------------------------------------------------------------
(* A string is what comes before an offset and what comes after it.        *)
Parts(s, o, u, v) ==
    u = SubSeq(s, 1, o) /\ v = SubSeq(s, o + 1, Len(s)) /\ Len(u) = o /\ s = u \o v

LEMMA CutIs ==
    ASSUME NEW S, NEW s \in Seq(S), NEW o \in 0 .. Len(s)
    PROVE  \E u, v \in Seq(S) : Parts(s, o, u, v)
<1>1. PICK k, n, f, z \in Nat : /\ k = Len(s) /\ n = k - o /\ f = o + 1 /\ z = 0
                                /\ o \in Nat /\ o + n = k /\ z + o = o /\ o <= k
  <2>1. Len(s) \in Nat
    BY LenProperties
  <2>2. Len(s) - o \in Nat /\ o + 1 \in Nat /\ 0 \in Nat /\ o \in Nat
        /\ o + (Len(s) - o) = Len(s) /\ 0 + o = o /\ o <= Len(s)
    BY <2>1
  <2> QED
    BY <2>1, <2>2
<1>2. SubSeq(s, 1, o) \in Seq(S) /\ IsSlice(s, z, o, SubSeq(s, 1, o))
  <2>1. 1 \in Int /\ 1 = z + 1 /\ o \in Int /\ o = z + o /\ z + o <= Len(s)
    BY <1>1
  <2> QED
    BY <1>1, <2>1, SliceAt
<1>3. SubSeq(s, f, k) \in Seq(S) /\ IsSlice(s, o, n, SubSeq(s, f, k))
  <2>1. f \in Int /\ k \in Int /\ k = o + n /\ o + n <= Len(s)
    BY <1>1
  <2> QED
    BY <1>1, <2>1, SliceAt
<1>4. PICK u, v \in Seq(S) : u = SubSeq(s, 1, o) /\ v = SubSeq(s, f, k)
  BY <1>2, <1>3
<1>5. PICK w \in Seq(S) : w = u \o v
  BY ConcatProperties
<1>6. Len(w) = Len(u) + Len(v) /\ \A i \in 1 .. Len(u) + Len(v) : w[i] = IF i <= Len(u) THEN u[i] ELSE v[i - Len(u)]
  BY <1>5, ConcatProperties
<1>7. /\ Len(u) = o /\ Len(v) = n
      /\ \A i \in 1 .. o : u[i] = s[z + i]
      /\ \A i \in 1 .. n : v[i] = s[o + i]
  BY <1>2, <1>3, <1>4 DEF IsSlice
<1>8. ASSUME NEW i \in 1 .. k
      PROVE  w[i] = s[i]
  <2>1. i \in 1 .. o + n
    BY <1>1
  <2>2. CASE i <= o
    <3>1. i \in 1 .. o /\ z + i = i
      BY <1>1, <2>2
    <3> QED
      BY <1>6, <1>7, <2>1, <2>2, <3>1
  <2>3. CASE ~(i <= o)
    <3>1. i - o \in 1 .. n /\ o + (i - o) = i
      BY <1>1, <2>1, <2>3
    <3>2. w[i] = v[i - o]
      BY <1>6, <1>7, <2>1, <2>3
    <3>3. v[i - o] = s[o + (i - o)]
      BY <1>7, <3>1
    <3> QED
      BY <3>1, <3>2, <3>3
  <2> QED
    BY <2>2, <2>3
<1>9. Len(w) = k
  BY <1>1, <1>6, <1>7
<1>10. w = s
  BY <1>1, <1>8, <1>9, SeqEqual
<1> QED
  BY <1>1, <1>4, <1>5, <1>7, <1>10 DEF Parts

(* The line of an empty document is empty.                                 *)
LEMMA NoTextIsOneLine == LinesOf(<<>>) = <<<<>>>>
<1>1. PICK S, s : S = {} /\ s \in Seq(S) /\ s = <<>> /\ Len(s) = 0
  <2>1. <<>> \in Seq({}) /\ Len(<<>>) = 0
    OBVIOUS
  <2> QED
    BY <2>1
<1>2. LineOf(s, Len(s)) = 0
  BY <1>1, LineOfNext
<1>3. PICK L \in Seq(Seq(S)) : L = LinesOf(s) /\ Len(L) = 1
  <2>1. LinesOf(s) \in Seq(Seq(S)) /\ Len(LinesOf(s)) = LineOf(s, Len(s)) + 1
    BY <1>1, LinesAreStrings
  <2> QED
    BY <1>2, <2>1
<1>4. L[1] \in Seq({})
  BY <1>1, <1>3
<1>5. PICK l \in Seq({}) : l = L[1]
  BY <1>4
<1>6. Len(l) = 0
  <2>1. Len(l) \in Nat /\ \A i \in 1 .. Len(l) : l[i] \in {}
    BY LenProperties
  <2>2. ~(1 \in 1 .. Len(l))
    BY <2>1
  <2> QED
    BY <2>1, <2>2
<1>7. l = <<>>
  BY <1>6, EmptySeq
<1> QED
  BY <1>1, <1>3, <1>5, <1>7

(* What replaces the text between two offsets replaces, in its lines, what *)
(* is between their positions.                                             *)
Replaced(L, p, q, N) ==
    SubSeq(L, 1, p.line)
    \o Editor!Spliced(SubSeq(L[p.line + 1], 1, p.column), N,
                        SubSeq(L[q.line + 1], q.column + 1, Len(L[q.line + 1])))
    \o SubSeq(L, q.line + 2, Len(L))

LEMMA ReplacedLines ==
    ASSUME NEW S, NEW s \in Seq(S), NEW i \in 0 .. Len(s), NEW j \in 0 .. Len(s), NEW n \in Seq(S),
           NEW L, L = LinesOf(s), NEW p, p = PosOf(s, i), NEW q, q = PosOf(s, j)
    PROVE  LinesOf(SubSeq(s, 1, i) \o n \o SubSeq(s, j + 1, Len(s))) = Replaced(L, p, q, LinesOf(n))
<1>1. PICK a, b \in Seq(S) : Parts(s, i, a, b)
  BY CutIs
<1>2. PICK c, d \in Seq(S) : Parts(s, j, c, d)
  BY CutIs
<1>3. PICK A, D, N \in Seq(Seq(S)) : /\ A = LinesOf(a) /\ D = LinesOf(d) /\ N = LinesOf(n)
                                     /\ Len(A) # 0 /\ Len(D) # 0 /\ Len(N) # 0
  BY LinesAreStrings
<1>4. /\ SubSeq(L, 1, p.line) = SubSeq(A, 1, Len(A) - 1)
      /\ SubSeq(L[p.line + 1], 1, p.column) = A[Len(A)]
  <2>1. p = PosOf(a \o b, Len(a)) /\ L = LinesOf(a \o b)
    BY <1>1 DEF Parts
  <2>2. Cut(L, p, A, LinesOf(b))
    BY <1>3, <2>1, CutAt
  <2> QED
    BY <2>2 DEF Cut
<1>5. /\ SubSeq(L[q.line + 1], q.column + 1, Len(L[q.line + 1])) = D[1]
      /\ SubSeq(L, q.line + 2, Len(L)) = SubSeq(D, 2, Len(D))
  <2>1. q = PosOf(c \o d, Len(c)) /\ L = LinesOf(c \o d)
    BY <1>2 DEF Parts
  <2>2. Cut(L, q, LinesOf(c), D)
    BY <1>3, <2>1, CutAt
  <2> QED
    BY <2>2 DEF Cut
<1>6. LinesOf((a \o n) \o d) = Join(Join(A, N), D)
  <2>1. a \o n \in Seq(S)
    BY ConcatProperties
  <2> QED
    BY <1>3, <2>1, LinesOfJoined
<1>7. JoinsBetween(A, N, D)
  BY <1>3, SplicedJoins
<1> QED
  BY <1>1, <1>2, <1>3, <1>4, <1>5, <1>6, <1>7, Zenon DEF Parts, JoinsBetween, Replaced


-----------------------------------------------------------------------------
(* The positions a client sends are those of offsets, and the line after   *)
(* the last, which is not there.                                           *)
IsOffset(s, p) == \E o \in 0 .. Len(s) : p = PosOf(s, o)
IsBehind(s, p) == p.line = Len(LinesOf(s)) /\ p.column = 0

LEMMA SentIs ==
    ASSUME NEW S, text \in Seq(S), NEW p \in Sent
    PROVE  (IsOffset(text, p) \/ IsBehind(text, p)) /\ p # Whole
<1>1. PICK k \in Nat : k = LineOf(text, Len(text))
  BY LineFeedsAreOffsets
<1>2. Len(LinesOf(text)) = k + 1 /\ Lines = k + 1
  BY <1>1, LinesAreStrings DEF Lines
<1>3. (\E o \in 0 .. Len(text) : p = PosOf(text, o)) \/ p = At(k + 1, 0)
  BY <1>2 DEF Sent, PosOf
<1>4. CASE \E o \in 0 .. Len(text) : p = PosOf(text, o)
  <2>1. PICK o \in 0 .. Len(text) : p = PosOf(text, o)
    BY <1>4
  <2>2. p.column \in Nat
    BY <2>1, PosOfIs
  <2>3. Whole.column = -2 /\ ~(-2 \in Nat)
    BY DEF Whole, At
  <2> QED
    BY <2>1, <2>2, <2>3 DEF IsOffset
<1>5. CASE p = At(k + 1, 0)
  <2>1. Whole.column = -2 /\ p.column = 0 /\ p.line = k + 1
    BY <1>5 DEF Whole, At
  <2>2. p # Whole
    BY <2>1
  <2> QED
    BY <1>2, <2>1, <2>2 DEF IsBehind
<1> QED
  BY <1>3, <1>4, <1>5

(* What is there for the one is there for the other.                       *)
LEMMA OffsetIsInLines ==
    ASSUME NEW S, text \in Seq(S), NEW o \in 0 .. Len(text)
    PROVE  Editor!InLines(PosOf(text, o))
<1>1. PICK a, b \in Seq(S) : Parts(text, o, a, b)
  BY CutIs
<1>2. PICK p, A, B, L : p = PosOf(a \o b, Len(a)) /\ A = LinesOf(a) /\ B = LinesOf(b) /\ L = LinesOf(a \o b)
  OBVIOUS
<1>3. Cut(L, p, A, B)
  BY <1>2, CutAt
<1>4. p = PosOf(text, o) /\ L = LinesOf(text)
  BY <1>1, <1>2 DEF Parts
<1> QED
  BY <1>3, <1>4 DEF Cut, Editor!InLines

LEMMA BehindIsNowhere ==
    ASSUME NEW S, text \in Seq(S), NEW p, IsBehind(text, p)
    PROVE  /\ ~Editor!InLines(p) /\ ~HasLine(text, p.line)
           /\ \A o \in 0 .. Len(text) : p # PosOf(text, o)
<1>1. PICK k \in Nat : k = LineOf(text, Len(text)) /\ Len(LinesOf(text)) = k + 1 /\ p.line = k + 1
  BY LineFeedsAreOffsets, LinesAreStrings DEF IsBehind
<1>2. ~(k + 1 < k + 1) /\ ~(k + 1 \in 0 .. k)
  BY <1>1
<1>3. ~Editor!InLines(p)
  BY <1>1, <1>2 DEF Editor!InLines
<1>4. ~HasLine(text, p.line)
  <2>1. ASSUME HasLine(text, p.line) PROVE p.line \in 0 .. LineOf(text, Len(text))
    BY <2>1, NoLineBehindLast
  <2> QED
    BY <1>1, <1>2, <2>1
<1>5. ASSUME NEW o \in 0 .. Len(text)
      PROVE  p # PosOf(text, o)
  <2>1. PosOf(text, o).line \in 0 .. k
    BY <1>1, PosOfIs
  <2> QED
    BY <1>1, <1>2, <2>1
<1> QED
  BY <1>3, <1>4, <1>5

(* text_range finds the two offsets when both positions are of the text    *)
(* and in order, and fails an assertion otherwise.                         *)
Ranged(p, q, i, j) == p = PosOf(text, i) /\ q = PosOf(text, j) /\ TextRange(text, p, q) = <<i, j>>

LEMMA RangeOfSent ==
    ASSUME NEW S, text \in Seq(S), NEW p \in Sent, NEW q \in Sent
    PROVE  \/ ~Editor!InOrder(p, q) /\ TextRange(text, p, q) = Nowhere
           \/ /\ Editor!InOrder(p, q) /\ TextRange(text, p, q) # Nowhere
              /\ \E i \in 0 .. Len(text) : \E j \in i .. Len(text) : Ranged(p, q, i, j)
<1>0. Len(text) \in Nat
  BY LenProperties
<1>1. CASE IsBehind(text, p)
  <2>1. ~Editor!InLines(p) /\ ~HasLine(text, p.line)
    BY <1>1, BehindIsNowhere
  <2>2. TextRange(text, p, q) = Nowhere
    BY <2>1, RangeIsNowhere
  <2> QED
    BY <2>1, <2>2 DEF Editor!InOrder
<1>2. CASE IsOffset(text, p) /\ IsBehind(text, q)
  <2>1. ~Editor!InLines(q) /\ \A o \in 0 .. Len(text) : q # PosOf(text, o)
    BY <1>2, BehindIsNowhere
  <2>2. PICK i \in 0 .. Len(text) : p = PosOf(text, i)
    BY <1>2 DEF IsOffset
  <2>3. \A k \in i .. Len(text) : q # PosOf(text, k)
    BY <1>0, <2>1
  <2>4. TextRange(text, p, q) = Nowhere
    BY <2>2, <2>3, RangeIsNowhere
  <2> QED
    BY <2>1, <2>4 DEF Editor!InOrder
<1>3. CASE IsOffset(text, p) /\ IsOffset(text, q)
  <2>1. PICK i, j \in 0 .. Len(text) : p = PosOf(text, i) /\ q = PosOf(text, j)
    BY <1>3 DEF IsOffset
  <2>2. NotAfter(p, q) <=> i <= j
    BY <2>1, PosInOrder
  <2>3. Editor!InOrder(p, q) <=> i <= j
    <3>1. Editor!InLines(p) /\ Editor!InLines(q)
      BY <2>1, OffsetIsInLines
    <3>2. Editor!NotAfter(p, q) <=> NotAfter(p, q)
      BY DEF Editor!NotAfter, NotAfter
    <3> QED
      BY <2>2, <3>1, <3>2, Zenon DEF Editor!InOrder
  <2>4. CASE i <= j
    <3>1. j \in i .. Len(text)
      BY <1>0, <2>4
    <3>2. TextRange(text, p, q) = <<i, j>>
      BY <2>1, <3>1, RangeIs
    <3>3. <<i, j>> # Nowhere
      <4>1. i # -1
        BY <1>0
      <4> QED
        BY <4>1 DEF Nowhere
    <3> QED
      BY <2>1, <2>3, <2>4, <3>1, <3>2, <3>3 DEF Ranged
  <2>5. CASE ~(i <= j)
    <3>1. TextRange(text, p, q) = Nowhere
      BY <2>2, <2>5, RangeIsNowhere
    <3> QED
      BY <2>3, <2>5, <3>1
  <2> QED
    BY <2>4, <2>5
<1> QED
  BY <1>1, <1>2, <1>3, SentIs

-----------------------------------------------------------------------------
(* The text is a string, and the edit position, when there is one, is where*)
(* what the user typed ends.                                               *)
TypedEndsAt(o) ==
    /\ edit_position = PosOf(text, o)
    /\ Len(change.text) <= o
    /\ SubSeq(text, o - Len(change.text) + 1, o) = change.text

IInv == /\ text \in Seq(Characters \cup {LF})
        /\ (edit_position # NoPosition /\ ~aborted) => \E o \in 0 .. Len(text) : TypedEndsAt(o)

LEMMA InitHolds == DocumentInit => IInv
BY DEF DocumentInit, IInv

(* What a change inserts is a string.                                      *)
LEMMA InsertedIsString ==
    ASSUME NEW n \in Nat, NEW new \in Strings(n)
    PROVE  new \in Seq(Characters \cup {LF})
BY DEF Strings

(* A replaced text is a string.                                            *)
LEMMA ReplacedIsString ==
    ASSUME NEW S, NEW s \in Seq(S), NEW n \in Seq(S), NEW i \in 0 .. Len(s), NEW j \in 0 .. Len(s)
    PROVE  SubSeq(s, 1, i) \o n \o SubSeq(s, j + 1, Len(s)) \in Seq(S)
<1>1. PICK a, b \in Seq(S) : Parts(s, i, a, b)
  BY CutIs
<1>2. PICK c, d \in Seq(S) : Parts(s, j, c, d)
  BY CutIs
<1>3. a \o n \in Seq(S)
  BY ConcatProperties
<1>4. (a \o n) \o d \in Seq(S)
  BY <1>3, ConcatProperties
<1> QED
  BY <1>1, <1>2, <1>4, Zenon DEF Parts


(* What is typed on one line ends as far behind its beginning as it is     *)
(* long.                                                                   *)
Typed(u, n, p) ==
    \E o \in 0 .. Len(u) : /\ At(p.line, p.column + Len(n)) = PosOf(u, o)
                           /\ Len(n) <= o /\ SubSeq(u, o - Len(n) + 1, o) = n

LEMMA TypedIs ==
    ASSUME NEW S, NEW s \in Seq(S), NEW n \in Seq(S), LineFeeds(n) = {},
           NEW i \in 0 .. Len(s), NEW j \in 0 .. Len(s), NEW p, p = PosOf(s, i),
           NEW u, u = SubSeq(s, 1, i) \o n \o SubSeq(s, j + 1, Len(s))
    PROVE  Typed(u, n, p)
<1>1. PICK a, b \in Seq(S) : Parts(s, i, a, b)
  BY CutIs
<1>2. PICK c, d \in Seq(S) : Parts(s, j, c, d)
  BY CutIs
<1>3. PICK an \in Seq(S) : an = a \o n
  BY ConcatProperties
<1>4. u = an \o d
  BY <1>1, <1>2, <1>3, Zenon DEF Parts
<1>5. PICK l, o \in Nat : l = Len(n) /\ o = i + l /\ i \in Nat /\ l <= o /\ o - l + 1 = i + 1
  <2>1. Len(n) \in Nat /\ i \in Nat
    BY LenProperties
  <2>2. PICK l \in Nat : l = Len(n)
    BY <2>1
  <2>3. i + l \in Nat /\ l <= i + l /\ (i + l) - l + 1 = i + 1
    BY <2>1
  <2> QED
    BY <2>1, <2>2, <2>3
<1>6. Len(a) = i /\ Len(an) = o /\ s = a \o b
  BY <1>1, <1>3, <1>5, ConcatProperties DEF Parts
<1>7. PICK m \in Nat : m = LineOf(a, Len(a))
  BY LineFeedsAreOffsets
<1>8. LineOf(s, i) = m /\ LineStart(s, m) = LineStart(a, m)
  <2>1. LineOf(a \o b, Len(a)) = LineOf(a, Len(a))
    <3>1. Len(a) \in 0 .. Len(a)
      BY <1>5, <1>6
    <3> QED
      BY <3>1, LineOfJoined
  <2>2. m \in 0 .. LineOf(a, Len(a))
    BY <1>7
  <2>3. LineStart(a \o b, m) = LineStart(a, m)
    BY <2>2, LineStartJoined
  <2> QED
    BY <1>6, <1>7, <2>1, <2>3
<1>9. LineOf(an, o) = m /\ LineStart(an, m) = LineStart(a, m)
  <2>1. LineOf(a \o n, Len(a) + l) = LineOf(a, Len(a)) + LineOf(n, l)
    <3>1. l \in 0 .. Len(n)
      BY <1>5
    <3> QED
      BY <3>1, LineOfJoined
  <2>2. LineOf(n, l) = 0
    <3>1. {k \in LineFeeds(n) : k <= l} = {}
      OBVIOUS
    <3> QED
      BY <3>1, FS_EmptySet DEF LineOf
  <2>3. m \in 0 .. LineOf(a, Len(a))
    BY <1>7
  <2>4. LineStart(a \o n, m) = LineStart(a, m)
    BY <2>3, LineStartJoined
  <2> QED
    BY <1>3, <1>5, <1>6, <1>7, <2>1, <2>2, <2>4
<1>10. LineOf(u, o) = m /\ LineStart(u, m) = LineStart(a, m)
  <2>1. LineOf(an \o d, o) = LineOf(an, o)
    <3>1. o \in 0 .. Len(an)
      BY <1>5, <1>6
    <3> QED
      BY <3>1, LineOfJoined
  <2>2. m \in 0 .. LineOf(an, Len(an))
    BY <1>6, <1>9
  <2>3. LineStart(an \o d, m) = LineStart(an, m)
    BY <2>2, LineStartJoined
  <2> QED
    BY <1>4, <1>9, <2>1, <2>3
<1>11. At(p.line, p.column + l) = PosOf(u, o)
  <2>1. PICK x \in Int : x = LineStart(a, m)
    <3>1. m \in 0 .. LineOf(a, Len(a))
      BY <1>7
    <3>2. LineStart(a, m) \in 0 .. Len(a)
      BY <3>1, LineStartIs
    <3> QED
      BY <1>5, <1>6, <3>2
  <2>2. p.line = m /\ p.column = i - x
    BY <1>8, <2>1 DEF PosOf, At
  <2>3. PosOf(u, o) = At(m, o - x)
    BY <1>10, <2>1 DEF PosOf
  <2>4. (i - x) + l = o - x
    BY <1>5
  <2> QED
    BY <2>2, <2>3, <2>4
<1>12. o \in 0 .. Len(u) /\ \A k \in 1 .. o : u[k] = an[k]
  <2>1. PICK w \in Seq(S) : w = an \o d
    BY ConcatProperties
  <2>2. Len(w) = Len(an) + Len(d) /\ \A k \in 1 .. Len(an) + Len(d) : w[k] = IF k <= Len(an) THEN an[k] ELSE d[k - Len(an)]
    BY <2>1, ConcatProperties
  <2>3. PICK x \in Nat : x = Len(d)
    BY LenProperties
  <2>4. o \in 0 .. o + x /\ \A k \in 1 .. o : k \in 1 .. o + x /\ k <= o
    BY <2>3
  <2> QED
    BY <1>4, <1>6, <2>1, <2>2, <2>3, <2>4
<1>13. \A k \in 1 .. l : an[i + k] = n[k]
  <2>1. \A k \in 1 .. Len(a) + Len(n) : an[k] = IF k <= Len(a) THEN a[k] ELSE n[k - Len(a)]
    BY <1>3, ConcatProperties
  <2>2. \A k \in 1 .. l : i + k \in 1 .. i + l /\ ~(i + k <= i) /\ (i + k) - i = k
    BY <1>5
  <2> QED
    BY <1>5, <1>6, <2>1, <2>2
<1>14. u \in Seq(S)
  BY <1>4, ConcatProperties
<1>15. SubSeq(u, i + 1, o) = n
  <2>1. PICK f, z \in Nat : f = i + 1 /\ z = 0
    BY <1>5
  <2>2. f \in Int /\ o \in Int /\ o = i + l /\ i + l <= Len(u)
    <3>1. PICK y \in Nat : y = Len(u)
      BY <1>14, LenProperties
    <3>2. o \in 0 .. y
      BY <1>12, <3>1, Zenon
    <3>3. o <= y
      BY <3>2
    <3>4. o <= Len(u)
      BY <3>1, <3>3, Zenon
    <3>5. f \in Int /\ o \in Int /\ o = i + l
      BY <1>5, <2>1
    <3> QED
      BY <3>4, <3>5, Zenon
  <2>3. SubSeq(u, f, o) \in Seq(S) /\ IsSlice(u, i, l, SubSeq(u, f, o))
    BY <1>5, <1>14, <2>1, <2>2, SliceAt
  <2>4. IsSlice(n, z, l, n) /\ SameFrom(u, i, n, z, l)
    <3>1. \A k \in 1 .. l : z + k = k /\ i + k \in 1 .. o
      BY <1>5, <2>1
    <3> QED
      BY <1>5, <1>12, <1>13, <3>1 DEF IsSlice, SameFrom
  <2> QED
    BY <2>1, <2>3, <2>4, SameSlice
<1> QED
  BY <1>5, <1>11, <1>12, <1>15 DEF Typed

-----------------------------------------------------------------------------
(* A change of a range, when its positions are there.                      *)
LEMMA RangeReplaces ==
    ASSUME IInv, NEW start \in Sent, NEW stop \in Sent, NEW new \in Seq(Characters \cup {LF}),
           ChangeRange(start, stop, new), ~aborted
    PROVE  IInv' /\ Editor!Next
<1> DEFINE S == Characters \cup {LF}
<1>0. text \in Seq(S)
  BY DEF IInv
<1>1. start # Whole
  BY <1>0, SentIs
<1>2. change' = Change(start, stop, new)
  BY DEF ChangeRange
<1>3. [change EXCEPT !.text = LinesOf(@)]' = Change(start, stop, LinesOf(new)) 
  BY <1>2 DEF Change
<1>4. \/ ~Editor!InOrder(start, stop) /\ TextRange(text, start, stop) = Nowhere
      \/ /\ Editor!InOrder(start, stop) /\ TextRange(text, start, stop) # Nowhere
         /\ \E i \in 0 .. Len(text) : \E j \in i .. Len(text) : Ranged(start, stop, i, j)
  BY <1>0, RangeOfSent
<1>5. CASE ~Editor!InOrder(start, stop) /\ TextRange(text, start, stop) = Nowhere
  <2>1. aborted' = TRUE /\ text' = text
    BY <1>5 DEF ChangeRange
  <2>2. Editor!Refuse
    BY <1>1, <1>2, <1>3, <1>5, <2>1 DEF Editor!Refuse, Change, Editor!Whole, Whole, At
  <2>3. IInv'
    BY <1>0, <2>1 DEF IInv
  <2> QED
    BY <2>2, <2>3 DEF Editor!Next
<1>6. CASE /\ Editor!InOrder(start, stop) /\ TextRange(text, start, stop) # Nowhere
           /\ \E i \in 0 .. Len(text) : \E j \in i .. Len(text) : Ranged(start, stop, i, j)
  <2>1. PICK i \in 0 .. Len(text) : \E j \in i .. Len(text) : Ranged(start, stop, i, j)
    BY <1>6
  <2>2. PICK j \in 0 .. Len(text) : Ranged(start, stop, i, j)
    BY <2>1
  <2>3. /\ text' = SubSeq(text, 1, i) \o new \o SubSeq(text, j + 1, Len(text))
        /\ edit_position' = EditPosition(start, stop, new) /\ aborted' = aborted
    <3>1. PICK range : range = TextRange(text, start, stop) /\ range # Nowhere
      BY <1>6
    <3>2. range[1] = i /\ range[2] = j
      BY <2>2, <3>1 DEF Ranged
    <3>3. /\ text' = SubSeq(text, 1, range[1]) \o new \o SubSeq(text, range[2] + 1, Len(text))
          /\ edit_position' = EditPosition(start, stop, new) /\ aborted' = aborted
      BY <3>1 DEF ChangeRange
    <3> QED
      BY <3>2, <3>3
  <2>4. text' \in Seq(S)
    BY <1>0, <2>3, ReplacedIsString
  <2>5. Editor!Replace
    <3>1. start = PosOf(text, i) /\ stop = PosOf(text, j)
      BY <2>2 DEF Ranged
    <3>2. LinesOf(text)' = SubSeq(LinesOf(text), 1, start.line)
             \o Editor!Spliced(Editor!Before(start), LinesOf(new), Editor!After(stop))
             \o SubSeq(LinesOf(text), stop.line + 2, Len(LinesOf(text)))
      <4>1. LinesOf(text') = LinesOf(text)'
        BY DEF LinesOf, LineOf, LineStart, HasLine, LineStarts, LineFeeds
      <4>2. LinesOf(text') = Replaced(LinesOf(text), start, stop, LinesOf(new))
        BY <1>0, <2>3, <3>1, ReplacedLines
      <4> QED
        BY <4>1, <4>2 DEF Replaced, Editor!Before, Editor!After
    <3> QED
      BY <1>1, <1>2, <1>3, <1>6, <2>3, <3>2 DEF Editor!Replace, Change, Editor!Whole, Whole, At
  <2>6. IInv'
    <3>1. CASE edit_position' = NoPosition
      BY <2>4, <3>1 DEF IInv
    <3>2. CASE edit_position' # NoPosition
      <4>1. edit_position' = At(start.line, start.column + Len(new)) /\ LineFeeds(new) = {}
        BY <2>3, <3>2 DEF EditPosition
      <4>2. Typed(text', new, start)
        BY <1>0, <2>2, <2>3, <4>1, TypedIs DEF Ranged
      <4>3. change'.text = new
        BY <1>2 DEF Change
      <4> QED
        BY <2>4, <4>1, <4>2, <4>3 DEF IInv, Typed, TypedEndsAt
    <3> QED
      BY <3>1, <3>2
  <2> QED
    BY <2>5, <2>6 DEF Editor!Next
<1> QED
  BY <1>4, <1>5, <1>6

(* What is so of a text is kept by every change, and every change is that  *)
(* of the lines, or of nothing.                                            *)
LEMMA StepRefines ==
    ASSUME IInv, [DocumentNext]_documentVars
    PROVE  IInv' /\ [Editor!Next]_(Editor!vars)
<1>1. CASE UNCHANGED documentVars
  <2>1. LinesOf(text)' = LinesOf(text)
    BY <1>1 DEF documentVars, LinesOf, LineOf, LineStart, HasLine, LineStarts, LineFeeds
  <2>2. UNCHANGED Editor!vars
    BY <1>1, <2>1 DEF documentVars, Editor!vars
  <2>3. IInv'
    BY <1>1 DEF documentVars, IInv, TypedEndsAt, PosOf, At, LineOf, LineStart, LineStarts, LineFeeds
  <2> QED
    BY <2>2, <2>3
<1>2. ASSUME ~aborted, NEW new \in Strings(MaxInsert), ChangeAll(new)
      PROVE  IInv' /\ Editor!Next
  <2>1. new \in Seq(Characters \cup {LF})
    BY <1>2, MaxInsertAssumption, InsertedIsString
  <2>2. IInv'
    BY <1>2, <2>1 DEF ChangeAll, IInv
  <2>3. LinesOf(text)' = LinesOf(new)
    BY <1>2 DEF ChangeAll, LinesOf, LineOf, LineStart, HasLine, LineStarts, LineFeeds
  <2>4. [change EXCEPT !.text = LinesOf(@)]' = Change(Whole, Whole, LinesOf(new))
    BY <1>2 DEF ChangeAll, Change
  <2>5. Editor!ReplaceAll
    BY <1>2, <2>3, <2>4 DEF ChangeAll, Editor!ReplaceAll, Change, Editor!Whole, Whole, At
  <2> QED
    BY <1>2, <2>2, <2>5 DEF Editor!Next
<1>3. ASSUME ~aborted, NEW start \in Sent, NEW stop \in Sent, NEW new \in Strings(MaxInsert),
             ChangeRange(start, stop, new)
      PROVE  IInv' /\ Editor!Next
  <2>1. new \in Seq(Characters \cup {LF})
    BY <1>3, MaxInsertAssumption, InsertedIsString
  <2> QED
    BY <1>3, <2>1, RangeReplaces
<1> QED
  BY <1>1, <1>2, <1>3 DEF DocumentNext

LEMMA Inductive == DocumentSpec => []IInv
<1>1. IInv /\ [DocumentNext]_documentVars => IInv'
  BY StepRefines
<1> QED
  BY <1>1, InitHolds, PTL DEF DocumentSpec

(* The string with line feeds in it is the lines its editor knows: each    *)
(* change that text_range finds a range for is the editor's change of the  *)
(* lines, and one for which it fails an assertion is of positions that are *)
(* not there or not in order.                                              *)
THEOREM ImplementsLines == DocumentSpec => TextIsLines
<1>1. DocumentInit => Editor!Init
  BY NoTextIsOneLine DEF DocumentInit, Editor!Init, Change, Editor!Whole, Whole, At
<1>2. IInv /\ [DocumentNext]_documentVars => [Editor!Next]_(Editor!vars)
  BY StepRefines
<1>3. DocumentSpec => []IInv
  BY Inductive
<1> QED
  BY <1>1, <1>2, <1>3, PTL DEF DocumentSpec, TextIsLines, Editor!Spec

(* The edit position the server keeps for completion is a position of the  *)
(* text, and what the user typed ends there, after any changes.            *)
THEOREM PositionFollows == DocumentSpec => []EditPositionFollowsText
<1>1. IInv => EditPositionFollowsText
  <2> SUFFICES ASSUME IInv, edit_position # NoPosition, ~aborted
               PROVE  LET range == TextRange(text, edit_position, edit_position)
                      IN  /\ range # Nowhere
                          /\ SubSeq(text, range[1] - Len(change.text) + 1, range[1]) = change.text
    BY DEF EditPositionFollowsText
  <2>1. PICK o \in 0 .. Len(text) : TypedEndsAt(o)
    BY DEF IInv
  <2>2. o \in o .. Len(text) /\ text \in Seq(Characters \cup {LF})
    BY DEF IInv
  <2>3. PICK range : range = TextRange(text, edit_position, edit_position) /\ range = <<o, o>>
    BY <2>1, <2>2, RangeIs DEF TypedEndsAt
  <2>4. range[1] = o /\ range # Nowhere
    <3>1. o # -1
      OBVIOUS
    <3> QED
      BY <2>3, <3>1 DEF Nowhere
  <2>5. SubSeq(text, o - Len(change.text) + 1, o) = change.text
    BY <2>1 DEF TypedEndsAt
  <2> QED
    BY <2>3, <2>4, <2>5
<1> QED
  BY <1>1, Inductive, PTL
===============================================================================
