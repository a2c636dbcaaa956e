---------------------------- MODULE ResolverProofs ----------------------------
(***************************************************************************)
(* Proofs about Resolver, for every set of documents and every size of the *)
(* machine's stack: a scope is there from the end of a signature to the    *)
(* end of its body, and what an initialiser or a body holds on to stays    *)
(* where it is when definitions are written before they are used.          *)
(*                                                                         *)
(* Definitions may need each other, so a task may be in progress twice,    *)
(* and be completed twice.  What saves the scopes is that a body is only   *)
(* ever begun by analyze_document itself: it is the first frame, and when  *)
(* it is complete no signature of it is in progress any more.              *)
(***************************************************************************)
EXTENDS Resolver, Minimum, SequenceTheorems, FiniteSetTheorems, TLAPS

(* The calls in progress: where each has got to in its text, and what it   *)
(* waits for.                                                              *)
Calls == [task : Tasks, held : Seq(Nat), next : Nat, pending : 0 .. Len(program)]
AsWritten(task) == Kind(task.of) = "function" <=> task.part # "definition"
Beginning(frame) ==
    frame.next = 0 => /\ frame.task.part = "body"
                      /\ frame.held = <<>> /\ frame.pending = frame.task.of
Reads(frame, t) ==
    frame.next > 0 =>
        /\ frame.next <= Len(t) + 1
        /\ Len(frame.held) = Open(t, frame.next - 1)
        /\ frame.task.part = "body" => Task("signature", frame.task.of) \in resolved
        /\ frame.pending # None =>
               /\ frame.next <= Len(t) /\ t[frame.next].form \in PathForms
               /\ t[frame.next].form = "through" \/ frame.pending = t[frame.next].of
               /\ frame.pending = t[frame.next].of \/ Needed(t[frame.next].of) \in resolved

(* An alias that has read its text has resolved what the text names.       *)
AliasRead(frame, t) ==
    Kind(frame.task.of) = "alias" /\ frame.next > 1 =>
        (Demanding(t[1].form, Kind(t[1].of)) => Needed(t[1].of) \in resolved)
Sound(frame) ==
    /\ AsWritten(frame.task) /\ Beginning(frame)
    /\ Reads(frame, Text(frame.task)) /\ AliasRead(frame, Text(frame.task))

Typed ==
    /\ program \in Programs
    /\ turn \in Nat \ {0} /\ constructors \in Nat /\ resolved \subseteq Tasks
    /\ stack \in Seq(Calls)
    /\ \A d \in DOMAIN meaning : d \in Definitions /\ meaning[d] \in 0 .. Len(program)
    /\ \A d \in Definitions :
          Kind(d) = "alias" /\ Task("definition", d) \in resolved => d \in DOMAIN meaning
Frames == \A i \in 1 .. Len(stack) :
              Sound(stack[i]) /\ (i > 1 => stack[i].task.part # "body")
Completed ==
    \A f \in Definitions : Task("body", f) \in resolved =>
        /\ Task("signature", f) \in resolved
        /\ \A i \in 1 .. Len(stack) : stack[i].task # Task("signature", f)
IInv == Typed /\ Frames /\ Completed /\ ScopeLastsUntilBody

(* When definitions are written before their uses, the calls in progress   *)
(* are those of one definition: a body and at most its own signature.      *)
OneDefinition ==
    /\ stack # <<>> => turn > 1 /\ stack[1].task = Entry(turn - 1)
    /\ Len(stack) > 1 => /\ Len(stack) = 2 /\ stack[1].next = 0
                         /\ stack[2].task = Task("signature", turn - 1)
    /\ phase = "warning" => stack = <<>>
    /\ phase = "resolving" =>
           \A d \in Definitions : d < turn => Entry(d) \in resolved \/ (stack # <<>> /\ d = turn - 1)
Backwards ==
    /\ \A d \in DOMAIN meaning : meaning[d] < d
    /\ \A i \in 1 .. Len(stack) : stack[i].next > 0 => stack[i].pending < stack[i].task.of
Fresh == /\ ~stale
         /\ \A i \in 1 .. Len(stack) :
               \A k \in 1 .. Len(stack[i].held) : stack[i].held[k] = constructors
Ordered == InOrder => OneDefinition /\ Backwards /\ Fresh

-----------------------------------------------------------------------------
(* Initialisers. *)

Being(t, form, i) == {k \in 1 .. i : t[k].form = form}
LEMMA BeingStep ==
    ASSUME NEW t, NEW form, NEW i \in Nat
    PROVE  /\ Cardinality(Being(t, form, i)) \in Nat
           /\ Cardinality(Being(t, form, i + 1))
              = Cardinality(Being(t, form, i)) + (IF t[i + 1].form = form THEN 1 ELSE 0)
<1>1. IsFiniteSet(Being(t, form, i)) /\ Cardinality(Being(t, form, i)) \in Nat
  <2>1. IsFiniteSet(1 .. i)
    BY FS_Interval
  <2>2. Being(t, form, i) \subseteq 1 .. i
    BY DEF Being
  <2>3. IsFiniteSet(Being(t, form, i))
    BY <2>1, <2>2, FS_Subset
  <2> QED
    BY <2>3, FS_CardinalityType
<1>2. CASE t[i + 1].form = form
  <2>1. Being(t, form, i + 1) = Being(t, form, i) \cup {i + 1}
    BY <1>2 DEF Being
  <2>2. i + 1 \notin Being(t, form, i)
    BY DEF Being
  <2> QED
    BY <1>1, <1>2, <2>1, <2>2, FS_AddElement
<1>3. CASE t[i + 1].form # form
  <2>1. Being(t, form, i + 1) = Being(t, form, i)
    BY <1>3 DEF Being
  <2> QED
    BY <1>1, <1>3, <2>1
<1> QED
  BY <1>2, <1>3

(* Each use opens an initialiser, ends one, or does neither. *)
LEMMA OpenStep ==
    ASSUME NEW t, NEW i \in Nat
    PROVE  /\ Open(t, i) \in Int
           /\ Open(t, i + 1) = CASE t[i + 1].form = "init" -> Open(t, i) + 1
                                 [] t[i + 1].form = "field" -> Open(t, i) - 1
                                 [] OTHER -> Open(t, i)
<1>1. \A n : Open(t, n) = Cardinality(Being(t, "init", n)) - Cardinality(Being(t, "field", n))
  BY DEF Open, Being
<1>2. PICK init, field : init = "init" /\ field = "field"
  OBVIOUS
<1>3. /\ Cardinality(Being(t, init, i)) \in Nat /\ Cardinality(Being(t, field, i)) \in Nat
      /\ Cardinality(Being(t, init, i + 1))
         = Cardinality(Being(t, init, i)) + (IF t[i + 1].form = init THEN 1 ELSE 0)
      /\ Cardinality(Being(t, field, i + 1))
         = Cardinality(Being(t, field, i)) + (IF t[i + 1].form = field THEN 1 ELSE 0)
  BY BeingStep
<1> QED
  BY <1>1, <1>2, <1>3

LEMMA OpenFirst == \A t : Open(t, 0) = 0
<1> SUFFICES ASSUME NEW t PROVE Open(t, 0) = 0
  OBVIOUS
<1>1. Being(t, "init", 0) = {} /\ Being(t, "field", 0) = {}
  BY DEF Being
<1>2. Cardinality({}) = 0
  BY FS_EmptySet
<1> QED
  BY <1>1, <1>2 DEF Open, Being

(* The end of an initialiser is found. *)
Match(t, i) ==
    CHOOSE j \in i .. Len(t) :
        /\ Open(t, j) = Open(t, i - 1)
        /\ \A m \in i .. j - 1 : Open(t, m) # Open(t, i - 1)
LEMMA MatchIsFound ==
    ASSUME NEW S, NEW t \in Seq(S), Nests(t), NEW i \in 1 .. Len(t), t[i].form = "init"
    PROVE  Match(t, i) \in i .. Len(t) /\ Open(t, Match(t, i)) = Open(t, i - 1)
<1>1. PICK n \in Nat : n = Len(t) /\ DOMAIN t = 1 .. n
  BY LenProperties
<1>2. PICK before \in Nat : before = Open(t, i - 1)
  <2>1. CASE i = 1
    BY <2>1, OpenFirst
  <2>2. CASE i # 1
    <3>1. i - 1 \in 1 .. n /\ i - 1 \in Nat
      BY <1>1, <2>2
    <3>2. Open(t, i - 1) \in Int /\ Open(t, i - 1) >= 0
      BY <1>1, <3>1, OpenStep DEF Nests
    <3> QED
      BY <3>2
  <2> QED
    BY <2>1, <2>2
<1> DEFINE Ends == {j \in i .. n : Open(t, j) <= before}
<1>3. \A j \in i .. n : j \in Nat /\ Open(t, j) \in Int
  <2> SUFFICES ASSUME NEW j \in i .. n PROVE j \in Nat /\ Open(t, j) \in Int
    OBVIOUS
  <2>1. j \in Nat
    BY <1>1
  <2> QED
    BY <2>1, OpenStep
<1>4. n \in Ends
  <2>1. Open(t, n) = 0 /\ n \in i .. n
    BY <1>1 DEF Nests
  <2> QED
    BY <1>2, <2>1
<1>5. Ends \subseteq Nat /\ Ends # {}
  BY <1>3, <1>4
<1>6. PICK j \in Ends : \A m \in Ends : j <= m
  BY <1>5, LeastNumber
<1>7. \A m \in i .. j - 1 : m \in i .. n /\ Open(t, m) > before
  <2> SUFFICES ASSUME NEW m \in i .. j - 1
               PROVE  m \in i .. n /\ Open(t, m) > before
    OBVIOUS
  <2>1. m \in i .. n /\ ~(j <= m)
    BY <1>1, <1>6
  <2>2. m \notin Ends
    BY <1>6, <2>1
  <2> QED
    BY <1>2, <1>3, <2>1, <2>2
<1>8. Open(t, i) = before + 1
  <2>1. i - 1 \in Nat /\ (i - 1) + 1 = i
    BY <1>1
  <2>2. Open(t, (i - 1) + 1) = Open(t, i - 1) + 1
    <3>1. t[(i - 1) + 1].form = "init"
      BY <2>1
    <3> QED
      BY <2>1, <3>1, OpenStep
  <2> QED
    BY <1>2, <2>1, <2>2
<1>9. Open(t, j) = before
  <2>1. j \in i .. n /\ Open(t, j) <= before /\ j # i /\ j \in Nat
    BY <1>2, <1>3, <1>6, <1>8
  <2>2. j - 1 \in i .. j - 1 /\ (j - 1) + 1 = j /\ j - 1 \in Nat
    BY <1>1, <2>1
  <2>3. Open(t, j - 1) > before /\ Open(t, j - 1) \in Int
    BY <1>3, <1>7, <2>2
  <2>4. Open(t, (j - 1) + 1) >= Open(t, j - 1) - 1
    BY <2>2, <2>3, OpenStep
  <2>5. Open(t, j) \in Int /\ Open(t, j) >= Open(t, j - 1) - 1
    BY <1>3, <2>1, <2>2, <2>4
  <2> QED
    BY <1>2, <2>1, <2>3, <2>5
<1>10. \E k \in i .. Len(t) : /\ Open(t, k) = Open(t, i - 1)
                              /\ \A m \in i .. k - 1 : Open(t, m) # Open(t, i - 1)
  <2>1. \A m \in i .. j - 1 : Open(t, m) # before
    BY <1>2, <1>3, <1>7
  <2>2. j \in i .. Len(t)
    BY <1>1, <1>6
  <2> QED
    BY <1>2, <1>9, <2>1, <2>2
<1> QED
  BY <1>10 DEF Match

-----------------------------------------------------------------------------
(* What is read. *)

LEMMA TextIsRead ==
    ASSUME program \in Programs, NEW task \in Tasks
    PROVE  /\ Text(task) \in Seq(Uses(Len(program))) /\ Nests(Text(task))
           /\ Len(Text(task)) \in Nat
           /\ task.of \in Definitions /\ task.part \in {"signature", "body", "definition"}
           /\ Kind(task.of) = "alias" /\ task.part # "signature" =>
                  Len(Text(task)) = 1 /\ Text(task)[1].form \in {"type", "value", "through"}
<1> DEFINE T == [kind : Kinds, signature : Seq(Uses(Len(program))),
                 uses : Seq(Uses(Len(program)))]
<1>1. WellFormed(program) /\ task.of \in Definitions
      /\ task.part \in {"signature", "body", "definition"}
  BY ProgramsAssumption DEF Tasks
<1>2. program \in Seq(T)
  BY <1>1 DEF WellFormed
<1>3. DOMAIN program = Definitions /\ Len(program) \in Nat
  BY <1>2, LenProperties DEF Definitions
<1>4. program[task.of] \in T
  <2>1. task.of \in 1 .. Len(program)
    BY <1>1 DEF Definitions
  <2> HIDE DEF T
  <2> QED
    BY <1>2, <2>1, ElementOfSeq
<1>5. /\ Nests(program[task.of].signature) /\ Nests(program[task.of].uses)
      /\ program[task.of].kind = "alias" =>
             /\ Len(program[task.of].uses) = 1
             /\ program[task.of].uses[1].form \in {"type", "value", "through"}
  BY <1>1, <1>3 DEF WellFormed
<1>6. Text(task) \in Seq(Uses(Len(program)))
  BY <1>4 DEF Text
<1>7. Len(Text(task)) \in Nat
  BY <1>6, LenProperties
<1> QED
  BY <1>1, <1>5, <1>6, <1>7 DEF Text, Kind

LEMMA UseIsRead ==
    ASSUME program \in Programs, NEW task \in Tasks, NEW i \in 1 .. Len(Text(task))
    PROVE  Text(task)[i].of \in Definitions /\ Text(task)[i] \in Uses(Len(program))
<1>1. Text(task) \in Seq(Uses(Len(program)))
  BY TextIsRead
<1>2. Text(task)[i] \in Uses(Len(program))
  BY <1>1, ElementOfSeq
<1> QED
  BY <1>2 DEF Uses, Definitions

(* The innermost call. *)
LEMMA TopIsSound ==
    ASSUME IInv, stack # <<>>
    PROVE  /\ Len(stack) \in Nat \ {0} /\ top \in Calls /\ Sound(top)
           /\ top = stack[Len(stack)] /\ top.task \in Tasks
           /\ \A i \in 1 .. Len(stack) : stack[i] \in Calls
<1>1. Len(stack) \in Nat \ {0}
  BY EmptySeq DEF IInv, Typed
<1>2. \A i \in 1 .. Len(stack) : stack[i] \in Calls
  BY ElementOfSeq DEF IInv, Typed
<1>3. Len(stack) \in 1 .. Len(stack)
  BY <1>1
<1> QED
  BY <1>1, <1>2, <1>3 DEF top, IInv, Frames, Calls

(* What is sound stays so, for what is remembered is not forgotten. *)
LEMMA SoundStays ==
    ASSUME program' = program, resolved \subseteq resolved', NEW CONSTANT frame, Sound(frame)
    PROVE  Sound(frame)'
<1>1. \A t : Text(t)' = Text(t)
  BY DEF Text
<1>2. \A d : Kind(d)' = Kind(d) /\ Needed(d)' = Needed(d)
  BY DEF Kind, Needed, Task
<1>3. AsWritten(frame.task)' /\ Beginning(frame)'
  BY <1>2 DEF Sound, AsWritten, Beginning
<1>4. Reads(frame, Text(frame.task))' /\ AliasRead(frame, Text(frame.task))'
  BY <1>1, <1>2 DEF Sound, Reads, AliasRead
<1> QED
  BY <1>3, <1>4 DEF Sound

(* Replacing the innermost frame, by one of the same task. *)
LEMMA ReplaceStack ==
    ASSUME IInv, stack # <<>>, NEW frame \in Calls, ReplaceTop(frame)
    PROVE  /\ stack' \in Seq(Calls) /\ Len(stack') = Len(stack) /\ stack' # <<>>
           /\ stack'[Len(stack)] = frame
           /\ \A i \in 1 .. Len(stack) : i # Len(stack) => stack'[i] = stack[i]
<1>1. stack \in Seq(Calls) /\ Len(stack) \in Nat \ {0} /\ Len(stack) \in 1 .. Len(stack)
  BY TopIsSound DEF IInv, Typed
<1>2. stack' = [stack EXCEPT ![Len(stack)] = frame]
  BY DEF ReplaceTop
<1>3. /\ stack' \in Seq(Calls) /\ Len(stack') = Len(stack)
      /\ \A i \in 1 .. Len(stack) : stack'[i] = IF i = Len(stack) THEN frame ELSE stack[i]
  BY <1>1, <1>2, ExceptSeq
<1>4. stack' # <<>>
  BY <1>1, <1>3, EmptySeq
<1> QED
  BY <1>1, <1>3, <1>4

LEMMA MoveIInv ==
    ASSUME IInv, stack # <<>>, NEW frame \in Calls, ReplaceTop(frame),
           frame.task = top.task, Sound(frame),
           UNCHANGED <<program, turn, resolved, meaning, scopes>>, constructors' = constructors
    PROVE  IInv'
<1>1. /\ stack' \in Seq(Calls) /\ Len(stack') = Len(stack)
      /\ stack'[Len(stack)] = frame
      /\ \A i \in 1 .. Len(stack) : i # Len(stack) => stack'[i] = stack[i]
  BY ReplaceStack
<1>2. \A d : Kind(d)' = Kind(d)
  BY DEF Kind
<1>3. Calls' = Calls /\ Definitions' = Definitions /\ Tasks' = Tasks
  BY DEF Calls, Definitions, Tasks
<1>4. Typed'
  BY <1>1, <1>2, <1>3 DEF IInv, Typed
<1>5. \A i \in 1 .. Len(stack) : stack'[i].task = stack[i].task
  BY <1>1 DEF top
<1>6. ASSUME NEW i \in 1 .. Len(stack)
      PROVE  Sound(stack[i])' /\ (i > 1 => stack'[i].task.part # "body")
  <2>1. PICK moved : moved = stack'[i]
    OBVIOUS
  <2>2. Sound(moved)
    BY <1>1, <2>1 DEF IInv, Frames
  <2>3. Sound(moved)'
    BY <2>2, SoundStays
  <2> QED
    BY <1>5, <2>1, <2>3 DEF IInv, Frames
<1>7. Frames'
  BY <1>1, <1>6 DEF Frames
<1>8. Completed'
  BY <1>1, <1>3, <1>5 DEF IInv, Completed, Task
<1>9. ScopeLastsUntilBody'
  BY <1>3 DEF IInv, ScopeLastsUntilBody, Task
<1> QED
  BY <1>4, <1>7, <1>8, <1>9 DEF IInv

(* Calling a resolution. *)
LEMMA FrameIsSound ==
    ASSUME Typed, NEW task \in Tasks, AsWritten(task)
    PROVE  Frame(task) \in Calls /\ Sound(Frame(task)) /\ Frame(task).task = task
<1>1. PICK frame : frame = Frame(task)
  OBVIOUS
<1>2. PICK empty \in Seq(Nat) : empty = <<>> /\ Len(empty) = 0
  BY EmptySeq
<1>3. /\ frame.task = task /\ frame.held = empty
      /\ frame.next = IF task.part = "body" THEN 0 ELSE 1
      /\ frame.pending = IF task.part = "body" THEN task.of ELSE None
      /\ frame = [task |-> task, held |-> empty, next |-> frame.next, pending |-> frame.pending]
  BY <1>1, <1>2 DEF Frame
<1>4. frame.next \in Nat /\ frame.pending \in 0 .. Len(program)
  <2>1. task.of \in 1 .. Len(program) /\ Len(program) \in Nat
    <3>1. program \in Programs
      BY DEF Typed
    <3>2. task.of \in Definitions
      BY <3>1, TextIsRead
    <3>3. Len(program) \in Nat
      BY <3>1, ProgramsAssumption, LenProperties DEF WellFormed
    <3> QED
      BY <3>2, <3>3 DEF Definitions
  <2> QED
    BY <1>3, <2>1 DEF None
<1>5. frame \in Calls
  BY <1>2, <1>3, <1>4 DEF Calls
<1>6. Beginning(frame)
  BY <1>2, <1>3 DEF Beginning
<1>7. Reads(frame, Text(task))
  <2>1. CASE task.part = "body"
    BY <1>3, <2>1 DEF Reads
  <2>2. CASE task.part # "body"
    <3>1. Len(Text(task)) \in Nat
      BY TextIsRead DEF Typed
    <3>2. Open(Text(task), 1 - 1) = 0
      BY OpenFirst
    <3> QED
      BY <1>2, <1>3, <2>2, <3>1, <3>2 DEF Reads
  <2> QED
    BY <2>1, <2>2
<1>8. AliasRead(frame, Text(task))
  BY <1>3 DEF AliasRead
<1> QED
  BY <1>1, <1>3, <1>5, <1>6, <1>7, <1>8 DEF Sound

LEMMA PushIInv ==
    ASSUME IInv, NEW task \in Tasks, AsWritten(task), stack' = Append(stack, Frame(task)),
           task.part = "body" => stack = <<>>,
           task.part = "signature" => task \notin resolved,
           UNCHANGED <<program, resolved, meaning, scopes>>, constructors' = constructors,
           turn' \in Nat \ {0}
    PROVE  /\ IInv' /\ Len(stack') = Len(stack) + 1 /\ stack'[Len(stack) + 1] = Frame(task)
           /\ \A i \in 1 .. Len(stack) : stack'[i] = stack[i]
<1>1. PICK n \in Nat : n = Len(stack)
  BY LenProperties DEF IInv, Typed
<1>2. PICK frame : frame = Frame(task)
  OBVIOUS
<1>3. frame \in Calls /\ Sound(frame) /\ frame.task = task
  BY <1>2, FrameIsSound DEF IInv
<1>4. /\ stack' \in Seq(Calls) /\ Len(stack') = n + 1 /\ stack'[n + 1] = frame
      /\ \A i \in 1 .. n : stack'[i] = stack[i]
  <2> DEFINE T == Calls
  <2>1. stack \in Seq(T) /\ frame \in T
    BY <1>3 DEF IInv, Typed
  <2> HIDE DEF T
  <2>2. /\ Append(stack, frame) \in Seq(T) /\ Len(Append(stack, frame)) = Len(stack) + 1
        /\ \A i \in 1 .. Len(stack) : Append(stack, frame)[i] = stack[i]
        /\ Append(stack, frame)[Len(stack) + 1] = frame
    BY <2>1, AppendProperties
  <2> QED
    BY <1>1, <1>2, <2>2, Zenon DEF T
<1>5. \A d : Kind(d)' = Kind(d)
  BY DEF Kind
<1>6. Calls' = Calls /\ Definitions' = Definitions /\ Tasks' = Tasks
  BY DEF Calls, Definitions, Tasks
<1>7. Typed'
  BY <1>4, <1>5, <1>6 DEF IInv, Typed
<1>8. \A i \in 1 .. n + 1 : i = n + 1 \/ i \in 1 .. n
  OBVIOUS
<1>9. ASSUME NEW i \in 1 .. n + 1
      PROVE  Sound(stack[i])' /\ (i > 1 => stack'[i].task.part # "body")
  <2>1. PICK one : one = stack'[i]
    OBVIOUS
  <2>2. Sound(one)
    BY <1>1, <1>3, <1>4, <1>8, <2>1 DEF IInv, Frames
  <2>3. Sound(one)'
    BY <2>2, SoundStays
  <2>4. i > 1 => one.task.part # "body"
    <3>1. CASE i = n + 1
      <4>1. i > 1 => stack # <<>>
        BY <1>1, <3>1
      <4> QED
        BY <1>3, <1>4, <2>1, <3>1, <4>1
    <3>2. CASE i \in 1 .. n
      BY <1>1, <1>4, <2>1, <3>2 DEF IInv, Frames
    <3> QED
      BY <1>8, <3>1, <3>2
  <2> QED
    BY <2>1, <2>3, <2>4
<1>10. Frames'
  BY <1>4, <1>9 DEF Frames
<1>11. Completed'
  <2> SUFFICES ASSUME NEW f \in Definitions, Task("body", f) \in resolved
               PROVE  /\ Task("signature", f) \in resolved
                      /\ \A i \in 1 .. n + 1 : stack'[i].task # Task("signature", f)
    BY <1>4, <1>6 DEF Completed, Task
  <2>1. /\ Task("signature", f) \in resolved
        /\ \A i \in 1 .. n : stack[i].task # Task("signature", f)
    BY <1>1 DEF IInv, Completed
  <2>2. Task("signature", f).part = "signature"
    BY DEF Task
  <2>3. frame.task # Task("signature", f)
    BY <1>3, <2>1, <2>2
  <2> QED
    BY <1>4, <1>8, <2>1, <2>3
<1>12. ScopeLastsUntilBody'
  BY <1>6 DEF IInv, ScopeLastsUntilBody, Task
<1> QED
  BY <1>1, <1>2, <1>4, <1>7, <1>10, <1>11, <1>12 DEF IInv

(* Returning from one. *)
LEMMA PopStack ==
    ASSUME IInv, stack # <<>>, Pop, program' = program, Remember
    PROVE  /\ stack' \in Seq(Calls) /\ Len(stack') = Len(stack) - 1
           /\ \A i \in 1 .. Len(stack) - 1 : stack'[i] = stack[i]
           /\ Len(stack) = 1 => stack' = <<>>
           /\ Frames'
<1>1. PICK n \in Nat \ {0} : n = Len(stack)
  BY TopIsSound
<1>2. /\ stack' \in Seq(Calls) /\ Len(stack') = n - 1
      /\ \A i \in 1 .. n - 1 : stack'[i] = stack[i]
  <2> DEFINE T == Calls
  <2>1. stack \in Seq(T) /\ 1 \in Int /\ n - 1 \in Int
    BY <1>1 DEF IInv, Typed
  <2> HIDE DEF T
  <2>2. stack' = SubSeq(stack, 1, n - 1)
    BY <1>1 DEF Pop
  <2>3. \A i \in 1 .. n - 1 : i \in 1 .. Len(stack)
    BY <1>1
  <2>4. /\ SubSeq(stack, 1, n - 1) \in Seq(T)
        /\ Len(SubSeq(stack, 1, n - 1)) = IF 1 <= n - 1 THEN (n - 1) - 1 + 1 ELSE 0
        /\ \A i \in 1 .. (n - 1) - 1 + 1 : SubSeq(stack, 1, n - 1)[i] = stack[1 + i - 1]
    BY <1>1, <2>1, SubSeqProperties
  <2>5. \A i \in 1 .. n - 1 : i \in 1 .. (n - 1) - 1 + 1 /\ 1 + i - 1 = i
    BY <1>1
  <2> QED
    BY <1>1, <2>2, <2>4, <2>5 DEF T
<1>3. n = 1 => stack' = <<>>
  BY <1>2, EmptySeq
<1>4. resolved \subseteq resolved'
  BY DEF Remember
<1>5. ASSUME NEW i \in 1 .. n - 1
      PROVE  Sound(stack[i])' /\ (i > 1 => stack'[i].task.part # "body")
  <2>1. PICK one : one = stack'[i]
    OBVIOUS
  <2>2. i \in 1 .. n /\ one = stack[i]
    BY <1>2, <2>1
  <2>3. Sound(one) /\ (i > 1 => one.task.part # "body")
    BY <1>1, <2>2 DEF IInv, Frames
  <2>4. Sound(one)'
    BY <1>4, <2>3, SoundStays
  <2> QED
    BY <2>1, <2>3, <2>4
<1>6. Frames'
  BY <1>2, <1>5 DEF Frames
<1> QED
  BY <1>1, <1>2, <1>3, <1>6

-----------------------------------------------------------------------------
(* Reading a text preserves the invariant. *)

(* Where the innermost call stands when it has read on to m. *)
ReadTo(m, held) == [task |-> top.task, held |-> held, next |-> m, pending |-> None]
LEMMA ReadOnIsSound ==
    ASSUME IInv, stack # <<>>, NEW m \in 1 .. Len(text) + 1,
           NEW held \in Seq(Nat), Len(held) = Open(text, m - 1),
           top.task.part = "body" => Task("signature", top.task.of) \in resolved,
           AliasRead(ReadTo(m, held), text)
    PROVE  ReadTo(m, held) \in Calls /\ Sound(ReadTo(m, held)) /\ ReadTo(m, held).task = top.task
<1>1. PICK frame : frame = ReadTo(m, held)
  OBVIOUS
<1>2. /\ frame = [task |-> top.task, held |-> held, next |-> m, pending |-> None]
      /\ frame.task = top.task /\ frame.held = held /\ frame.next = m /\ frame.pending = None
  BY <1>1 DEF ReadTo
<1>3. top.task \in Tasks /\ Sound(top) /\ program \in Programs
  BY TopIsSound DEF IInv, Typed
<1>4. Len(text) \in Nat /\ m \in Nat /\ m > 0 /\ m <= Len(text) + 1
  <2>1. Len(text) \in Nat
    BY <1>3, TextIsRead DEF text
  <2> QED
    BY <2>1
<1>5. None \in 0 .. Len(program)
  <2>1. Len(program) \in Nat
    BY <1>3, ProgramsAssumption, LenProperties DEF WellFormed
  <2> QED
    BY <2>1 DEF None
<1>6. frame \in Calls
  BY <1>2, <1>3, <1>4, <1>5 DEF Calls
<1>7. AsWritten(frame.task) /\ Beginning(frame)
  BY <1>2, <1>3, <1>4 DEF Sound, Beginning
<1>8. Reads(frame, text)
  BY <1>2, <1>4 DEF Reads
<1> QED
  BY <1>1, <1>2, <1>6, <1>7, <1>8 DEF Sound, text

(* The fields of a frame that has moved. *)
LEMMA MovedFrame ==
    ASSUME NEW frame \in Calls, NEW m
    PROVE  /\ frame = [task |-> frame.task, held |-> frame.held, next |-> frame.next,
                       pending |-> frame.pending]
           /\ [frame EXCEPT !.next = m] = [task |-> frame.task, held |-> frame.held,
                                           next |-> m, pending |-> frame.pending]
           /\ [frame EXCEPT !.next = m, !.pending = None]
              = [task |-> frame.task, held |-> frame.held, next |-> m, pending |-> None]
<1>1. frame = [task |-> frame.task, held |-> frame.held, next |-> frame.next,
               pending |-> frame.pending]
  BY DEF Calls
<1>2. PICK task, held, next, pending :
          frame = [task |-> task, held |-> held, next |-> next, pending |-> pending]
  BY <1>1
<1>3. frame.task = task /\ frame.held = held /\ frame.next = next /\ frame.pending = pending
  BY <1>2
<1>4. [frame EXCEPT !.next = m] = [task |-> task, held |-> held, next |-> m,
                                   pending |-> pending]
  BY <1>2
<1>5. PICK moved : moved = [task |-> task, held |-> held, next |-> m, pending |-> pending]
  OBVIOUS
<1>6. [frame EXCEPT !.next = m, !.pending = None] = [moved EXCEPT !.pending = None]
  BY <1>4, <1>5
<1>7. [moved EXCEPT !.pending = None]
      = [task |-> task, held |-> held, next |-> m, pending |-> None]
  BY <1>5
<1> QED
  BY <1>1, <1>3, <1>4, <1>6, <1>7

LEMMA WhenReading ==
    ASSUME IInv, Reading
    PROVE  /\ stack # <<>> /\ program \in Programs /\ top \in Calls /\ Sound(top)
           /\ top.task \in Tasks /\ top.pending = None
           /\ Len(text) \in Nat /\ top.next \in 1 .. Len(text) /\ top.next \in Nat \ {0}
           /\ use.of \in Definitions /\ Len(top.held) = Open(text, top.next - 1)
           /\ top.task.part = "body" => Task("signature", top.task.of) \in resolved
<1>1. stack # <<>> /\ top.pending = None /\ top.next <= Len(text)
  BY DEF Reading, Active
<1>2. top \in Calls /\ Sound(top) /\ top.task \in Tasks /\ program \in Programs
  BY <1>1, TopIsSound DEF IInv, Typed
<1>3. Len(text) \in Nat /\ top.next \in Nat /\ top.task.of \in Definitions
  BY <1>2, TextIsRead DEF text, Calls
<1>4. top.next # 0
  <2>1. top.task.of # None
    BY <1>3 DEF Definitions, None
  <2> QED
    BY <1>1, <1>2, <2>1 DEF Sound, Beginning
<1>5. top.next \in 1 .. Len(text) /\ top.next > 0
  BY <1>1, <1>3, <1>4
<1>6. use.of \in Definitions
  BY <1>2, <1>5, UseIsRead DEF use, text
<1>7. Reads(top, text)
  BY <1>2 DEF Sound, text
<1> QED
  BY <1>1, <1>2, <1>3, <1>4, <1>5, <1>6, <1>7 DEF Reads

LEMMA AliasHasOneUse ==
    ASSUME IInv, stack # <<>>, Kind(top.task.of) = "alias"
    PROVE  Len(text) = 1 /\ text[1].form \in {"type", "value", "through"}
<1>1. top.task \in Tasks /\ Sound(top) /\ program \in Programs
  BY TopIsSound DEF IInv, Typed
<1>2. top.task.part # "signature"
  BY <1>1 DEF Sound, AsWritten
<1> QED
  BY <1>1, <1>2, TextIsRead DEF text

LEMMA OpenMoves ==
    ASSUME NEW t, NEW i \in Nat \ {0}
    PROVE  /\ Open(t, i - 1) \in Int
           /\ Open(t, (i + 1) - 1) = CASE t[i].form = "init" -> Open(t, i - 1) + 1
                                       [] t[i].form = "field" -> Open(t, i - 1) - 1
                                       [] OTHER -> Open(t, i - 1)
<1>1. PICK before \in Nat : before = i - 1 /\ before + 1 = i /\ (i + 1) - 1 = i
  OBVIOUS
<1> QED
  BY <1>1, OpenStep

(* Where the text goes on after a path that has been dealt with. *)
LEMMA AfterIsFound ==
    ASSUME IInv, Reading, use.form \in PathForms
    PROVE  After \in 1 .. Len(text) + 1 /\ Open(text, After - 1) = Open(text, top.next - 1)
<1> DEFINE i == top.next
<1>1. /\ top.task \in Tasks /\ program \in Programs
      /\ Len(text) \in Nat /\ i \in 1 .. Len(text) /\ i \in Nat \ {0}
  BY WhenReading
<1>2. CASE use.form = "init"
  <2>1. After = Match(text, i) + 1
    BY <1>2 DEF After, Matching, Match
  <2>2. text \in Seq(Uses(Len(program))) /\ Nests(text)
    BY <1>1, TextIsRead DEF text
  <2>3. Match(text, i) \in i .. Len(text) /\ Open(text, Match(text, i)) = Open(text, i - 1)
    BY <1>1, <1>2, <2>2, MatchIsFound DEF use
  <2>4. PICK j \in i .. Len(text) : j = Match(text, i)
    BY <2>3
  <2>5. j + 1 \in 1 .. Len(text) + 1 /\ (j + 1) - 1 = j
    BY <1>1
  <2> QED
    BY <2>1, <2>3, <2>4, <2>5
<1>3. CASE use.form # "init"
  <2>1. After = i + 1 /\ After \in 1 .. Len(text) + 1
    BY <1>1, <1>3 DEF After
  <2>2. text[i].form # "init" /\ text[i].form # "field"
    BY <1>3 DEF use, PathForms
  <2> QED
    BY <1>1, <2>1, <2>2, OpenMoves
<1> QED
  BY <1>2, <1>3

LEMMA LookUpIInv ==
    ASSUME IInv, LookUp
    PROVE  IInv'
<1>1. /\ Reading /\ use.form \in PathForms
      /\ UNCHANGED <<program, turn, resolved, meaning, scopes>> /\ constructors' = constructors
  BY DEF LookUp
<1> DEFINE i == top.next
<1>2. /\ stack # <<>> /\ program \in Programs /\ top \in Calls /\ Sound(top)
      /\ top.task \in Tasks /\ top.pending = None
      /\ Len(text) \in Nat /\ i \in 1 .. Len(text) /\ i \in Nat \ {0}
      /\ use.of \in Definitions /\ Len(top.held) = Open(text, i - 1)
      /\ top.task.part = "body" => Task("signature", top.task.of) \in resolved
  BY <1>1, WhenReading
<1>3. CASE Demanding(use.form, Kind(use.of))
  <2>1. PICK frame : frame = [top EXCEPT !.pending = use.of]
    OBVIOUS
  <2>2. ReplaceTop(frame)
    BY <1>3, <2>1 DEF LookUp
  <2>3. use.of \in 0 .. Len(program) /\ use.of # None
    BY <1>2 DEF Definitions, None
  <2>4. /\ frame \in Calls /\ frame.task = top.task /\ frame.held = top.held
        /\ frame.next = i /\ frame.pending = use.of
    BY <1>2, <2>1, <2>3 DEF Calls
  <2>5. Sound(frame)
    <3>1. AsWritten(frame.task) /\ Beginning(frame) /\ AliasRead(frame, Text(frame.task))
      BY <1>2, <2>4 DEF Sound, Beginning, AliasRead
    <3>2. Reads(frame, text)
      BY <1>1, <1>2, <2>3, <2>4 DEF Reads, use
    <3> QED
      BY <2>4, <3>1, <3>2 DEF Sound, text
  <2> QED
    BY <1>1, <1>2, <2>2, <2>4, <2>5, MoveIInv
<1>4. CASE ~Demanding(use.form, Kind(use.of))
  <2>1. ReplaceTop([top EXCEPT !.next = After])
    BY <1>4 DEF LookUp
  <2>2. After \in 1 .. Len(text) + 1 /\ Open(text, After - 1) = Open(text, i - 1)
    BY <1>1, AfterIsFound
  <2>3. PICK m \in 1 .. Len(text) + 1 : m = After
    BY <2>2
  <2>4. [top EXCEPT !.next = After] = ReadTo(m, top.held)
    BY <1>2, <2>3, MovedFrame DEF ReadTo
  <2>5. top.held \in Seq(Nat)
    BY <1>2 DEF Calls
  <2>6. AliasRead(ReadTo(m, top.held), text)
    <3> SUFFICES ASSUME Kind(top.task.of) = "alias"
                 PROVE  ~Demanding(text[1].form, Kind(text[1].of))
      BY DEF AliasRead, ReadTo
    <3>1. Len(text) = 1
      BY <1>2, AliasHasOneUse
    <3>2. i = 1
      BY <1>2, <3>1
    <3> QED
      BY <1>4, <3>2 DEF use
  <2>7. /\ ReadTo(m, top.held) \in Calls /\ Sound(ReadTo(m, top.held))
        /\ ReadTo(m, top.held).task = top.task
    BY <1>2, <2>2, <2>3, <2>5, <2>6, ReadOnIsSound
  <2> QED
    BY <1>1, <1>2, <2>1, <2>4, <2>7, MoveIInv
<1> QED
  BY <1>3, <1>4

LEMMA UseParameterIInv ==
    ASSUME IInv, UseParameter
    PROVE  IInv'
<1>1. /\ Reading /\ use.form = "parameter"
      /\ UNCHANGED <<program, turn, resolved, meaning, scopes>> /\ constructors' = constructors
      /\ ReplaceTop([top EXCEPT !.next = @ + 1])
  BY DEF UseParameter
<1> DEFINE i == top.next
<1>2. /\ stack # <<>> /\ program \in Programs /\ top \in Calls /\ Sound(top)
      /\ top.pending = None
      /\ Len(text) \in Nat /\ i \in 1 .. Len(text) /\ i \in Nat \ {0}
      /\ Len(top.held) = Open(text, i - 1)
      /\ top.task.part = "body" => Task("signature", top.task.of) \in resolved
  BY <1>1, WhenReading
<1>3. PICK m \in 1 .. Len(text) + 1 : m = i + 1
  BY <1>2
<1>4. [top EXCEPT !.next = @ + 1] = ReadTo(m, top.held)
  BY <1>2, <1>3, MovedFrame DEF ReadTo
<1>5. Len(top.held) = Open(text, m - 1)
  BY <1>1, <1>2, <1>3, OpenMoves DEF use
<1>6. AliasRead(ReadTo(m, top.held), text)
  <2> SUFFICES ASSUME Kind(top.task.of) = "alias" PROVE FALSE
    BY DEF AliasRead, ReadTo
  <2>1. Len(text) = 1 /\ text[1].form \in {"type", "value", "through"}
    BY <1>2, AliasHasOneUse
  <2>2. i = 1
    BY <1>2, <2>1
  <2> QED
    BY <1>1, <2>1, <2>2 DEF use
<1>7. top.held \in Seq(Nat)
  BY <1>2 DEF Calls
<1>8. /\ ReadTo(m, top.held) \in Calls /\ Sound(ReadTo(m, top.held))
      /\ ReadTo(m, top.held).task = top.task
  BY <1>2, <1>5, <1>6, <1>7, ReadOnIsSound
<1> QED
  BY <1>1, <1>2, <1>4, <1>8, MoveIInv

(* What is asked for is a definition, and the call is at a path that asks, *)
(* or at the beginning of a body.                                          *)
LEMMA WhenPending ==
    ASSUME IInv, Pending
    PROVE  /\ stack # <<>> /\ program \in Programs /\ top \in Calls /\ Sound(top)
           /\ top.task \in Tasks /\ top.task.of \in Definitions /\ top.pending \in Definitions
           /\ Len(text) \in Nat /\ top.next \in Nat
           /\ top.next = 0 => /\ top.task.part = "body" /\ Kind(top.task.of) = "function"
                              /\ top.held = <<>> /\ top.pending = top.task.of
           /\ top.next # 0 =>
                  /\ top.next \in 1 .. Len(text) /\ top.next \in Nat \ {0}
                  /\ use.form \in PathForms /\ use.of \in Definitions
                  /\ Len(top.held) = Open(text, top.next - 1)
                  /\ top.task.part = "body" => Task("signature", top.task.of) \in resolved
                  /\ use.form = "through" \/ top.pending = use.of
                  /\ top.pending = use.of \/ Needed(use.of) \in resolved
<1>1. stack # <<>> /\ top.pending # None
  BY DEF Pending, Active
<1>2. top \in Calls /\ Sound(top) /\ top.task \in Tasks /\ program \in Programs
  BY <1>1, TopIsSound DEF IInv, Typed
<1>3. Len(text) \in Nat /\ top.next \in Nat /\ top.task.of \in Definitions
  BY <1>2, TextIsRead DEF text, Calls
<1>4. top.pending \in Definitions
  <2>1. top.pending \in 0 .. Len(program)
    BY <1>2 DEF Calls
  <2> QED
    BY <1>1, <2>1 DEF Definitions, None
<1>5. Beginning(top) /\ Reads(top, text) /\ AsWritten(top.task)
  BY <1>2 DEF Sound, text
<1>6. top.next = 0 => /\ top.task.part = "body" /\ Kind(top.task.of) = "function"
                      /\ top.held = <<>> /\ top.pending = top.task.of
  BY <1>5 DEF Beginning, AsWritten
<1>7. ASSUME top.next # 0
      PROVE  /\ top.next \in 1 .. Len(text) /\ top.next \in Nat \ {0}
             /\ use.form \in PathForms
             /\ Len(top.held) = Open(text, top.next - 1)
             /\ top.task.part = "body" => Task("signature", top.task.of) \in resolved
             /\ use.form = "through" \/ top.pending = use.of
             /\ top.pending = use.of \/ Needed(use.of) \in resolved
  <2>1. top.next > 0
    BY <1>3, <1>7
  <2> QED
    BY <1>1, <1>3, <1>5, <2>1 DEF Reads, use
<1>8. top.next # 0 => use.of \in Definitions
  BY <1>2, <1>7, UseIsRead DEF use, text
<1> QED
  BY <1>1, <1>2, <1>3, <1>4, <1>6, <1>7, <1>8

LEMMA ProceedIInv ==
    ASSUME IInv, Proceed
    PROVE  IInv'
<1>1. /\ Pending /\ Needed(top.pending) \in resolved /\ Asking \in {"body", "type", "value", "init"}
      /\ UNCHANGED <<program, turn, resolved, meaning, scopes>> /\ constructors' = constructors
      /\ Asking # "init" => ReplaceTop([top EXCEPT !.next = @ + 1, !.pending = None])
      /\ Asking = "init" => ReplaceTop([[top EXCEPT !.next = @ + 1, !.pending = None]
                                            EXCEPT !.held = Append(@, constructors)])
  BY DEF Proceed, Remembered
<1> DEFINE i == top.next
<1>2. /\ stack # <<>> /\ program \in Programs /\ top \in Calls /\ Sound(top)
      /\ top.task \in Tasks /\ top.task.of \in Definitions /\ top.pending \in Definitions
      /\ Len(text) \in Nat /\ i \in Nat
      /\ i = 0 => /\ top.task.part = "body" /\ Kind(top.task.of) = "function"
                  /\ top.held = <<>> /\ top.pending = top.task.of
      /\ i # 0 => /\ i \in 1 .. Len(text) /\ i \in Nat \ {0}
                  /\ use.form \in PathForms /\ use.of \in Definitions
                  /\ Len(top.held) = Open(text, i - 1)
                  /\ top.task.part = "body" => Task("signature", top.task.of) \in resolved
                  /\ use.form = "through" \/ top.pending = use.of
                  /\ top.pending = use.of \/ Needed(use.of) \in resolved
  BY <1>1, WhenPending
<1>3. PICK m \in 1 .. Len(text) + 1 : m = i + 1
  BY <1>2
<1>4. PICK done : done = [top EXCEPT !.next = @ + 1, !.pending = None]
  OBVIOUS
<1>5. done = ReadTo(m, top.held)
  BY <1>2, <1>3, <1>4, MovedFrame DEF ReadTo
<1>6. top.held \in Seq(Nat) /\ Len(top.held) \in Nat
  BY <1>2, LenProperties DEF Calls
<1>7. top.task.part = "body" => Task("signature", top.task.of) \in resolved
  <2>1. CASE i = 0
    BY <1>1, <1>2, <2>1 DEF Needed
  <2> QED
    BY <1>2, <2>1
<1>8. ASSUME NEW held PROVE AliasRead(ReadTo(m, held), text)
  <2> SUFFICES ASSUME Kind(top.task.of) = "alias"
               PROVE  Needed(text[1].of) \in resolved
    BY DEF AliasRead, ReadTo
  <2>1. Len(text) = 1 /\ text[1].form \in {"type", "value", "through"}
    BY <1>2, AliasHasOneUse
  <2>2. i # 0
    BY <1>2
  <2>3. i = 1
    BY <1>2, <2>1, <2>2
  <2> QED
    BY <1>1, <1>2, <2>2, <2>3 DEF use
<1>9. CASE Asking # "init"
  <2>1. Len(top.held) = Open(text, m - 1)
    <3>1. CASE i = 0
      <4>1. Len(top.held) = 0 /\ m - 1 = 0
        BY <1>2, <1>3, <3>1, EmptySeq
      <4> QED
        BY <4>1, OpenFirst
    <3>2. CASE i # 0
      BY <1>1, <1>2, <1>3, <1>9, <3>2, OpenMoves DEF use, Asking
    <3> QED
      BY <3>1, <3>2
  <2>2. /\ ReadTo(m, top.held) \in Calls /\ Sound(ReadTo(m, top.held))
        /\ ReadTo(m, top.held).task = top.task
    BY <1>2, <1>6, <1>7, <1>8, <2>1, ReadOnIsSound
  <2>3. ReplaceTop(done)
    BY <1>1, <1>4, <1>9
  <2> QED
    BY <1>1, <1>2, <1>5, <2>2, <2>3, MoveIInv
<1>10. CASE Asking = "init"
  <2>1. PICK held : held = Append(top.held, constructors)
    OBVIOUS
  <2>2. held \in Seq(Nat) /\ Len(held) = Len(top.held) + 1
    BY <1>6, <2>1, AppendProperties DEF IInv, Typed
  <2>3. done.held = top.held
    BY <1>5 DEF ReadTo
  <2>4. ReplaceTop([done EXCEPT !.held = held])
    BY <1>1, <1>4, <1>10, <2>1, <2>3
  <2>5. [done EXCEPT !.held = held] = ReadTo(m, held)
    BY <1>5 DEF ReadTo
  <2>6. i # 0 /\ use.form = "init"
    BY <1>10 DEF Asking
  <2>7. Len(held) = Open(text, m - 1)
    BY <1>2, <1>3, <2>2, <2>6, OpenMoves DEF use
  <2>8. /\ ReadTo(m, held) \in Calls /\ Sound(ReadTo(m, held))
        /\ ReadTo(m, held).task = top.task
    BY <1>2, <1>7, <1>8, <2>2, <2>7, ReadOnIsSound
  <2> QED
    BY <1>1, <1>2, <2>4, <2>5, <2>8, MoveIInv
<1> QED
  BY <1>9, <1>10

LEMMA ProceedThroughIInv ==
    ASSUME IInv, ProceedThrough
    PROVE  IInv'
<1> DEFINE i == top.next
           d == top.pending
           means == [top EXCEPT !.pending = meaning[d]]
<1>1. /\ Pending /\ Needed(d) \in resolved /\ Asking = "through"
      /\ UNCHANGED <<program, turn, resolved, meaning, scopes>> /\ constructors' = constructors
  BY DEF ProceedThrough, Remembered
<1>2. \/ ReplaceTop([top EXCEPT !.next = @ + 1, !.pending = None])
      \/ Kind(d) = "alias" /\ meaning[d] # None /\ ReplaceTop(means)
  <2>1. CASE Kind(d) = "enumeration"
    BY <2>1 DEF ProceedThrough
  <2>2. CASE Kind(d) # "enumeration" /\ Kind(d) = "alias" /\ meaning[d] # None
    BY <2>2 DEF ProceedThrough
  <2>3. CASE Kind(d) # "enumeration" /\ ~(Kind(d) = "alias" /\ meaning[d] # None)
    BY <2>3 DEF ProceedThrough
  <2> QED
    BY <2>1, <2>2, <2>3
<1>3. i # 0 /\ use.form = "through"
  BY <1>1 DEF Asking
<1>4. /\ stack # <<>> /\ program \in Programs /\ top \in Calls /\ Sound(top)
      /\ top.task \in Tasks /\ d \in Definitions
      /\ Len(text) \in Nat /\ i \in 1 .. Len(text) /\ i \in Nat \ {0}
      /\ Len(top.held) = Open(text, i - 1)
      /\ top.task.part = "body" => Task("signature", top.task.of) \in resolved
      /\ d = use.of \/ Needed(use.of) \in resolved
  BY <1>1, <1>3, WhenPending
<1>5. Needed(use.of) \in resolved
  BY <1>1, <1>4
<1>6. CASE ReplaceTop([top EXCEPT !.next = @ + 1, !.pending = None])
  <2>1. PICK m \in 1 .. Len(text) + 1 : m = i + 1
    BY <1>4
  <2>2. [top EXCEPT !.next = @ + 1, !.pending = None] = ReadTo(m, top.held)
    BY <1>4, <2>1, MovedFrame DEF ReadTo
  <2>3. Len(top.held) = Open(text, m - 1)
    BY <1>3, <1>4, <2>1, OpenMoves DEF use
  <2>4. AliasRead(ReadTo(m, top.held), text)
    <3> SUFFICES ASSUME Kind(top.task.of) = "alias"
                 PROVE  Needed(text[1].of) \in resolved
      BY DEF AliasRead, ReadTo
    <3>1. Len(text) = 1
      BY <1>4, AliasHasOneUse
    <3>2. i = 1
      BY <1>4, <3>1
    <3> QED
      BY <1>5, <3>2 DEF use
  <2>5. top.held \in Seq(Nat)
    BY <1>4 DEF Calls
  <2>6. /\ ReadTo(m, top.held) \in Calls /\ Sound(ReadTo(m, top.held))
        /\ ReadTo(m, top.held).task = top.task
    BY <1>4, <2>3, <2>4, <2>5, ReadOnIsSound
  <2> QED
    BY <1>1, <1>4, <1>6, <2>2, <2>6, MoveIInv
<1>7. CASE Kind(d) = "alias" /\ meaning[d] # None /\ ReplaceTop(means)
  <2>1. meaning[d] \in 0 .. Len(program)
    <3>1. Needed(d) = Task("definition", d)
      BY <1>7 DEF Needed
    <3> QED
      BY <1>1, <1>4, <1>7, <3>1 DEF IInv, Typed
  <2>2. PICK frame : frame = means
    OBVIOUS
  <2>3. /\ frame \in Calls /\ frame.task = top.task /\ frame.held = top.held
        /\ frame.next = i /\ frame.pending = meaning[d]
    BY <1>4, <2>1, <2>2 DEF Calls
  <2>4. AsWritten(frame.task) /\ Beginning(frame) /\ AliasRead(frame, Text(frame.task))
    BY <1>3, <1>4, <2>3 DEF Sound, Beginning, AliasRead
  <2>5. Reads(frame, text)
    BY <1>3, <1>4, <1>5, <2>3 DEF Reads, use, PathForms
  <2>6. Sound(frame)
    BY <2>3, <2>4, <2>5 DEF Sound, text
  <2> QED
    BY <1>1, <1>4, <1>7, <2>2, <2>3, <2>6, MoveIInv
<1> QED
  BY <1>2, <1>6, <1>7

LEMMA ReadFieldIInv ==
    ASSUME IInv, ReadField
    PROVE  /\ IInv' /\ Len(top.held) \in Nat \ {0}
           /\ SubSeq(top.held, 1, Len(top.held) - 1) \in Seq(Nat)
           /\ Len(SubSeq(top.held, 1, Len(top.held) - 1)) = Len(top.held) - 1
           /\ \A k \in 1 .. Len(top.held) - 1 :
                  SubSeq(top.held, 1, Len(top.held) - 1)[k] = top.held[k]
<1> DEFINE i == top.next
           rest == SubSeq(top.held, 1, Len(top.held) - 1)
<1>1. /\ Reading /\ use.form = "field"
      /\ UNCHANGED <<program, turn, resolved, meaning, scopes>> /\ constructors' = constructors
      /\ ReplaceTop([top EXCEPT !.next = @ + 1, !.held = SubSeq(@, 1, Len(top.held) - 1)])
  BY DEF ReadField
<1>2. /\ stack # <<>> /\ program \in Programs /\ top \in Calls /\ Sound(top)
      /\ top.task \in Tasks /\ top.pending = None
      /\ Len(text) \in Nat /\ i \in 1 .. Len(text) /\ i \in Nat \ {0}
      /\ Len(top.held) = Open(text, i - 1)
      /\ top.task.part = "body" => Task("signature", top.task.of) \in resolved
  BY <1>1, WhenReading
<1>3. PICK m \in 1 .. Len(text) + 1 : m = i + 1
  BY <1>2
<1>4. top.held \in Seq(Nat)
  BY <1>2 DEF Calls
<1>5. Open(text, m - 1) = Len(top.held) - 1 /\ m - 1 = i
  BY <1>1, <1>2, <1>3, OpenMoves DEF use
<1>6. Open(text, i) >= 0
  <2>1. text \in Seq(Uses(Len(program))) /\ Nests(text)
    BY <1>2, TextIsRead DEF text
  <2>2. i \in DOMAIN text
    BY <1>2, <2>1, LenProperties
  <2> QED
    BY <2>1, <2>2 DEF Nests
<1>7. PICK n \in Nat \ {0} : n = Len(top.held)
  <2>1. Len(top.held) \in Nat
    BY <1>4, LenProperties
  <2>2. Len(top.held) # 0
    BY <1>5, <1>6
  <2> QED
    BY <2>1, <2>2
<1>8. /\ rest \in Seq(Nat) /\ Len(rest) = n - 1
      /\ \A k \in 1 .. n - 1 : rest[k] = top.held[k]
  <2>1. PICK held \in Seq(Nat) : held = top.held
    BY <1>4
  <2>2. \A k \in 1 .. n - 1 : k \in 1 .. Len(held)
    BY <1>7, <2>1
  <2>3. /\ SubSeq(held, 1, n - 1) \in Seq(Nat)
        /\ Len(SubSeq(held, 1, n - 1)) = IF 1 <= n - 1 THEN (n - 1) - 1 + 1 ELSE 0
        /\ \A k \in 1 .. (n - 1) - 1 + 1 : SubSeq(held, 1, n - 1)[k] = held[1 + k - 1]
    <3>1. \A k \in 1 .. n - 1 : held[k] \in Nat
      BY <2>1, <2>2, ElementOfSeq
    <3> QED
      BY <1>7, <2>1, <2>2, <3>1, SubSeqProperties
  <2>4. \A k \in 1 .. n - 1 : k \in 1 .. (n - 1) - 1 + 1 /\ 1 + k - 1 = k
    OBVIOUS
  <2> QED
    BY <1>7, <2>1, <2>3, <2>4
<1>9. [top EXCEPT !.next = @ + 1, !.held = SubSeq(@, 1, Len(top.held) - 1)] = ReadTo(m, rest)
  <2>1. PICK kept : kept = rest
    OBVIOUS
  <2>2. PICK done : done = [top EXCEPT !.next = m]
    OBVIOUS
  <2>3. done = [task |-> top.task, held |-> top.held, next |-> m, pending |-> top.pending]
    BY <1>2, <2>2, MovedFrame
  <2>4. [done EXCEPT !.held = kept]
        = [task |-> top.task, held |-> kept, next |-> m, pending |-> top.pending]
    BY <2>3
  <2>5. [top EXCEPT !.next = @ + 1, !.held = SubSeq(@, 1, Len(top.held) - 1)]
        = [done EXCEPT !.held = kept]
    BY <1>3, <2>1, <2>2
  <2> QED
    BY <1>2, <2>1, <2>4, <2>5 DEF ReadTo
<1>10. AliasRead(ReadTo(m, rest), text)
  <2> SUFFICES ASSUME Kind(top.task.of) = "alias" PROVE FALSE
    BY DEF AliasRead, ReadTo
  <2>1. Len(text) = 1 /\ text[1].form \in {"type", "value", "through"}
    BY <1>2, AliasHasOneUse
  <2>2. i = 1
    BY <1>2, <2>1
  <2> QED
    BY <1>1, <2>1, <2>2 DEF use
<1>11. /\ ReadTo(m, rest) \in Calls /\ Sound(ReadTo(m, rest))
       /\ ReadTo(m, rest).task = top.task
  BY <1>2, <1>5, <1>7, <1>8, <1>10, ReadOnIsSound
<1>12. IInv'
  BY <1>1, <1>2, <1>9, <1>11, MoveIInv
<1> QED
  BY <1>7, <1>8, <1>12

-----------------------------------------------------------------------------
(* Calling and returning preserve the invariant. *)

LEMMA SameIInv ==
    ASSUME IInv, UNCHANGED <<program, stack, resolved, meaning, scopes>>,
           constructors' = constructors, turn' \in Nat \ {0}
    PROVE  IInv'
<1>1. \A d : Kind(d)' = Kind(d)
  BY DEF Kind
<1>2. Calls' = Calls /\ Definitions' = Definitions /\ Tasks' = Tasks
  BY DEF Calls, Definitions, Tasks
<1>3. Typed'
  BY <1>1, <1>2 DEF IInv, Typed
<1>4. ASSUME NEW i \in 1 .. Len(stack)
      PROVE  Sound(stack[i])' /\ (i > 1 => stack'[i].task.part # "body")
  <2>1. PICK one : one = stack'[i]
    OBVIOUS
  <2>2. Sound(one) /\ (i > 1 => one.task.part # "body")
    BY <2>1 DEF IInv, Frames
  <2>3. Sound(one)'
    BY <2>2, SoundStays
  <2> QED
    BY <2>1, <2>2, <2>3
<1>5. Frames'
  BY <1>4 DEF Frames
<1>6. Completed' /\ ScopeLastsUntilBody'
  BY <1>2 DEF IInv, Completed, ScopeLastsUntilBody, Task
<1> QED
  BY <1>3, <1>5, <1>6 DEF IInv

(* What a path or the first loop asks for is written in the text. *)
LEMMA NeededIsWritten ==
    ASSUME NEW d \in Definitions
    PROVE  /\ Needed(d) \in Tasks /\ AsWritten(Needed(d)) /\ Needed(d).part # "body"
           /\ Entry(d) \in Tasks /\ AsWritten(Entry(d)) /\ Entry(d).part # "signature"
           /\ Needed(d).of = d /\ Entry(d).of = d
<1>1. CASE Kind(d) = "function"
  BY <1>1 DEF Needed, Entry, Task, Tasks, AsWritten
<1>2. CASE Kind(d) # "function"
  BY <1>2 DEF Needed, Entry, Task, Tasks, AsWritten
<1> QED
  BY <1>1, <1>2

LEMMA CallIInv ==
    ASSUME IInv, Call
    PROVE  IInv'
<1>1. /\ Pending /\ Needed(top.pending) \notin resolved /\ Push(Needed(top.pending))
      /\ UNCHANGED <<program, turn, resolved, meaning, scopes>> /\ constructors' = constructors
  BY DEF Call
<1>2. top.pending \in Definitions
  BY <1>1, WhenPending
<1>3. turn' \in Nat \ {0}
  BY <1>1 DEF IInv, Typed
<1>4. CASE Len(stack) = MaxDepth
  <2>1. stack' = stack
    BY <1>1, <1>4 DEF Push
  <2> QED
    BY <1>1, <1>3, <2>1, SameIInv
<1>5. CASE Len(stack) # MaxDepth
  <2>1. stack' = Append(stack, Frame(Needed(top.pending)))
    BY <1>1, <1>5 DEF Push
  <2>2. PICK task \in Tasks : /\ task = Needed(top.pending) /\ AsWritten(task)
                              /\ task.part # "body"
    BY <1>2, NeededIsWritten
  <2> QED
    BY <1>1, <1>3, <2>1, <2>2, PushIInv
<1> QED
  BY <1>4, <1>5

LEMMA ResolveSymbolIInv ==
    ASSUME IInv, ResolveSymbol
    PROVE  IInv'
<1>1. /\ stack = <<>> /\ turn <= Len(program) /\ turn' = turn + 1
      /\ IF Entry(turn) \in resolved THEN UNCHANGED <<phase, stack>> ELSE Push(Entry(turn))
      /\ UNCHANGED <<program, resolved, meaning, scopes>> /\ constructors' = constructors
  BY DEF ResolveSymbol
<1>2. turn \in Nat \ {0} /\ turn \in Definitions /\ turn' \in Nat \ {0}
  <2>1. Len(program) \in Nat
    BY ProgramsAssumption, LenProperties DEF WellFormed, IInv, Typed
  <2> QED
    BY <1>1, <2>1 DEF IInv, Typed, Definitions
<1>3. CASE stack' = stack
  BY <1>1, <1>2, <1>3, SameIInv
<1>4. CASE stack' # stack
  <2>1. stack' = Append(stack, Frame(Entry(turn)))
    BY <1>1, <1>4 DEF Push
  <2>2. PICK task \in Tasks : /\ task = Entry(turn) /\ AsWritten(task)
                              /\ task.part # "signature"
    BY <1>2, NeededIsWritten
  <2> QED
    BY <1>1, <1>2, <2>1, <2>2, PushIInv
<1> QED
  BY <1>3, <1>4

(* The innermost call has read its whole text. *)
LEMMA WhenReturning ==
    ASSUME IInv, NEW part, Returning(part), Pop, Remember, program' = program
    PROVE  /\ stack # <<>> /\ top \in Calls /\ Sound(top) /\ program \in Programs
           /\ top.task = Task(part, top.task.of) /\ top.task \in Tasks
           /\ top.task.of \in Definitions /\ Len(text) \in Nat
           /\ top.next \in Nat \ {0} /\ top.next > Len(text) /\ top.pending = None
           /\ resolved' = resolved \cup {Task(part, top.task.of)} /\ resolved' \subseteq Tasks
           /\ stack' \in Seq(Calls) /\ Len(stack) \in Nat \ {0} /\ Len(stack') = Len(stack) - 1
           /\ \A i \in 1 .. Len(stack) - 1 : stack'[i] = stack[i]
           /\ Len(stack) = 1 => stack' = <<>>
           /\ Frames'
<1>1. stack # <<>> /\ top.pending = None /\ top.next > Len(text) /\ top.task.part = part
  BY DEF Returning, Active
<1>2. /\ top \in Calls /\ Sound(top) /\ top.task \in Tasks /\ program \in Programs
      /\ Len(stack) \in Nat \ {0}
  BY <1>1, TopIsSound DEF IInv, Typed
<1>3. Len(text) \in Nat /\ top.next \in Nat /\ top.task.of \in Definitions
  BY <1>2, TextIsRead DEF text, Calls
<1>4. top.task = Task(part, top.task.of)
  BY <1>1, <1>2 DEF Task, Tasks
<1>5. resolved' = resolved \cup {top.task}
  BY DEF Remember
<1>6. resolved' \subseteq Tasks
  BY <1>2, <1>5 DEF IInv, Typed
<1>7. /\ stack' \in Seq(Calls) /\ Len(stack') = Len(stack) - 1
      /\ \A i \in 1 .. Len(stack) - 1 : stack'[i] = stack[i]
      /\ Len(stack) = 1 => stack' = <<>>
      /\ Frames'
  BY <1>1, PopStack
<1>8. top.next \in Nat \ {0}
  BY <1>1, <1>3
<1> QED
  BY <1>1, <1>2, <1>3, <1>4, <1>5, <1>6, <1>7, <1>8

LEMMA ReturnSignatureIInv ==
    ASSUME IInv, ReturnSignature
    PROVE  IInv'
<1> DEFINE f == top.task.of
<1>1. /\ Returning("signature") /\ Pop /\ Remember /\ scopes' = scopes \cup {f}
      /\ UNCHANGED <<program, turn, meaning, constructors>>
  BY DEF ReturnSignature
<1>2. /\ stack # <<>> /\ top.task = Task("signature", f) /\ f \in Definitions
      /\ resolved' = resolved \cup {Task("signature", f)} /\ resolved' \subseteq Tasks
      /\ stack' \in Seq(Calls) /\ Len(stack) \in Nat \ {0} /\ Len(stack') = Len(stack) - 1
      /\ \A i \in 1 .. Len(stack) - 1 : stack'[i] = stack[i]
      /\ Frames'
  BY <1>1, WhenReturning
<1>3. /\ Calls' = Calls /\ Definitions' = Definitions /\ Tasks' = Tasks
      /\ \A d : Kind(d)' = Kind(d)
  BY <1>1 DEF Calls, Definitions, Tasks, Kind
<1>4. \A g : /\ Task("definition", g) \in resolved' <=> Task("definition", g) \in resolved
             /\ Task("body", g) \in resolved' <=> Task("body", g) \in resolved
             /\ Task("signature", g) \in resolved' <=> Task("signature", g) \in resolved \/ g = f
  BY <1>2 DEF Task
<1>5. Typed'
  BY <1>1, <1>2, <1>3, <1>4 DEF IInv, Typed, Task
<1>6. Task("body", f) \notin resolved
  <2>1. top = stack[Len(stack)] /\ Len(stack) \in 1 .. Len(stack)
    BY <1>2 DEF top
  <2> QED
    BY <1>2, <2>1 DEF IInv, Completed
<1>7. Completed'
  <2>1. \A i \in 1 .. Len(stack) - 1 : i \in 1 .. Len(stack)
    BY <1>2
  <2> QED
    BY <1>2, <1>3, <1>4, <2>1 DEF IInv, Completed, Task
<1>8. ScopeLastsUntilBody'
  BY <1>1, <1>3, <1>4, <1>6 DEF IInv, ScopeLastsUntilBody, Task
<1> QED
  BY <1>2, <1>5, <1>7, <1>8 DEF IInv

(* A body is the only call in progress when it returns. *)
LEMMA ReturnBodyIInv ==
    ASSUME IInv, ReturnBody
    PROVE  IInv' /\ stack' = <<>>
<1> DEFINE f == top.task.of
<1>1. /\ Returning("body") /\ Pop /\ Remember /\ scopes' = scopes \ {f}
      /\ UNCHANGED <<program, turn, meaning, constructors>>
  BY DEF ReturnBody
<1>2. /\ stack # <<>> /\ top.task = Task("body", f) /\ f \in Definitions /\ Sound(top)
      /\ top.next \in Nat \ {0}
      /\ resolved' = resolved \cup {Task("body", f)} /\ resolved' \subseteq Tasks
      /\ stack' \in Seq(Calls) /\ Len(stack) \in Nat \ {0}
      /\ Len(stack) = 1 => stack' = <<>>
      /\ Frames'
  BY <1>1, WhenReturning
<1>3. /\ Calls' = Calls /\ Definitions' = Definitions /\ Tasks' = Tasks
      /\ \A d : Kind(d)' = Kind(d)
  BY <1>1 DEF Calls, Definitions, Tasks, Kind
<1>4. \A g : /\ Task("definition", g) \in resolved' <=> Task("definition", g) \in resolved
             /\ Task("signature", g) \in resolved' <=> Task("signature", g) \in resolved
             /\ Task("body", g) \in resolved' <=> Task("body", g) \in resolved \/ g = f
  BY <1>2 DEF Task
<1>5. Typed'
  BY <1>1, <1>2, <1>3, <1>4 DEF IInv, Typed, Task
<1>6. stack' = <<>>
  <2>1. stack[Len(stack)].task.part = "body"
    BY <1>2 DEF top, Task
  <2>2. Len(stack) \in 1 .. Len(stack)
    BY <1>2
  <2>3. ~(Len(stack) > 1)
    BY <2>1, <2>2 DEF IInv, Frames
  <2>4. PICK n \in Nat \ {0} : n = Len(stack)
    BY <1>2
  <2>5. Len(stack) = 1
    BY <2>3, <2>4
  <2> QED
    BY <1>2, <2>5, Zenon
<1>7. Task("signature", f) \in resolved
  <2>1. Reads(top, Text(top.task)) /\ top.next > 0 /\ top.task.part = "body"
    BY <1>2 DEF Sound, Task
  <2> QED
    BY <2>1 DEF Reads
<1>8. Completed'
  <2>1. Len(stack') = 0
    BY <1>6, EmptySeq
  <2>2. \A i \in 1 .. Len(stack') : FALSE
    BY <2>1
  <2> QED
    BY <1>3, <1>4, <1>7, <2>2 DEF IInv, Completed, Task
<1>9. ScopeLastsUntilBody'
  BY <1>1, <1>3, <1>4 DEF IInv, ScopeLastsUntilBody, Task
<1> QED
  BY <1>2, <1>5, <1>6, <1>8, <1>9 DEF IInv

(* The type an alias stands for is known once its text has been read. *)
LEMMA MeaningIsKnown ==
    ASSUME IInv, stack # <<>>, Kind(top.task.of) = "alias", top.next > Len(text)
    PROVE  /\ text[1].of \in Definitions /\ TypeOf(text[1]) \in 0 .. Len(program)
           /\ \/ TypeOf(text[1]) \in {None, text[1].of}
              \/ text[1].of \in DOMAIN meaning /\ TypeOf(text[1]) = meaning[text[1].of]
<1> DEFINE u == text[1]
<1>1. Len(text) = 1 /\ u.form \in {"type", "value", "through"}
  BY AliasHasOneUse
<1>2. top.task \in Tasks /\ program \in Programs /\ Sound(top) /\ 1 \in 1 .. Len(text)
  BY <1>1, TopIsSound DEF IInv, Typed
<1>3. u.of \in Definitions
  BY <1>2, UseIsRead DEF text
<1>4. Len(program) \in Nat
  BY <1>2, ProgramsAssumption, LenProperties DEF WellFormed
<1>5. u.of \in 0 .. Len(program) /\ None \in 0 .. Len(program)
  BY <1>3, <1>4 DEF Definitions, None
<1>6. Demanding(u.form, Kind(u.of)) => Needed(u.of) \in resolved
  <2>1. AliasRead(top, text) /\ top.next > 1
    BY <1>1, <1>2 DEF Sound, text
  <2> QED
    BY <2>1 DEF AliasRead
<1>7. CASE TypeOf(u) \in {None, u.of}
  BY <1>3, <1>5, <1>7
<1>8. CASE TypeOf(u) \notin {None, u.of}
  <2>1. /\ TypeOf(u) = Owner(u.of) /\ Owner(u.of) # u.of
        /\ \/ u.form = "type"
           \/ u.form = "through"
    BY <1>1, <1>8 DEF TypeOf
  <2>2. Kind(u.of) = "alias" /\ Owner(u.of) = meaning[u.of]
    BY <2>1 DEF Owner
  <2>3. Task("definition", u.of) \in resolved
    BY <1>6, <2>1, <2>2 DEF Demanding, Needed
  <2>4. u.of \in DOMAIN meaning
    BY <1>3, <2>2, <2>3 DEF IInv, Typed
  <2>5. meaning[u.of] \in 0 .. Len(program)
    BY <2>4 DEF IInv, Typed
  <2> QED
    BY <1>3, <2>1, <2>2, <2>4, <2>5
<1> QED
  BY <1>7, <1>8

LEMMA ReturnDefinitionIInv ==
    ASSUME IInv, ReturnDefinition
    PROVE  IInv'
<1> DEFINE d == top.task.of
<1>1. /\ Returning("definition") /\ Pop /\ Remember /\ UNCHANGED <<program, turn, scopes>>
      /\ constructors' = IF Kind(d) \in {"structure", "enumeration"}
                         THEN constructors + 1 ELSE constructors
      /\ meaning' = IF Kind(d) = "alias"
                    THEN [a \in DOMAIN meaning \cup {d} |->
                             IF a = d THEN TypeOf(text[1]) ELSE meaning[a]]
                    ELSE meaning
  BY DEF ReturnDefinition
<1>2. /\ stack # <<>> /\ top.task = Task("definition", d) /\ d \in Definitions
      /\ top.next > Len(text)
      /\ resolved' = resolved \cup {Task("definition", d)} /\ resolved' \subseteq Tasks
      /\ stack' \in Seq(Calls) /\ Len(stack) \in Nat \ {0} /\ Len(stack') = Len(stack) - 1
      /\ \A i \in 1 .. Len(stack) - 1 : stack'[i] = stack[i]
      /\ Frames'
  BY <1>1, WhenReturning
<1>3. /\ Calls' = Calls /\ Definitions' = Definitions /\ Tasks' = Tasks
      /\ \A e : Kind(e)' = Kind(e)
  BY <1>1 DEF Calls, Definitions, Tasks, Kind
<1>4. \A g : /\ Task("signature", g) \in resolved' <=> Task("signature", g) \in resolved
             /\ Task("body", g) \in resolved' <=> Task("body", g) \in resolved
             /\ Task("definition", g) \in resolved'
                <=> Task("definition", g) \in resolved \/ g = d
  BY <1>2 DEF Task
<1>5. \A a \in DOMAIN meaning' : a \in Definitions /\ meaning'[a] \in 0 .. Len(program)
  <2>1. CASE Kind(d) = "alias"
    <3>1. TypeOf(text[1]) \in 0 .. Len(program)
      BY <1>2, <2>1, MeaningIsKnown
    <3> QED
      BY <1>1, <1>2, <2>1, <3>1 DEF IInv, Typed
  <2>2. CASE Kind(d) # "alias"
    BY <1>1, <2>2 DEF IInv, Typed
  <2> QED
    BY <2>1, <2>2
<1>6. \A g \in Definitions :
          Kind(g) = "alias" /\ Task("definition", g) \in resolved' => g \in DOMAIN meaning'
  <2>1. CASE Kind(d) = "alias"
    BY <1>1, <1>4, <2>1 DEF IInv, Typed
  <2>2. CASE Kind(d) # "alias"
    BY <1>1, <1>4, <2>2 DEF IInv, Typed
  <2> QED
    BY <2>1, <2>2
<1>7. constructors' \in Nat
  BY <1>1 DEF IInv, Typed
<1>8. Typed'
  BY <1>1, <1>2, <1>3, <1>5, <1>6, <1>7 DEF IInv, Typed, Task
<1>9. Completed'
  <2>1. \A i \in 1 .. Len(stack) - 1 : i \in 1 .. Len(stack)
    BY <1>2
  <2> QED
    BY <1>2, <1>3, <1>4, <2>1 DEF IInv, Completed, Task
<1>10. ScopeLastsUntilBody'
  BY <1>1, <1>3, <1>4 DEF IInv, ScopeLastsUntilBody, Task
<1> QED
  BY <1>2, <1>8, <1>9, <1>10 DEF IInv

-----------------------------------------------------------------------------
(* The invariant is inductive. *)

LEMMA InitIInv == Init => IInv
<1> SUFFICES ASSUME Init PROVE IInv
  OBVIOUS
<1>1. /\ program \in Programs /\ turn = 1 /\ stack = <<>> /\ resolved = {} /\ scopes = {}
      /\ constructors = 0 /\ DOMAIN meaning = {}
  BY DEF Init
<1>2. stack \in Seq(Calls) /\ Len(stack) = 0
  BY <1>1, EmptySeq
<1>3. \A i \in 1 .. Len(stack) : FALSE
  BY <1>2
<1>4. Typed
  BY <1>1, <1>2 DEF Typed
<1>5. Frames /\ Completed /\ ScopeLastsUntilBody
  BY <1>1, <1>3 DEF Frames, Completed, ScopeLastsUntilBody
<1> QED
  BY <1>4, <1>5 DEF IInv

LEMMA NextIInv == IInv /\ [Next]_vars => IInv'
<1> SUFFICES ASSUME IInv, [Next]_vars PROVE IInv'
  OBVIOUS
<1>1. turn \in Nat \ {0} /\ Len(program) \in Nat
  BY ProgramsAssumption, LenProperties DEF WellFormed, IInv, Typed
<1>2. CASE ResolveSymbol
  BY <1>2, ResolveSymbolIInv
<1>3. CASE BeginWarnings
  <2>1. /\ UNCHANGED <<program, stack, resolved, meaning, scopes>>
        /\ constructors' = constructors /\ turn' = 1
    BY <1>3 DEF BeginWarnings
  <2> QED
    BY <2>1, SameIInv
<1>4. CASE WarnIfUnused
  <2>1. /\ UNCHANGED <<program, stack, resolved, meaning, scopes>>
        /\ constructors' = constructors /\ turn' \in {turn, turn + 1}
    BY <1>4 DEF WarnIfUnused
  <2>2. turn' \in Nat \ {0}
    BY <1>1, <2>1
  <2> QED
    BY <2>1, <2>2, SameIInv
<1>5. CASE LookUp
  BY <1>5, LookUpIInv
<1>6. CASE UseParameter
  BY <1>6, UseParameterIInv
<1>7. CASE Call
  BY <1>7, CallIInv
<1>8. CASE Proceed
  BY <1>8, ProceedIInv
<1>9. CASE ProceedThrough
  BY <1>9, ProceedThroughIInv
<1>10. CASE ReadField
  BY <1>10, ReadFieldIInv
<1>11. CASE ReturnSignature
  BY <1>11, ReturnSignatureIInv
<1>12. CASE ReturnBody
  BY <1>12, ReturnBodyIInv
<1>13. CASE ReturnDefinition
  BY <1>13, ReturnDefinitionIInv
<1>14. CASE UNCHANGED vars
  <2>1. UNCHANGED <<program, stack, resolved, meaning, scopes>> /\ constructors' = constructors
        /\ turn' \in Nat \ {0}
    BY <1>1, <1>14 DEF vars
  <2> QED
    BY <2>1, SameIInv
<1> QED
  BY <1>2, <1>3, <1>4, <1>5, <1>6, <1>7, <1>8, <1>9, <1>10, <1>11, <1>12, <1>13, <1>14
     DEF Next

(* resolve_function_body finds the scope that its signature left, whatever *)
(* asked for the signature and whatever was resolved in between, and the   *)
(* scope is gone when the body is complete: for every document, also one   *)
(* whose definitions need each other, and every size of the stack.         *)
THEOREM ScopeStays == Spec => []ScopeLastsUntilBody
<1>1. Init => IInv
  BY InitIInv
<1>2. IInv /\ [Next]_vars => IInv'
  BY NextIInv
<1>3. IInv => ScopeLastsUntilBody
  BY DEF IInv
<1> QED
  BY <1>1, <1>2, <1>3, PTL DEF Spec

-----------------------------------------------------------------------------
(* Definitions written before their uses. *)

LEMMA SameText ==
    ASSUME program' = program
    PROVE  /\ InOrder' <=> InOrder
           /\ Definitions' = Definitions
           /\ \A d : Entry(d)' = Entry(d) /\ Kind(d)' = Kind(d)
<1>1. Definitions' = Definitions /\ Tasks' = Tasks
  BY DEF Definitions, Tasks
<1>2. \A d : Kind(d)' = Kind(d)
  BY DEF Kind
<1>3. \A d : Entry(d)' = Entry(d)
  BY <1>2 DEF Entry, Task
<1>4. \A t : Text(t)' = Text(t)
  BY DEF Text
<1>5. Written' = Written
  BY <1>1, <1>2 DEF Written
<1>6. InOrder' <=> InOrder
  BY <1>4, <1>5 DEF InOrder
<1> QED
  BY <1>1, <1>2, <1>3, <1>6

(* A text names what is written before it. *)
LEMMA NamesLookBack ==
    ASSUME IInv, InOrder, stack # <<>>, NEW i \in 1 .. Len(text), text[i].form \in PathForms
    PROVE  text[i].of < top.task.of
<1>1. top.task \in Tasks /\ Sound(top) /\ program \in Programs
  BY TopIsSound DEF IInv, Typed
<1>2. top.task \in Written
  BY <1>1 DEF Sound, AsWritten, Written
<1>3. text = Text(top.task) /\ i \in DOMAIN text
  <2>1. text \in Seq(Uses(Len(program)))
    BY <1>1, TextIsRead DEF text
  <2> QED
    BY <2>1, LenProperties DEF text
<1> QED
  BY <1>2, <1>3 DEF InOrder

(* Whose call is the innermost one. *)
LEMMA TopIsTheTurn ==
    ASSUME IInv, Ordered, InOrder, stack # <<>>
    PROVE  /\ turn \in Nat \ {0} /\ turn - 1 \in Definitions /\ Len(stack) \in {1, 2}
           /\ stack[1].task = Entry(turn - 1) /\ stack[1] \in Calls
           /\ top.task.of = turn - 1 /\ top.task.of \in Nat \ {0}
           /\ Len(stack) = 1 => top = stack[1]
           /\ Len(stack) = 2 => top.task = Task("signature", turn - 1) /\ stack[1].next = 0
           /\ top.next > 0 => top.pending < turn - 1
           /\ \A k \in 1 .. Len(top.held) : top.held[k] = constructors
<1>1. OneDefinition /\ Backwards /\ Fresh
  BY DEF Ordered
<1>2. /\ Len(stack) \in Nat \ {0} /\ top = stack[Len(stack)]
      /\ \A i \in 1 .. Len(stack) : stack[i] \in Calls
  BY TopIsSound
<1>3. Len(stack) \in {1, 2} /\ 1 \in 1 .. Len(stack) /\ Len(stack) \in 1 .. Len(stack)
  <2>1. PICK n \in Nat \ {0} : n = Len(stack)
    BY <1>2
  <2>2. n > 1 => n = 2
    BY <1>1, <2>1 DEF OneDefinition
  <2> QED
    BY <2>1, <2>2
<1>4. turn \in Nat \ {0} /\ program \in Programs
  BY DEF IInv, Typed
<1>5. stack[1].task = Entry(turn - 1) /\ stack[1].task \in Tasks /\ stack[1] \in Calls
  BY <1>1, <1>2, <1>3 DEF OneDefinition, Calls
<1>6. Entry(turn - 1).of = turn - 1
  BY DEF Entry, Task
<1>7. turn - 1 \in Definitions
  BY <1>4, <1>5, <1>6, TextIsRead
<1>8. Len(stack) = 2 => top.task = Task("signature", turn - 1) /\ stack[1].next = 0
  BY <1>1, <1>2 DEF OneDefinition
<1>9. top.task.of = turn - 1
  BY <1>2, <1>3, <1>5, <1>6, <1>8 DEF Task
<1>10. top.next > 0 => top.pending < turn - 1
  BY <1>1, <1>2, <1>3, <1>9 DEF Backwards
<1>11. \A k \in 1 .. Len(top.held) : top.held[k] = constructors
  BY <1>1, <1>2, <1>3 DEF Fresh
<1>12. turn - 1 \in Nat \ {0}
  BY <1>7 DEF Definitions
<1> QED
  BY <1>2, <1>3, <1>4, <1>5, <1>7, <1>8, <1>9, <1>10, <1>11, <1>12

LEMMA MoveOrdered ==
    ASSUME IInv, Ordered, InOrder, stack # <<>>, NEW frame \in Calls, ReplaceTop(frame),
           frame.task = top.task, frame.next > 0 => frame.pending < top.task.of,
           \A k \in 1 .. Len(frame.held) : frame.held[k] = constructors,
           UNCHANGED <<program, phase, turn, resolved, meaning, constructors>>, ~stale'
    PROVE  Ordered'
<1>1. /\ Len(stack') = Len(stack) /\ stack' # <<>> /\ stack'[Len(stack)] = frame
      /\ \A i \in 1 .. Len(stack) : i # Len(stack) => stack'[i] = stack[i]
  BY ReplaceStack
<1>2. \A d : Entry(d)' = Entry(d) /\ Definitions' = Definitions
  BY SameText
<1>3. /\ turn \in Nat \ {0} /\ Len(stack) \in {1, 2} /\ stack[1].task = Entry(turn - 1)
      /\ Len(stack) = 1 => top = stack[1]
      /\ Len(stack) = 2 => top.task = Task("signature", turn - 1) /\ stack[1].next = 0
  BY TopIsTheTurn
<1>4. OneDefinition /\ Backwards /\ Fresh
  BY DEF Ordered
<1>5. stack'[1].task = Entry(turn - 1)
  BY <1>1, <1>3
<1>6. Len(stack) = 2 => stack'[1].next = 0 /\ stack'[2].task = Task("signature", turn - 1)
  BY <1>1, <1>3
<1>7. OneDefinition'
  BY <1>1, <1>2, <1>3, <1>4, <1>5, <1>6 DEF OneDefinition, Task
<1>8. Backwards'
  BY <1>1, <1>4 DEF Backwards
<1>9. Fresh'
  BY <1>1, <1>4 DEF Fresh
<1> QED
  BY <1>7, <1>8, <1>9 DEF Ordered

LEMMA LookUpOrdered ==
    ASSUME IInv, Ordered, InOrder, LookUp
    PROVE  Ordered'
<1>1. /\ Reading /\ use.form \in PathForms
      /\ UNCHANGED <<program, phase, turn, resolved, meaning, constructors>> /\ stale' = stale
      /\ \/ ReplaceTop([top EXCEPT !.pending = use.of])
         \/ ReplaceTop([top EXCEPT !.next = After])
  BY DEF LookUp
<1>2. /\ stack # <<>> /\ top \in Calls /\ top.pending = None
      /\ top.next \in 1 .. Len(text) /\ use.of \in Definitions
  BY <1>1, WhenReading
<1>3. use.of < top.task.of /\ use.of \in 0 .. Len(program)
  BY <1>1, <1>2, NamesLookBack DEF use, Definitions
<1>4. \A k \in 1 .. Len(top.held) : top.held[k] = constructors
  BY <1>2, TopIsTheTurn
<1>5. None < top.task.of
  BY <1>2, TopIsTheTurn DEF None
<1>6. ~stale'
  BY <1>1 DEF Ordered, Fresh
<1>7. CASE ReplaceTop([top EXCEPT !.pending = use.of])
  <2>1. PICK frame : frame = [top EXCEPT !.pending = use.of]
    OBVIOUS
  <2>2. /\ frame \in Calls /\ frame.task = top.task /\ frame.held = top.held
        /\ frame.pending = use.of
    BY <1>2, <1>3, <2>1 DEF Calls
  <2> QED
    BY <1>1, <1>2, <1>3, <1>4, <1>6, <1>7, <2>1, <2>2, MoveOrdered
<1>8. CASE ReplaceTop([top EXCEPT !.next = After]) /\ ~ReplaceTop([top EXCEPT !.pending = use.of])
  <2>1. PICK frame : frame = [top EXCEPT !.next = After]
    OBVIOUS
  <2>2. frame.task = top.task /\ frame.held = top.held /\ frame.pending = None
    BY <1>2, <2>1, MovedFrame
  <2>3. frame \in Calls
    <3>1. After \in Nat
      BY <1>1, <1>2, AfterIsFound
    <3> QED
      BY <1>2, <2>1, <3>1 DEF Calls
  <2> QED
    BY <1>1, <1>2, <1>4, <1>5, <1>6, <1>8, <2>1, <2>2, <2>3, MoveOrdered
<1> QED
  BY <1>1, <1>7, <1>8

LEMMA UseParameterOrdered ==
    ASSUME IInv, Ordered, InOrder, UseParameter
    PROVE  Ordered'
<1>1. /\ Reading /\ ReplaceTop([top EXCEPT !.next = @ + 1])
      /\ UNCHANGED <<program, phase, turn, resolved, meaning, constructors>> /\ stale' = stale
  BY DEF UseParameter
<1>2. /\ stack # <<>> /\ top \in Calls /\ top.pending = None /\ top.next \in Nat
  BY <1>1, WhenReading
<1>3. PICK frame : frame = [top EXCEPT !.next = @ + 1]
  OBVIOUS
<1>4. /\ frame \in Calls /\ frame.task = top.task /\ frame.held = top.held
      /\ frame.pending = None
  BY <1>2, <1>3 DEF Calls
<1>5. None < top.task.of /\ \A k \in 1 .. Len(top.held) : top.held[k] = constructors
  BY <1>2, TopIsTheTurn DEF None
<1>6. ~stale'
  BY <1>1 DEF Ordered, Fresh
<1> QED
  BY <1>1, <1>2, <1>3, <1>4, <1>5, <1>6, MoveOrdered

LEMMA ProceedOrdered ==
    ASSUME IInv, Ordered, InOrder, Proceed
    PROVE  Ordered'
<1>1. /\ Pending
      /\ UNCHANGED <<program, phase, turn, resolved, meaning, constructors>> /\ stale' = stale
      /\ \/ ReplaceTop([top EXCEPT !.next = @ + 1, !.pending = None])
         \/ ReplaceTop([[top EXCEPT !.next = @ + 1, !.pending = None]
                            EXCEPT !.held = Append(@, constructors)])
  BY DEF Proceed, Remembered
<1>2. stack # <<>> /\ top \in Calls /\ top.next \in Nat
  BY <1>1, WhenPending
<1>3. PICK m \in Nat : m = top.next + 1
  BY <1>2
<1>4. PICK done : done = [top EXCEPT !.next = @ + 1, !.pending = None]
  OBVIOUS
<1>5. done = [task |-> top.task, held |-> top.held, next |-> m, pending |-> None]
  BY <1>2, <1>3, <1>4, MovedFrame
<1>6. top.held \in Seq(Nat) /\ Len(top.held) \in Nat /\ top.task \in Tasks
      /\ None \in 0 .. Len(program)
  <2>1. top.held \in Seq(Nat) /\ top.task \in Tasks /\ top.pending \in 0 .. Len(program)
    BY <1>2 DEF Calls
  <2>2. Len(program) \in Nat
    BY ProgramsAssumption, LenProperties DEF WellFormed, IInv, Typed
  <2> QED
    BY <2>1, <2>2, LenProperties DEF None
<1>7. None < top.task.of /\ \A k \in 1 .. Len(top.held) : top.held[k] = constructors
  BY <1>2, TopIsTheTurn DEF None
<1>8. ~stale'
  BY <1>1 DEF Ordered, Fresh
<1>9. CASE ReplaceTop(done)
  <2>1. /\ done \in Calls /\ done.task = top.task /\ done.held = top.held
        /\ done.pending = None
    BY <1>5, <1>6 DEF Calls
  <2> QED
    BY <1>1, <1>2, <1>7, <1>8, <1>9, <2>1, MoveOrdered
<1>10. CASE ReplaceTop([done EXCEPT !.held = Append(@, constructors)])
  <2>1. PICK held : held = Append(top.held, constructors)
    OBVIOUS
  <2>2. constructors \in Nat
    BY DEF IInv, Typed
  <2>3. /\ held \in Seq(Nat) /\ Len(held) = Len(top.held) + 1
        /\ held[Len(top.held) + 1] = constructors
        /\ \A k \in 1 .. Len(top.held) : held[k] = top.held[k]
    BY <1>6, <2>1, <2>2, AppendProperties
  <2>4. \A k \in 1 .. Len(held) : held[k] = constructors
    <3>1. PICK n \in Nat : n = Len(top.held)
      BY <1>6
    <3>2. \A k \in 1 .. n + 1 : k \in 1 .. n \/ k = n + 1
      OBVIOUS
    <3>3. \A k \in 1 .. n + 1 : held[k] = constructors
      BY <1>7, <2>3, <3>1, <3>2
    <3> QED
      BY <2>3, <3>1, <3>3
  <2>5. PICK frame : frame = [done EXCEPT !.held = Append(@, constructors)]
    OBVIOUS
  <2>6. frame = [task |-> top.task, held |-> held, next |-> m, pending |-> None]
    BY <1>5, <2>1, <2>5
  <2>7. /\ frame \in Calls /\ frame.task = top.task /\ frame.held = held
        /\ frame.pending = None
    BY <1>6, <2>3, <2>6 DEF Calls
  <2> QED
    BY <1>1, <1>2, <1>7, <1>8, <1>10, <2>4, <2>5, <2>7, MoveOrdered
<1> QED
  BY <1>1, <1>4, <1>9, <1>10

LEMMA ProceedThroughOrdered ==
    ASSUME IInv, Ordered, InOrder, ProceedThrough
    PROVE  Ordered'
<1> DEFINE d == top.pending
<1>1. /\ Pending /\ Needed(d) \in resolved /\ Asking = "through"
      /\ UNCHANGED <<program, phase, turn, resolved, meaning, constructors>> /\ stale' = stale
  BY DEF ProceedThrough, Remembered
<1>2. \/ ReplaceTop([top EXCEPT !.next = @ + 1, !.pending = None])
      \/ Kind(d) = "alias" /\ ReplaceTop([top EXCEPT !.pending = meaning[d]])
  <2>1. CASE Kind(d) = "enumeration"
    BY <2>1 DEF ProceedThrough
  <2>2. CASE Kind(d) # "enumeration" /\ Kind(d) = "alias" /\ meaning[d] # None
    BY <2>2 DEF ProceedThrough
  <2>3. CASE Kind(d) # "enumeration" /\ ~(Kind(d) = "alias" /\ meaning[d] # None)
    BY <2>3 DEF ProceedThrough
  <2> QED
    BY <2>1, <2>2, <2>3
<1>3. top.next # 0
  BY <1>1 DEF Asking
<1>4. /\ stack # <<>> /\ top \in Calls /\ top.next \in Nat \ {0} /\ top.task \in Tasks
      /\ d \in Definitions
  BY <1>1, <1>3, WhenPending
<1>5. /\ None < top.task.of /\ top.task.of \in Nat
      /\ d < top.task.of
      /\ \A k \in 1 .. Len(top.held) : top.held[k] = constructors
  BY <1>4, TopIsTheTurn DEF None
<1>6. ~stale'
  BY <1>1 DEF Ordered, Fresh
<1>7. CASE ReplaceTop([top EXCEPT !.next = @ + 1, !.pending = None])
  <2>1. PICK m \in Nat : m = top.next + 1
    BY <1>4
  <2>2. PICK done : done = [top EXCEPT !.next = @ + 1, !.pending = None]
    OBVIOUS
  <2>3. done = [task |-> top.task, held |-> top.held, next |-> m, pending |-> None]
    BY <1>4, <2>1, <2>2, MovedFrame
  <2>4. None \in 0 .. Len(program)
    <3>1. Len(program) \in Nat
      BY ProgramsAssumption, LenProperties DEF WellFormed, IInv, Typed
    <3> QED
      BY <3>1 DEF None
  <2>5. top.held \in Seq(Nat)
    BY <1>4 DEF Calls
  <2>6. done \in Calls /\ done.task = top.task /\ done.held = top.held /\ done.pending = None
    BY <1>4, <2>3, <2>4, <2>5 DEF Calls
  <2> QED
    BY <1>1, <1>4, <1>5, <1>6, <1>7, <2>2, <2>6, MoveOrdered
<1>8. CASE Kind(d) = "alias" /\ ReplaceTop([top EXCEPT !.pending = meaning[d]])
  <2>1. d \in DOMAIN meaning /\ meaning[d] \in 0 .. Len(program)
    <3>1. Needed(d) = Task("definition", d)
      BY <1>8 DEF Needed
    <3> QED
      BY <1>1, <1>4, <1>8, <3>1 DEF IInv, Typed
  <2>2. meaning[d] < d
    BY <2>1 DEF Ordered, Backwards
  <2>3. PICK frame : frame = [top EXCEPT !.pending = meaning[d]]
    OBVIOUS
  <2>4. /\ frame \in Calls /\ frame.task = top.task /\ frame.held = top.held
        /\ frame.pending = meaning[d]
    BY <1>4, <2>1, <2>3 DEF Calls
  <2>5. d \in Int /\ meaning[d] \in Int
    BY <1>4, <2>1 DEF Definitions
  <2>6. frame.pending < top.task.of
    BY <1>5, <2>2, <2>4, <2>5
  <2> QED
    BY <1>1, <1>4, <1>5, <1>6, <1>8, <2>3, <2>4, <2>6, MoveOrdered
<1> QED
  BY <1>2, <1>7, <1>8

(* The definition that a field is looked up in is where it was. *)
LEMMA ReadFieldOrdered ==
    ASSUME IInv, Ordered, InOrder, ReadField
    PROVE  Ordered'
<1> DEFINE n == Len(top.held)
           rest == SubSeq(top.held, 1, n - 1)
<1>1. /\ Reading /\ stale' = (stale \/ top.held[n] # constructors)
      /\ UNCHANGED <<program, phase, turn, resolved, meaning, constructors>>
      /\ ReplaceTop([top EXCEPT !.next = @ + 1, !.held = SubSeq(@, 1, n - 1)])
  BY DEF ReadField
<1>2. /\ n \in Nat \ {0} /\ rest \in Seq(Nat) /\ Len(rest) = n - 1
      /\ \A k \in 1 .. n - 1 : rest[k] = top.held[k]
  BY ReadFieldIInv
<1>3. /\ stack # <<>> /\ top \in Calls /\ top.pending = None /\ top.next \in Nat
      /\ top.task \in Tasks
  BY <1>1, WhenReading
<1>4. None < top.task.of /\ \A k \in 1 .. n : top.held[k] = constructors
  BY <1>3, TopIsTheTurn DEF None
<1>5. PICK kept : kept = rest
  OBVIOUS
<1>6. PICK done : done = [top EXCEPT !.next = top.next + 1]
  OBVIOUS
<1>7. done = [task |-> top.task, held |-> top.held, next |-> top.next + 1,
              pending |-> top.pending]
  BY <1>3, <1>6, MovedFrame
<1>8. PICK frame : frame = [task |-> top.task, held |-> kept, next |-> top.next + 1,
                            pending |-> None]
  OBVIOUS
<1>9. [done EXCEPT !.held = kept] = frame
  BY <1>3, <1>7, <1>8
<1>10. [top EXCEPT !.next = @ + 1, !.held = SubSeq(@, 1, n - 1)] = [done EXCEPT !.held = kept]
  BY <1>5, <1>6
<1>11. /\ frame.task = top.task /\ frame.held = kept /\ frame.pending = None /\ frame \in Calls
  <2>1. top.pending \in 0 .. Len(program)
    BY <1>3 DEF Calls
  <2> QED
    BY <1>2, <1>3, <1>5, <1>8, <2>1 DEF Calls
<1>12. \A k \in 1 .. Len(kept) : kept[k] = constructors
  <2>1. PICK m \in Nat \ {0} : m = n
    BY <1>2
  <2>2. \A k \in 1 .. m - 1 : k \in 1 .. m
    OBVIOUS
  <2> QED
    BY <1>2, <1>4, <1>5, <2>1, <2>2
<1>13. ~stale'
  <2>1. top.held[n] = constructors
    BY <1>2, <1>4
  <2> QED
    BY <1>1, <2>1 DEF Ordered, Fresh
<1>14. ReplaceTop(frame)
  BY <1>1, <1>9, <1>10
<1> QED
  BY <1>1, <1>3, <1>4, <1>11, <1>12, <1>13, <1>14, MoveOrdered

(* A call that has just begun holds nothing and has looked nothing up. *)
LEMMA FrameBegins ==
    ASSUME NEW task
    PROVE  /\ Frame(task).task = task /\ Len(Frame(task).held) = 0
           /\ Frame(task).next = (IF task.part = "body" THEN 0 ELSE 1)
           /\ Frame(task).next > 0 => Frame(task).pending = None
<1>1. Len(<<>>) = 0
  BY EmptySeq
<1>2. CASE task.part = "body"
  BY <1>1, <1>2 DEF Frame
<1>3. CASE task.part # "body"
  BY <1>1, <1>3 DEF Frame
<1> QED
  BY <1>2, <1>3

(* What a definition written before is needed for has been resolved, so    *)
(* the only call is that of a body for its own signature.                  *)
LEMMA CallOrdered ==
    ASSUME IInv, Ordered, InOrder, Call
    PROVE  Ordered'
<1> DEFINE p == top.pending
<1>1. /\ Pending /\ Needed(p) \notin resolved /\ Push(Needed(p))
      /\ UNCHANGED <<program, turn, resolved, meaning, constructors>> /\ stale' = stale
  BY DEF Call
<1>2. /\ stack # <<>> /\ p \in Definitions /\ top.next \in Nat /\ phase = "resolving"
      /\ top.next = 0 => /\ top.task.part = "body" /\ Kind(top.task.of) = "function"
                         /\ p = top.task.of
  BY <1>1, WhenPending DEF Pending, Active
<1>3. OneDefinition /\ Backwards /\ Fresh
  BY DEF Ordered
<1>4. /\ turn \in Nat \ {0} /\ turn - 1 \in Definitions /\ Len(stack) \in {1, 2}
      /\ stack[1].task = Entry(turn - 1) /\ top.task.of = turn - 1
      /\ Len(stack) = 1 => top = stack[1]
      /\ Len(stack) = 2 => top.task = Task("signature", turn - 1)
      /\ top.next > 0 => p < turn - 1
  BY <1>2, TopIsTheTurn
<1>5. \A d : Entry(d)' = Entry(d) /\ Definitions' = Definitions
  BY <1>1, SameText
<1>6. top.next = 0
  <2> SUFFICES ASSUME top.next # 0 PROVE FALSE
    OBVIOUS
  <2>1. p < turn - 1 /\ p < turn /\ p # turn - 1
    <3>1. p \in Int /\ top.next > 0
      BY <1>2 DEF Definitions
    <3> QED
      BY <1>4, <3>1
  <2>2. Entry(p) \in resolved
    BY <1>2, <1>3, <2>1 DEF OneDefinition
  <2>3. CASE Kind(p) = "function"
    BY <1>1, <1>2, <2>2, <2>3 DEF Entry, Needed, IInv, Completed
  <2>4. CASE Kind(p) # "function"
    BY <1>1, <2>2, <2>4 DEF Entry, Needed
  <2> QED
    BY <2>3, <2>4
<1>7. Len(stack) = 1 /\ stack[1].next = 0
  BY <1>2, <1>4, <1>6 DEF Task
<1>8. Needed(p) = Task("signature", turn - 1)
  BY <1>2, <1>4, <1>6 DEF Needed
<1>9. CASE stack' = stack
  <2>1. phase' # "warning" /\ phase' # "resolving"
    <3>1. CASE Len(stack) = MaxDepth
      BY <1>1, <3>1 DEF Push
    <3>2. CASE Len(stack) # MaxDepth
      <4>1. stack' = Append(stack, Frame(Needed(p)))
        BY <1>1, <3>2 DEF Push
      <4>2. PICK task \in Tasks : /\ task = Needed(p) /\ AsWritten(task) /\ task.part # "body"
        BY <1>2, NeededIsWritten
      <4>3. Len(stack') = Len(stack) + 1
        <5>1. turn' \in Nat \ {0} /\ UNCHANGED <<program, resolved, meaning, scopes>>
          BY <1>1, <1>4 DEF Call
        <5> QED
          BY <1>1, <4>1, <4>2, <5>1, PushIInv
      <4> QED
        BY <1>7, <1>9, <4>3
    <3> QED
      BY <3>1, <3>2
  <2>2. OneDefinition'
    BY <1>1, <1>3, <1>5, <1>9, <2>1 DEF OneDefinition, Task
  <2>3. Backwards' /\ Fresh'
    BY <1>1, <1>3, <1>9 DEF Backwards, Fresh
  <2> QED
    BY <2>2, <2>3 DEF Ordered
<1>10. CASE stack' # stack
  <2>1. stack' = Append(stack, Frame(Needed(p))) /\ phase' = phase
    BY <1>1, <1>10 DEF Push
  <2>2. PICK task \in Tasks : task = Needed(p) /\ AsWritten(task) /\ task.part # "body"
    BY <1>2, NeededIsWritten
  <2>3. PICK frame : frame = Frame(task)
    OBVIOUS
  <2>4. Len(stack') = 2 /\ stack'[2] = frame /\ stack'[1] = stack[1]
    <3>1. turn' \in Nat \ {0} /\ UNCHANGED <<program, resolved, meaning, scopes>>
      BY <1>1, <1>4 DEF Call
    <3>2. /\ Len(stack') = Len(stack) + 1 /\ stack'[Len(stack) + 1] = Frame(task)
          /\ \A i \in 1 .. Len(stack) : stack'[i] = stack[i]
      BY <1>1, <2>1, <2>2, <3>1, PushIInv
    <3> QED
      BY <1>7, <2>3, <3>2
  <2>5. frame.task = task /\ Len(frame.held) = 0 /\ frame.pending = None
    BY <2>2, <2>3, FrameBegins
  <2>6. task = Task("signature", turn - 1)
    BY <1>8, <2>2
  <2>7. stack' # <<>>
    BY <2>4, EmptySeq
  <2>8. OneDefinition'
    BY <1>1, <1>2, <1>3, <1>4, <1>5, <1>7, <2>1, <2>4, <2>5, <2>6, <2>7 DEF OneDefinition, Task
  <2>9. None < frame.task.of
    BY <1>4, <2>5, <2>6 DEF None, Task, Definitions
  <2>10. ASSUME NEW i \in 1 .. 2
         PROVE  /\ stack'[i].next > 0 => stack'[i].pending < stack'[i].task.of
                /\ \A k \in 1 .. Len(stack'[i].held) : stack'[i].held[k] = constructors
    <3>1. CASE i = 1
      BY <1>3, <1>7, <2>4, <3>1 DEF Backwards, Fresh
    <3>2. CASE i = 2
      <4>1. \A k \in 1 .. Len(frame.held) : FALSE
        BY <2>5
      <4> QED
        BY <2>4, <2>5, <2>9, <3>2, <4>1
    <3> QED
      BY <3>1, <3>2
  <2>11. Backwards'
    BY <1>1, <1>3, <2>4, <2>10 DEF Backwards
  <2>12. Fresh'
    BY <1>1, <1>3, <2>4, <2>10 DEF Fresh
  <2> QED
    BY <2>8, <2>11, <2>12 DEF Ordered
<1> QED
  BY <1>9, <1>10

(* Nothing is in progress between two symbols of the first loop. *)
LEMMA ResolveSymbolOrdered ==
    ASSUME IInv, Ordered, InOrder, ResolveSymbol
    PROVE  Ordered'
<1>1. /\ phase = "resolving" /\ stack = <<>> /\ turn <= Len(program) /\ turn' = turn + 1
      /\ IF Entry(turn) \in resolved THEN UNCHANGED <<phase, stack>> ELSE Push(Entry(turn))
      /\ UNCHANGED <<program, resolved, meaning, constructors>> /\ stale' = stale
  BY DEF ResolveSymbol
<1>2. turn \in Nat \ {0} /\ turn \in Definitions /\ turn' \in Nat \ {0} /\ turn' > 1
      /\ turn' - 1 = turn
  <2>1. Len(program) \in Nat
    BY ProgramsAssumption, LenProperties DEF WellFormed, IInv, Typed
  <2> QED
    BY <1>1, <2>1 DEF IInv, Typed, Definitions
<1>3. OneDefinition /\ Backwards /\ Fresh
  BY DEF Ordered
<1>4. \A d : Entry(d)' = Entry(d) /\ Definitions' = Definitions
  BY <1>1, SameText
<1>5. Len(stack) = 0
  BY <1>1, EmptySeq
<1>6. \A d \in Definitions : d < turn => Entry(d) \in resolved
  BY <1>1, <1>3 DEF OneDefinition
<1>7. \A d \in Definitions : d < turn' => d < turn \/ d = turn
  BY <1>1, <1>2 DEF Definitions
<1>8. CASE stack' = <<>>
  <2>1. phase' = "resolving" => Entry(turn) \in resolved
    <3>1. CASE Entry(turn) \notin resolved /\ Len(stack) = MaxDepth
      BY <1>1, <3>1 DEF Push
    <3>2. CASE Entry(turn) \notin resolved /\ Len(stack) # MaxDepth
      <4>1. stack' = Append(stack, Frame(Entry(turn)))
        BY <1>1, <3>2 DEF Push
      <4>2. PICK task \in Tasks : task = Entry(turn) /\ AsWritten(task)
                                  /\ task.part # "signature"
        BY <1>2, NeededIsWritten
      <4>3. Len(stack') = Len(stack) + 1
        <5>1. UNCHANGED <<program, resolved, meaning, scopes>>
          BY DEF ResolveSymbol
        <5> QED
          BY <1>1, <1>2, <4>1, <4>2, <5>1, PushIInv
      <4> QED
        BY <1>5, <1>8, <4>3, EmptySeq
    <3> QED
      BY <3>1, <3>2
  <2>2. \A i \in 1 .. Len(stack') : FALSE
    BY <1>1, <1>5, <1>8
  <2>3. ~(Len(stack') > 1)
    BY <1>1, <1>5, <1>8
  <2>4. OneDefinition'
    BY <1>1, <1>4, <1>6, <1>7, <1>8, <2>1, <2>3 DEF OneDefinition
  <2>5. Backwards' /\ Fresh'
    BY <1>1, <1>3, <2>2 DEF Backwards, Fresh
  <2> QED
    BY <2>4, <2>5 DEF Ordered
<1>9. CASE stack' # <<>>
  <2>1. stack' = Append(stack, Frame(Entry(turn))) /\ phase' = phase
    BY <1>1, <1>9 DEF Push
  <2>2. PICK task \in Tasks : task = Entry(turn) /\ AsWritten(task) /\ task.part # "signature"
                              /\ task.of = turn
    BY <1>2, NeededIsWritten
  <2>3. PICK frame : frame = Frame(task)
    OBVIOUS
  <2>4. Len(stack') = 1 /\ stack'[1] = frame
    <3>1. UNCHANGED <<program, resolved, meaning, scopes>>
      BY DEF ResolveSymbol
    <3>2. Len(stack') = Len(stack) + 1 /\ stack'[Len(stack) + 1] = Frame(task)
      BY <1>1, <1>2, <2>1, <2>2, <3>1, PushIInv
    <3> QED
      BY <1>5, <2>3, <3>2
  <2>5. frame.task = task /\ Len(frame.held) = 0 /\ (frame.next > 0 => frame.pending = None)
    BY <2>2, <2>3, FrameBegins
  <2>6. OneDefinition'
    <3>1. stack'[1].task = Entry(turn' - 1)
      BY <1>2, <2>2, <2>4, <2>5
    <3>2. \A d \in Definitions : d < turn' => Entry(d) \in resolved \/ d = turn' - 1
      BY <1>2, <1>6, <1>7
    <3>3. (stack # <<>> => turn > 1 /\ stack[1].task = Entry(turn - 1))'
      BY <1>1, <1>2, <3>1 DEF Entry, Kind, Task
    <3>4. (Len(stack) > 1 => /\ Len(stack) = 2 /\ stack[1].next = 0
                             /\ stack[2].task = Task("signature", turn - 1))'
      BY <2>4
    <3>5. (phase = "warning" => stack = <<>>)'
      BY <1>1, <2>1
    <3>6. (\A d \in Definitions :
              d < turn => Entry(d) \in resolved \/ (stack # <<>> /\ d = turn - 1))'
      BY <1>1, <1>4, <1>9, <3>2
    <3> QED
      BY <3>3, <3>4, <3>5, <3>6 DEF OneDefinition
  <2>7. None < frame.task.of
    BY <1>2, <2>2, <2>5 DEF None
  <2>8. \A i \in 1 .. 1 : i = 1
    OBVIOUS
  <2>9. Backwards'
    BY <1>1, <1>3, <2>4, <2>5, <2>7, <2>8 DEF Backwards
  <2>10. \A k \in 1 .. Len(frame.held) : FALSE
    BY <2>5
  <2>11. Fresh'
    BY <1>1, <1>3, <2>4, <2>8, <2>10 DEF Fresh
  <2> QED
    BY <2>6, <2>9, <2>11 DEF Ordered
<1> QED
  BY <1>8, <1>9

(* A body that has begun its text is never kept waiting. *)
LEMMA ReturnSignatureOrdered ==
    ASSUME IInv, Ordered, InOrder, ReturnSignature
    PROVE  Ordered'
<1>1. /\ Returning("signature") /\ Pop /\ Remember
      /\ stale' = (stale \/ \E i \in DOMAIN stack : KeepsIterator(stack[i]))
      /\ UNCHANGED <<program, phase, turn, meaning, constructors>>
  BY DEF ReturnSignature
<1>2. /\ stack # <<>> /\ top.task = Task("signature", top.task.of)
      /\ resolved \subseteq resolved' /\ stack \in Seq(Calls)
      /\ Len(stack') = Len(stack) - 1
      /\ \A i \in 1 .. Len(stack) - 1 : stack'[i] = stack[i]
  BY <1>1, WhenReturning DEF IInv, Typed
<1>3. /\ turn \in Nat \ {0} /\ turn - 1 \in Definitions /\ Len(stack) \in {1, 2}
      /\ stack[1].task = Entry(turn - 1)
      /\ Len(stack) = 1 => top = stack[1]
      /\ Len(stack) = 2 => top.task = Task("signature", turn - 1) /\ stack[1].next = 0
  BY <1>2, TopIsTheTurn
<1>4. OneDefinition /\ Backwards /\ Fresh
  BY DEF Ordered
<1>5. \A d : Entry(d)' = Entry(d) /\ Definitions' = Definitions
  BY <1>1, SameText
<1>6. Len(stack) = 2
  <2>1. Entry(turn - 1).part # "signature"
    BY <1>3, NeededIsWritten
  <2>2. top.task.part = "signature"
    BY <1>1 DEF Returning
  <2> QED
    BY <1>3, <2>1, <2>2
<1>7. Len(stack') = 1 /\ stack'[1] = stack[1] /\ stack' # <<>>
  <2>1. Len(stack') = 1 /\ stack'[1] = stack[1]
    BY <1>2, <1>6
  <2> QED
    BY <2>1, EmptySeq
<1>8. ~stale'
  <2>1. ~stale
    BY <1>4 DEF Fresh
  <2>2. ASSUME NEW i \in DOMAIN stack PROVE ~KeepsIterator(stack[i])
    <3>1. i \in {1, 2}
      BY <1>2, <1>6, LenProperties
    <3>2. stack[2] = top /\ top.task.part = "signature"
      BY <1>1, <1>6 DEF top, Returning
    <3> QED
      BY <1>3, <1>6, <3>1, <3>2 DEF KeepsIterator
  <2> QED
    BY <1>1, <2>1, <2>2
<1>9. OneDefinition'
  <2>1. (stack # <<>> => turn > 1 /\ stack[1].task = Entry(turn - 1))'
    BY <1>1, <1>2, <1>4, <1>7 DEF OneDefinition, Entry, Kind, Task
  <2>2. (Len(stack) > 1 => /\ Len(stack) = 2 /\ stack[1].next = 0
                           /\ stack[2].task = Task("signature", turn - 1))'
    BY <1>7
  <2>3. (phase = "warning" => stack = <<>>)'
    BY <1>1 DEF Returning, Active
  <2>4. (phase = "resolving" => \A d \in Definitions :
            d < turn => Entry(d) \in resolved \/ (stack # <<>> /\ d = turn - 1))'
    BY <1>1, <1>2, <1>4, <1>5, <1>7 DEF OneDefinition
  <2> QED
    BY <2>1, <2>2, <2>3, <2>4 DEF OneDefinition
<1>10. 1 \in 1 .. Len(stack) /\ \A i \in 1 .. 1 : i = 1
  BY <1>6
<1>11. Backwards'
  BY <1>1, <1>4, <1>7, <1>10 DEF Backwards
<1>12. Fresh'
  BY <1>1, <1>4, <1>7, <1>8, <1>10 DEF Fresh
<1> QED
  BY <1>9, <1>11, <1>12 DEF Ordered

(* The first call has returned: nothing is held any more. *)
LEMMA LastReturnOrdered ==
    ASSUME IInv, Ordered, InOrder, NEW part, part # "signature", Returning(part), Pop, Remember,
           UNCHANGED <<program, phase, turn, stale>>,
           \A a \in DOMAIN meaning' : meaning'[a] < a
    PROVE  Ordered'
<1>1. /\ stack # <<>> /\ resolved' = resolved \cup {top.task}
      /\ Len(stack) = 1 => stack' = <<>>
      /\ top.task.part = part
  BY WhenReturning DEF Returning, Remember
<1>2. /\ turn \in Nat \ {0} /\ Len(stack) \in {1, 2} /\ stack[1].task = Entry(turn - 1)
      /\ Len(stack) = 1 => top = stack[1]
      /\ Len(stack) = 2 => top.task = Task("signature", turn - 1)
  BY <1>1, TopIsTheTurn
<1>3. OneDefinition /\ Backwards /\ Fresh
  BY DEF Ordered
<1>4. \A d : Entry(d)' = Entry(d) /\ Definitions' = Definitions
  BY SameText
<1>5. Len(stack) = 1
  BY <1>1, <1>2 DEF Task
<1>6. stack' = <<>> /\ Len(stack') = 0 /\ Entry(turn - 1) \in resolved'
  BY <1>1, <1>2, <1>5, EmptySeq
<1>7. \A i \in 1 .. Len(stack') : FALSE
  BY <1>6
<1>8. OneDefinition'
  <2>1. \A d \in Definitions :
            phase = "resolving" /\ d < turn => Entry(d) \in resolved \/ d = turn - 1
    BY <1>3 DEF OneDefinition
  <2>2. \A d \in Definitions : phase = "resolving" /\ d < turn => Entry(d) \in resolved'
    BY <1>1, <1>6, <2>1
  <2>3. ~(Len(stack') > 1)
    BY <1>6
  <2> QED
    BY <1>4, <1>6, <2>2, <2>3 DEF OneDefinition
<1>9. Backwards' /\ Fresh'
  BY <1>3, <1>7 DEF Backwards, Fresh
<1> QED
  BY <1>8, <1>9 DEF Ordered

LEMMA ReturnDefinitionOrdered ==
    ASSUME IInv, Ordered, InOrder, ReturnDefinition
    PROVE  Ordered'
<1> DEFINE d == top.task.of
<1>1. /\ Returning("definition") /\ Pop /\ Remember
      /\ UNCHANGED <<program, phase, turn, stale>>
      /\ meaning' = IF Kind(d) = "alias"
                    THEN [a \in DOMAIN meaning \cup {d} |->
                             IF a = d THEN TypeOf(text[1]) ELSE meaning[a]]
                    ELSE meaning
  BY DEF ReturnDefinition
<1>2. \A a \in DOMAIN meaning : meaning[a] < a
  BY DEF Ordered, Backwards
<1>3. stack # <<>> /\ d \in Definitions /\ top.next > Len(text)
  BY <1>1, WhenReturning
<1>4. Kind(d) = "alias" => TypeOf(text[1]) < d
  <2> SUFFICES ASSUME Kind(d) = "alias" PROVE TypeOf(text[1]) < d
    OBVIOUS
  <2>1. /\ text[1].of \in Definitions /\ TypeOf(text[1]) \in 0 .. Len(program)
        /\ \/ TypeOf(text[1]) \in {None, text[1].of}
           \/ text[1].of \in DOMAIN meaning /\ TypeOf(text[1]) = meaning[text[1].of]
    BY <1>3, MeaningIsKnown
  <2>2. Len(text) = 1 /\ text[1].form \in PathForms
    BY <1>3, AliasHasOneUse DEF PathForms
  <2>3. 1 \in 1 .. Len(text)
    BY <2>2
  <2>4. text[1].of < d
    BY <1>3, <2>2, <2>3, NamesLookBack
  <2>5. text[1].of \in Int /\ d \in Int /\ TypeOf(text[1]) \in Int /\ None < d
    BY <1>3, <2>1 DEF Definitions, None
  <2>6. CASE TypeOf(text[1]) \in {None, text[1].of}
    BY <2>4, <2>5, <2>6
  <2>7. CASE text[1].of \in DOMAIN meaning /\ TypeOf(text[1]) = meaning[text[1].of]
    <3>1. TypeOf(text[1]) < text[1].of
      BY <1>2, <2>7
    <3> QED
      BY <2>4, <2>5, <3>1
  <2> QED
    BY <2>1, <2>6, <2>7
<1>5. \A a \in DOMAIN meaning' : meaning'[a] < a
  <2>1. CASE Kind(d) = "alias"
    BY <1>1, <1>2, <1>4, <2>1
  <2>2. CASE Kind(d) # "alias"
    BY <1>1, <1>2, <2>2
  <2> QED
    BY <2>1, <2>2
<1> QED
  BY <1>1, <1>5, LastReturnOrdered

LEMMA NextOrdered == IInv /\ Ordered /\ [Next]_vars => Ordered'
<1> SUFFICES ASSUME IInv, Ordered, [Next]_vars PROVE Ordered'
  OBVIOUS
<1>1. program' = program
  BY DEF Next, vars, ResolveSymbol, BeginWarnings, WarnIfUnused, LookUp, UseParameter, Call,
         Proceed, ProceedThrough, ReadField, ReturnSignature, ReturnBody, ReturnDefinition
<1> SUFFICES ASSUME InOrder PROVE Ordered'
  BY <1>1, SameText DEF Ordered
<1>2. OneDefinition /\ Backwards /\ Fresh
  BY DEF Ordered
<1>3. \A d : Entry(d)' = Entry(d) /\ Definitions' = Definitions
  BY <1>1, SameText
<1>4. CASE ResolveSymbol
  BY <1>4, ResolveSymbolOrdered
<1>5. CASE BeginWarnings \/ WarnIfUnused
  <2>1. /\ stack = <<>> /\ stack' = stack /\ phase' # "resolving"
        /\ meaning' = meaning /\ constructors' = constructors /\ stale' = stale
    BY <1>2, <1>5 DEF BeginWarnings, WarnIfUnused, OneDefinition
  <2>2. ~(Len(stack') > 1)
    BY <2>1, EmptySeq
  <2>3. OneDefinition'
    BY <2>1, <2>2 DEF OneDefinition
  <2>4. Backwards' /\ Fresh'
    BY <1>2, <2>1 DEF Backwards, Fresh
  <2> QED
    BY <2>3, <2>4 DEF Ordered
<1>6. CASE LookUp
  BY <1>6, LookUpOrdered
<1>7. CASE UseParameter
  BY <1>7, UseParameterOrdered
<1>8. CASE Call
  BY <1>8, CallOrdered
<1>9. CASE Proceed
  BY <1>9, ProceedOrdered
<1>10. CASE ProceedThrough
  BY <1>10, ProceedThroughOrdered
<1>11. CASE ReadField
  BY <1>11, ReadFieldOrdered
<1>12. CASE ReturnSignature
  BY <1>12, ReturnSignatureOrdered
<1>13. CASE ReturnBody
  <2>1. /\ Returning("body") /\ Pop /\ Remember /\ meaning' = meaning
        /\ UNCHANGED <<program, phase, turn, stale>>
    BY <1>13 DEF ReturnBody
  <2>2. \A a \in DOMAIN meaning' : meaning'[a] < a
    BY <1>2, <2>1 DEF Backwards
  <2> QED
    BY <2>1, <2>2, LastReturnOrdered
<1>14. CASE ReturnDefinition
  BY <1>14, ReturnDefinitionOrdered
<1>15. CASE UNCHANGED vars
  <2>1. UNCHANGED <<stack, phase, turn, resolved, meaning, constructors, stale>>
    BY <1>15 DEF vars
  <2>2. OneDefinition'
    BY <1>2, <1>3, <2>1 DEF OneDefinition, Entry, Kind, Task
  <2>3. Backwards' /\ Fresh'
    BY <1>2, <2>1 DEF Backwards, Fresh
  <2> QED
    BY <2>2, <2>3 DEF Ordered
<1> QED
  BY <1>4, <1>5, <1>6, <1>7, <1>8, <1>9, <1>10, <1>11, <1>12, <1>13, <1>14, <1>15 DEF Next

LEMMA InitOrdered == Init => Ordered
<1> SUFFICES ASSUME Init PROVE Ordered
  OBVIOUS
<1>1. /\ stack = <<>> /\ turn = 1 /\ phase = "resolving" /\ DOMAIN meaning = {} /\ ~stale
  BY DEF Init
<1>2. Len(stack) = 0 /\ ~(Len(stack) > 1)
  BY <1>1, EmptySeq
<1>3. \A i \in 1 .. Len(stack) : FALSE
  BY <1>2
<1>4. \A d \in Definitions : ~(d < turn)
  BY <1>1 DEF Definitions
<1>5. OneDefinition
  BY <1>1, <1>2, <1>4 DEF OneDefinition
<1>6. Backwards /\ Fresh
  BY <1>1, <1>3 DEF Backwards, Fresh
<1> QED
  BY <1>5, <1>6 DEF Ordered

(* When every definition is written before what names it, no reference     *)
(* into the arenas of constructors and fields is used after they grew, and *)
(* no iterator into the map of scopes is kept while it grows: the calls in *)
(* progress are those of one definition, and what it needs is resolved.    *)
THEOREM ReferencesStayFresh == Spec => []HeldReferencesAreFresh
<1>1. Init => IInv /\ Ordered
  BY InitIInv, InitOrdered
<1>2. IInv /\ Ordered /\ [Next]_vars => (IInv /\ Ordered)'
  BY NextIInv, NextOrdered
<1>3. Ordered => HeldReferencesAreFresh
  BY DEF Ordered, Fresh, HeldReferencesAreFresh
<1> QED
  BY <1>1, <1>2, <1>3, PTL DEF Spec

-----------------------------------------------------------------------------
(***************************************************************************)
(* Proofs about Resolver and what the text of a document says, for every   *)
(* set of documents: the stack of the machine overflows only when          *)
(* definitions need each other, an alias means what its text says, and the *)
(* counts of uses and the warnings are those of the text, although         *)
(* definitions are resolved on demand.                                     *)
(*                                                                         *)
(* Nothing in the code notices a definition that is needed while it is in  *)
(* progress.  But what is in progress is a chain in which each task needs  *)
(* the next one: a task that occurs in it twice shows a cycle of the text. *)
(***************************************************************************)

(* As long as there was no error, or the text has no cycle, no task is     *)
(* completed twice.                                                        *)
Once == ~erroneous \/ ~Cyclic

(* What a call waits for is what its text needs at that place.             *)
Follows(frame, t) ==
    frame.next > 0 /\ frame.pending # None =>
        LET of == t[frame.next].of IN
        /\ Demanding(t[frame.next].form, Kind(of))
        /\ frame.pending # of => /\ Kind(of) = "alias" /\ frame.pending = Denotes(of)
                                 /\ Kind(frame.pending) \in {"structure", "enumeration"}
Linked ==
    \A i \in 1 .. Len(stack) : i # Len(stack) =>
        stack[i].pending # None /\ stack[i + 1].task = Needed(stack[i].pending)
InProgress ==
    \A i \in 1 .. Len(stack) : /\ stack[i].task \notin resolved
                               /\ Follows(stack[i], Text(stack[i].task))

(* The meaning of as many aliases as are resolved is found in as many      *)
(* steps.                                                                  *)
Aliases == {d \in Definitions : Kind(d) = "alias" /\ Task("definition", d) \in resolved}
Meanings ==
    \A d \in DOMAIN meaning :
        /\ \A n \in Cardinality(Aliases) .. Len(program) : Means[n][d] = meaning[d]
        /\ meaning[d] # None => Kind(meaning[d]) \in {"structure", "enumeration"}

(* Without an error, what is complete has all it needs, and what is read   *)
(* has what was needed so far.                                             *)
Passed(frame, t) == \A j \in 1 .. Len(t) : j < frame.next => NeededBy(t[j]) \subseteq resolved
Supplied == /\ \A t \in resolved : Needs(t) \subseteq resolved
            /\ \A i \in 1 .. Len(stack) : Passed(stack[i], Text(stack[i].task))
Grounded == \A S \in SUBSET resolved : S # {} => \E t \in S : Needs(t) \cap S = {}

Chain == /\ Linked /\ resolved \subseteq Written /\ DOMAIN meaning = Aliases
         /\ Once => InProgress /\ Meanings
         /\ ~erroneous => Supplied /\ Grounded

(* The two loops of analyze_document.                                      *)
Turns ==
    /\ phase \in {"resolving", "warning", "finished", "overflow"}
    /\ phase = "resolving" =>
           \A d \in Definitions : d < turn =>
               Entry(d) \in resolved \/ (stack # <<>> /\ stack[1].task = Entry(d))
    /\ phase \in {"warning", "finished"} =>
           stack = <<>> /\ \A d \in Definitions : Entry(d) \in resolved
    /\ phase = "finished" => turn > Len(program)
Deep == phase = "overflow" => Cyclic

(* What has been counted are the uses that have been read.                 *)
Covers(frame, i) == i < frame.next \/ (i = frame.next /\ frame.pending # None)
Seen(t, i) == \/ t \in resolved
              \/ \E k \in 1 .. Len(stack) : stack[k].task = t /\ Covers(stack[k], i)
SeenOf(S) == {s \in S : Seen(s[1], s[2])}
Counts(symbol, S) == IsFiniteSet(SeenOf(S)) /\ use_count[symbol] = Cardinality(SeenOf(S))
Tallied == \A d \in Definitions : /\ Counts(Own(d), Occurrences(d))
                                  /\ Counts(Parameter(d), ParameterUses(d))

(* What has been reported is what nothing in the text uses. *)
Judged(e) == phase \in {"warning", "finished"} /\ e < turn
Warned ==
    warnings = {Parameter(d) : d \in {f \in Definitions : /\ Task("body", f) \in resolved
                                                          /\ ParameterUses(f) = {}}}
               \cup {Own(d) : d \in {e \in Definitions : Judged(e) /\ Occurrences(e) = {}}}
Counting == /\ use_count \in [Symbols -> Nat]
            /\ ~erroneous /\ ~Cyclic => Tallied /\ Warned
-----------------------------------------------------------------------------
(* What the text says does not change. *)

LEMMA SameMeans == ASSUME program' = program PROVE Means' = Means
  BY DEF Means, Kind, Definitions, None, Target

LEMMA SameNeeds ==
    ASSUME program' = program
    PROVE  /\ Cyclic' <=> Cyclic
           /\ Written' = Written
           /\ \A t : Needs(t)' = Needs(t)
           /\ \A u : NeededBy(u)' = NeededBy(u)
           /\ \A d : Denotes(d)' = Denotes(d)
           /\ \A d : Occurrences(d)' = Occurrences(d)
           /\ \A d : ParameterUses(d)' = ParameterUses(d)
<1>1. Means' = Means
  BY SameMeans
<1>2. \A u : NeededBy(u)' = NeededBy(u)
  BY <1>1 DEF NeededBy, Denotes, Kind, None, Task
<1>3. \A d : Denotes(d)' = Denotes(d)
  BY <1>1 DEF Denotes
<1>4. \A t : Needs(t)' = Needs(t)
  BY <1>2 DEF Needs, Text, Task
<1>5. Written' = Written
  BY DEF Written, Tasks, Kind, Definitions
<1>6. Cyclic' <=> Cyclic
  BY <1>4, <1>5 DEF Cyclic
<1>7. \A d : Occurrences(d)' = Occurrences(d)
  BY <1>5 DEF Occurrences, Text
<1>8. \A d : ParameterUses(d)' = ParameterUses(d)
  BY <1>5 DEF ParameterUses, Text
<1> QED
  BY <1>2, <1>3, <1>4, <1>5, <1>6, <1>7, <1>8

(* An alias names one type. *)
LEMMA AliasText ==
    ASSUME program \in Programs, NEW d \in Definitions, Kind(d) = "alias"
    PROVE  /\ Len(program[d].uses) = 1 /\ program[d].uses[1].of \in Definitions
           /\ program[d].uses[1].form \in {"type", "value", "through"}
<1>1. PICK task : task = Task("definition", d)
  OBVIOUS
<1>2. task \in Tasks /\ task.of = d /\ task.part = "definition"
  BY <1>1 DEF Tasks, Task
<1>3. Text(task) = program[d].uses
  BY <1>2 DEF Text
<1>4. Len(program[d].uses) = 1 /\ program[d].uses[1].form \in {"type", "value", "through"}
  BY <1>2, <1>3, TextIsRead
<1>5. 1 \in 1 .. Len(Text(task))
  BY <1>3, <1>4
<1>6. program[d].uses[1].of \in Definitions
  BY <1>2, <1>3, <1>5, UseIsRead
<1> QED
  BY <1>4, <1>6

(* What the text says of names exists, and is what it says at each depth.  *)
LEMMA MeansAtDepth ==
    ASSUME program \in Programs
    PROVE  \A n \in 0 .. Len(program), d \in Definitions :
               Means[n][d] = IF Kind(d) \in {"structure", "enumeration"} THEN d
                             ELSE IF Kind(d) # "alias" \/ n = 0 THEN None
                             ELSE Target(program[d].uses[1], Means[n - 1][program[d].uses[1].of])
<1> DEFINE D == 0 .. Len(program)
           S == [Definitions -> D]
           Depth(g, n) ==
               [d \in Definitions |->
                   IF Kind(d) \in {"structure", "enumeration"} THEN d
                   ELSE IF Kind(d) # "alias" \/ n = 0 THEN None
                   ELSE Target(program[d].uses[1], g[n - 1][program[d].uses[1].of])]
           value == [n \in D |-> [g \in [D -> S] |-> Depth(g, n)]]
           rank == [n \in D |-> n]
           Solution(f) == f = [n \in D |-> Depth(f, n)]
<1>1. Len(program) \in Nat
  BY ProgramsAssumption DEF WellFormed
<1>2. ASSUME NEW n \in D, NEW g \in [D -> S]
      PROVE  Depth(g, n) \in S
  <2>1. ASSUME NEW d \in Definitions
        PROVE  (IF Kind(d) \in {"structure", "enumeration"} THEN d
                ELSE IF Kind(d) # "alias" \/ n = 0 THEN None
                ELSE Target(program[d].uses[1], g[n - 1][program[d].uses[1].of])) \in D
    <3>1. d \in D /\ None \in D
      BY <1>1 DEF Definitions, None
    <3>2. ASSUME Kind(d) = "alias", n # 0
          PROVE  Target(program[d].uses[1], g[n - 1][program[d].uses[1].of]) \in D
      <4>1. program[d].uses[1].of \in Definitions /\ program[d].uses[1].of \in D
        BY <1>1, <3>2, AliasText DEF Definitions
      <4>2. n - 1 \in D
        BY <1>1, <3>2
      <4>3. g[n - 1][program[d].uses[1].of] \in D
        BY <4>1, <4>2
      <4> HIDE DEF D
      <4> QED
        BY <3>1, <4>1, <4>3 DEF Target
    <3> QED
      BY <3>1, <3>2
  <2> QED
    BY <2>1
<1>3. LooksDown(D, S, rank, value)
  <2>1. ASSUME NEW n \in D, NEW g \in [D -> S], NEW h \in [D -> S]
        PROVE  /\ value[n][g] \in S
               /\ (\A m \in D : rank[m] < rank[n] => g[m] = h[m]) => value[n][g] = value[n][h]
    <3>1. value[n][g] = Depth(g, n) /\ value[n][h] = Depth(h, n)
      OBVIOUS
    <3>2. value[n][g] \in S
      BY <1>2, <3>1
    <3>3. ASSUME \A m \in D : rank[m] < rank[n] => g[m] = h[m]
          PROVE  Depth(g, n) = Depth(h, n)
      <4>1. n # 0 => g[n - 1] = h[n - 1]
        BY <1>1, <3>3
      <4> QED
        BY <4>1
    <3> QED
      BY <3>1, <3>2, <3>3
  <2> QED
    BY <2>1 DEF LooksDown
<1>4. rank \in [D -> 0 .. Len(program)]
  OBVIOUS
<1>5. PICK s : s \in S
  <2>1. [d \in Definitions |-> 0] \in S
    BY <1>1
  <2> QED
    BY <2>1
<1>6. PICK f \in [D -> S] : \A n \in D : f[n] = value[n][f]
  <2> HIDE DEF D, S, value, rank
  <2> QED
    BY <1>1, <1>3, <1>4, <1>5, DefinedByRank
<1>7. Solution(f)
  <2>1. \A n \in D : f[n] = Depth(f, n)
    BY <1>6
  <2>2. f = [n \in D |-> f[n]]
    BY <1>6
  <2> HIDE DEF Depth
  <2> QED
    BY <2>1, <2>2
<1>8. Means = CHOOSE g : Solution(g)
  BY DEF Means
<1>9. Solution(Means)
  <2> HIDE DEF Solution
  <2> QED
    BY <1>7, <1>8
<1>10. ASSUME NEW n \in 0 .. Len(program)
       PROVE  Means[n] = Depth(Means, n)
  <2>1. PICK m : m = Means
    OBVIOUS
  <2>2. m = [k \in D |-> Depth(m, k)]
    BY <1>9, <2>1
  <2> HIDE DEF Depth
  <2> QED
    BY <2>1, <2>2
<1> QED
  BY <1>10


-----------------------------------------------------------------------------
(* Chains of tasks. *)

LEMMA NeedsAre ==
    ASSUME NEW task, NEW i \in 1 .. Len(Text(task))
    PROVE  NeededBy(Text(task)[i]) \subseteq Needs(task)
<1>1. i \in DOMAIN Text(task) \/ i \notin DOMAIN Text(task)
  OBVIOUS
<1> QED
  BY DEF Needs

(* What a call waits for is needed where it is in its text. *)
LEMMA DemandIsNeeded ==
    ASSUME program \in Programs, NEW t, NEW frame, Follows(frame, t), frame.next > 0,
           frame.pending # None, t[frame.next].of \in Definitions,
           t[frame.next].form = "through" \/ frame.pending = t[frame.next].of,
           frame.pending \in Definitions
    PROVE  Needed(frame.pending) \in NeededBy(t[frame.next])
<1>1. PICK u : u = t[frame.next]
  OBVIOUS
<1>2. Demanding(u.form, Kind(u.of))
  BY <1>1 DEF Follows
<1>3. CASE frame.pending = u.of
  <2>1. CASE u.form = "type" /\ Kind(u.of) = "alias"
    BY <1>1, <1>3, <2>1 DEF NeededBy, Needed
  <2>2. CASE u.form = "through" /\ Kind(u.of) \in {"structure", "enumeration"}
    BY <1>1, <1>3, <2>2 DEF NeededBy, Needed
  <2>3. CASE u.form = "through" /\ Kind(u.of) = "alias"
    BY <1>1, <1>3, <2>3 DEF NeededBy, Needed
  <2>4. CASE u.form = "value" /\ Kind(u.of) = "function"
    BY <1>1, <1>3, <2>4 DEF NeededBy, Needed
  <2>5. CASE u.form \in {"value", "init"} /\ Kind(u.of) = "structure"
    BY <1>1, <1>3, <2>5 DEF NeededBy, Needed
  <2> QED
    BY <1>2, <2>1, <2>2, <2>3, <2>4, <2>5 DEF Demanding
<1>4. CASE frame.pending # u.of
  <2>1. /\ Kind(u.of) = "alias" /\ frame.pending = Denotes(u.of) /\ u.form = "through"
        /\ Kind(frame.pending) \in {"structure", "enumeration"}
    BY <1>1, <1>4 DEF Follows
  <2>2. Needed(frame.pending) = Task("definition", frame.pending)
    BY <2>1 DEF Needed
  <2>3. Task("definition", frame.pending)
        \in {Task("definition", d) : d \in {Denotes(u.of)} \ {None}}
    BY <2>1
  <2>4. NeededBy(u) = {Task("definition", u.of)}
                      \cup {Task("definition", d) : d \in {Denotes(u.of)} \ {None}}
    BY <2>1 DEF NeededBy
  <2> QED
    BY <1>1, <2>2, <2>3, <2>4
<1> QED
  BY <1>1, <1>3, <1>4

LEMMA ChainIsNeeded ==
    ASSUME IInv, NEW i \in 1 .. Len(stack), stack[i].pending # None,
           Follows(stack[i], Text(stack[i].task))
    PROVE  /\ Needed(stack[i].pending) \in Needs(stack[i].task)
           /\ stack[i].next > 0 =>
                  /\ stack[i].next \in 1 .. Len(Text(stack[i].task))
                  /\ Needed(stack[i].pending) \in NeededBy(Text(stack[i].task)[stack[i].next])
<1>1. PICK frame, t : frame = stack[i] /\ t = Text(stack[i].task)
  OBVIOUS
<1>2. frame \in Calls /\ Sound(frame) /\ program \in Programs
  BY <1>1 DEF IInv, Typed, Frames
<1>3. frame.task \in Tasks /\ frame.next \in Nat /\ frame.pending \in Definitions
  BY <1>1, <1>2 DEF Calls, Definitions, None
<1>4. CASE frame.next = 0
  <2>1. frame.task.part = "body" /\ frame.pending = frame.task.of
    BY <1>2, <1>4 DEF Sound, Beginning
  <2>2. Kind(frame.task.of) = "function"
    BY <1>2, <2>1 DEF Sound, AsWritten
  <2>3. Needed(frame.pending) = Task("signature", frame.task.of)
    BY <2>1, <2>2 DEF Needed
  <2>4. Task("signature", frame.task.of) \in Needs(frame.task)
    BY <2>1 DEF Needs
  <2>5. ~(frame.next > 0)
    BY <1>4
  <2> QED
    BY <1>1, <2>3, <2>4, <2>5
<1>5. CASE frame.next > 0
  <2>1. Len(t) \in Nat
    BY <1>1, <1>2, <1>3, TextIsRead
  <2>2. /\ frame.next \in 1 .. Len(t)
        /\ t[frame.next].form = "through" \/ frame.pending = t[frame.next].of
    BY <1>1, <1>2, <1>3, <1>5, <2>1 DEF Sound, Reads
  <2>3. t[frame.next].of \in Definitions
    BY <1>1, <1>2, <1>3, <2>2, UseIsRead
  <2>4. Needed(frame.pending) \in NeededBy(t[frame.next])
    BY <1>1, <1>2, <1>3, <1>5, <2>2, <2>3, DemandIsNeeded
  <2>5. NeededBy(t[frame.next]) \subseteq Needs(frame.task)
    BY <1>1, <2>2, NeedsAre
  <2> QED
    BY <1>1, <2>2, <2>4, <2>5
<1> QED
  BY <1>1, <1>3, <1>4, <1>5

(* A chain that comes back to where it began is a cycle of the text. *)
LEMMA CycleIsFound ==
    ASSUME NEW i \in Nat, NEW j \in Nat, i < j, NEW s,
           \A k \in i .. j - 1 : s[k] \in Written /\ s[k + 1] \in Needs(s[k]), s[i] = s[j]
    PROVE  Cyclic
<1>1. PICK S : S = {s[k] : k \in i .. j - 1}
  OBVIOUS
<1>2. S \in SUBSET Written /\ S # {}
  <2>1. i \in i .. j - 1
    OBVIOUS
  <2> QED
    BY <1>1, <2>1
<1>3. ASSUME NEW t \in S
      PROVE  Needs(t) \cap S # {}
  <2>1. PICK k \in i .. j - 1 : t = s[k]
    BY <1>1
  <2>2. s[k + 1] \in Needs(t)
    BY <2>1
  <2>3. s[k + 1] \in S
    <3>1. k + 1 = j \/ k + 1 \in i .. j - 1
      OBVIOUS
    <3>2. s[j] \in S
      BY <1>1
    <3> QED
      BY <1>1, <3>1, <3>2
  <2> QED
    BY <2>2, <2>3
<1> QED
  BY <1>2, <1>3 DEF Cyclic

LEMMA CallsAreWritten ==
    ASSUME IInv, NEW i \in 1 .. Len(stack)
    PROVE  stack[i].task \in Written /\ stack[i] \in Calls /\ stack[i].task \in Tasks
<1>1. stack[i] \in Calls /\ Sound(stack[i])
  BY DEF IInv, Typed, Frames
<1> QED
  BY <1>1 DEF Calls, Sound, AsWritten, Written

(* So without a cycle the calls in progress are of different tasks, and    *)
(* none of them is the next to be begun.                                   *)
LEMMA CallsDiffer ==
    ASSUME IInv, Linked, InProgress, ~Cyclic
    PROVE  /\ \A i, j \in 1 .. Len(stack) : i < j => stack[i].task # stack[j].task
           /\ stack # <<>> /\ top.pending # None =>
                  \A i \in 1 .. Len(stack) : stack[i].task # Needed(top.pending)
<1>1. Len(stack) \in Nat
  BY DEF IInv, Typed
<1>2. PICK s : s = [k \in 1 .. Len(stack) + 1 |->
                       IF k = Len(stack) + 1 THEN Needed(top.pending) ELSE stack[k].task]
  OBVIOUS
<1>3. ASSUME NEW k \in 1 .. Len(stack), k = Len(stack) => top.pending # None
      PROVE  s[k] \in Written /\ s[k + 1] \in Needs(s[k])
  <2>1. stack[k].pending # None
    BY <1>3 DEF Linked, top
  <2>2. s[k] = stack[k].task
    BY <1>1, <1>2
  <2>3. s[k + 1] = Needed(stack[k].pending)
    <3>1. CASE k = Len(stack)
      BY <1>1, <1>2, <3>1 DEF top
    <3>2. CASE k # Len(stack)
      BY <1>1, <1>2, <3>2 DEF Linked
    <3> QED
      BY <3>1, <3>2
  <2>4. Needed(stack[k].pending) \in Needs(stack[k].task)
    BY <2>1, ChainIsNeeded DEF InProgress
  <2> QED
    BY <2>2, <2>3, <2>4, CallsAreWritten
<1>4. ASSUME NEW i \in 1 .. Len(stack), NEW j \in 1 .. Len(stack), i < j
      PROVE  stack[i].task # stack[j].task
  <2>1. i \in Nat /\ j \in Nat
    BY <1>1
  <2>2. \A k \in i .. j - 1 : s[k] \in Written /\ s[k + 1] \in Needs(s[k])
    BY <1>1, <1>3, <1>4
  <2>3. s[i] # s[j]
    BY <1>4, <2>1, <2>2, CycleIsFound
  <2>4. s[i] = stack[i].task /\ s[j] = stack[j].task
    BY <1>1, <1>2
  <2> QED
    BY <2>3, <2>4
<1>5. ASSUME stack # <<>>, top.pending # None, NEW i \in 1 .. Len(stack)
      PROVE  stack[i].task # Needed(top.pending)
  <2>1. i \in Nat /\ Len(stack) + 1 \in Nat /\ i < Len(stack) + 1
    BY <1>1
  <2>2. \A k \in i .. (Len(stack) + 1) - 1 : s[k] \in Written /\ s[k + 1] \in Needs(s[k])
    BY <1>1, <1>3, <1>5
  <2>3. s[i] # s[Len(stack) + 1]
    BY <2>1, <2>2, CycleIsFound
  <2>4. s[i] = stack[i].task /\ s[Len(stack) + 1] = Needed(top.pending)
    BY <1>1, <1>2
  <2> QED
    BY <2>3, <2>4
<1> QED
  BY <1>4, <1>5


LEMMA SameFrames ==
    ASSUME program' = program
    PROVE  /\ \A task : Text(task)' = Text(task)
           /\ \A d : Needed(d)' = Needed(d) /\ Kind(d)' = Kind(d) /\ Entry(d)' = Entry(d)
           /\ \A frame, t : Follows(frame, t)' <=> Follows(frame, t)
           /\ resolved \subseteq resolved' =>
                  \A frame, t : Passed(frame, t) => Passed(frame, t)'
<1>1. \A d : Kind(d)' = Kind(d)
  BY DEF Kind
<1>2. \A d : Denotes(d)' = Denotes(d)
  BY SameNeeds
<1>3. \A u : NeededBy(u)' = NeededBy(u)
  BY SameNeeds
<1>4. \A frame, t : Follows(frame, t)' <=> Follows(frame, t)
  BY <1>1, <1>2 DEF Follows
<1>5. resolved \subseteq resolved' => \A frame, t : Passed(frame, t) => Passed(frame, t)'
  BY <1>3 DEF Passed
<1>6. \A d : Needed(d)' = Needed(d) /\ Entry(d)' = Entry(d)
  BY <1>1 DEF Needed, Entry, Task
<1>7. \A task : Text(task)' = Text(task)
  BY DEF Text
<1> QED
  BY <1>1, <1>4, <1>5, <1>6, <1>7

(* A text that has been read to its end has all it needs. *)
LEMMA ReadIsSupplied ==
    ASSUME IInv, Supplied, stack # <<>>, top.pending = None, top.next > Len(text)
    PROVE  /\ Needs(top.task) \subseteq resolved
           /\ \A j \in 1 .. Len(text) : NeededBy(text[j]) \subseteq resolved
           /\ top.next > 0
<1>1. PICK t : t = Text(top.task)
  OBVIOUS
<1>2. /\ top \in Calls /\ Sound(top) /\ top = stack[Len(stack)] /\ Len(stack) \in Nat \ {0}
      /\ top.task \in Tasks /\ program \in Programs
  BY TopIsSound DEF IInv, Typed
<1>3. t \in Seq(Uses(Len(program))) /\ Len(t) \in Nat /\ top.next \in Nat
  BY <1>1, <1>2, TextIsRead DEF Calls
<1>4. top.next > Len(t) /\ top.next > 0 /\ text = t
  BY <1>1, <1>3 DEF text
<1>5. Passed(top, t)
  BY <1>1, <1>2 DEF Supplied
<1>6. ASSUME NEW j \in 1 .. Len(t)
      PROVE  NeededBy(t[j]) \subseteq resolved
  <2>1. j < top.next
    BY <1>3, <1>4
  <2> QED
    BY <1>5, <2>1 DEF Passed
<1>7. top.task.part = "body" => Task("signature", top.task.of) \in resolved
  BY <1>1, <1>2, <1>4 DEF Sound, Reads
<1>8. DOMAIN t = 1 .. Len(t)
  BY <1>3
<1>9. Needs(top.task) \subseteq resolved
  BY <1>1, <1>6, <1>7, <1>8 DEF Needs
<1> QED
  BY <1>4, <1>6, <1>9

(* So a task that is complete is not in progress any more. *)
LEMMA TopIsNew ==
    ASSUME IInv, Chain, Once, stack # <<>>, top.pending = None, top.next > Len(text)
    PROVE  \A i \in 1 .. Len(stack) : i # Len(stack) => stack[i].task # top.task
<1>1. PICK n \in Nat \ {0} : n = Len(stack)
  BY TopIsSound
<1>2. top = stack[n]
  BY <1>1 DEF top
<1>3. SUFFICES ASSUME NEW i \in 1 .. n, i # n, stack[i].task = top.task
               PROVE  FALSE
  BY <1>1
<1>4. InProgress /\ Linked
  BY DEF Chain
<1>5. CASE ~Cyclic
  <2>1. i < n /\ n \in 1 .. n
    BY <1>1, <1>3
  <2> QED
    BY <1>1, <1>2, <1>3, <1>4, <1>5, <2>1, CallsDiffer
<1>6. CASE ~erroneous
  <2>1. PICK frame : frame = stack[i]
    OBVIOUS
  <2>2. frame.pending # None /\ stack[i + 1].task = Needed(frame.pending)
    BY <1>1, <1>3, <1>4, <2>1 DEF Linked
  <2>3. Follows(frame, Text(frame.task))
    BY <1>1, <1>4, <2>1 DEF InProgress
  <2>4. i + 1 \in 1 .. n
    BY <1>1, <1>3
  <2>5. stack[i + 1].task \notin resolved
    BY <1>1, <1>4, <2>4 DEF InProgress
  <2>6. Needed(frame.pending) \in Needs(frame.task)
    BY <1>1, <2>1, <2>2, <2>3, ChainIsNeeded
  <2>7. Needs(top.task) \subseteq resolved
    BY <1>6, ReadIsSupplied DEF Chain
  <2> QED
    BY <1>3, <2>1, <2>2, <2>5, <2>6, <2>7
<1> QED
  BY <1>5, <1>6 DEF Once

LEMMA GroundedGrows ==
    ASSUME Grounded, \A s \in resolved : Needs(s) \subseteq resolved,
           NEW t, t \notin resolved, Needs(t) \subseteq resolved
    PROVE  \A S \in SUBSET (resolved \cup {t}) : S # {} => \E s \in S : Needs(s) \cap S = {}
<1> SUFFICES ASSUME NEW S \in SUBSET (resolved \cup {t}), S # {}
             PROVE  \E s \in S : Needs(s) \cap S = {}
  OBVIOUS
<1>1. PICK R : R = S \ {t}
  OBVIOUS
<1>2. R \in SUBSET resolved
  BY <1>1
<1>3. CASE R = {}
  <2>1. S = {t}
    BY <1>1, <1>3
  <2> QED
    BY <2>1
<1>4. CASE R # {}
  <2>1. PICK s \in R : Needs(s) \cap R = {}
    BY <1>2, <1>4 DEF Grounded
  <2>2. s \in resolved /\ Needs(s) \subseteq resolved /\ s \in S
    BY <1>1, <1>2, <2>1
  <2>3. Needs(s) \cap S = {}
    BY <1>1, <2>1, <2>2
  <2> QED
    BY <2>2, <2>3
<1> QED
  BY <1>3, <1>4

-----------------------------------------------------------------------------
(* What a step does to the calls preserves the chain. *)

LEMMA MoveChain ==
    ASSUME IInv, Chain, stack # <<>>, NEW frame \in Calls, ReplaceTop(frame),
           frame.task = top.task, UNCHANGED <<program, resolved, meaning>>,
           erroneous => erroneous', Once => Follows(frame, text),
           ~erroneous' => Passed(frame, text)
    PROVE  Chain'
<1>1. /\ stack' \in Seq(Calls) /\ Len(stack') = Len(stack)
      /\ stack'[Len(stack)] = frame /\ Len(stack) \in Nat \ {0}
      /\ \A i \in 1 .. Len(stack) : i # Len(stack) => stack'[i] = stack[i]
  BY ReplaceStack, TopIsSound
<1>2. \A i \in 1 .. Len(stack) : stack'[i].task = stack[i].task
  BY <1>1 DEF top
<1>3. Cyclic' <=> Cyclic
  BY SameNeeds
<1>4. Written' = Written /\ Definitions' = Definitions
  BY SameNeeds DEF Definitions
<1>5. Aliases' = Aliases
  BY <1>4 DEF Aliases, Kind, Task
<1>6. Linked'
  <2>1. ASSUME NEW i \in 1 .. Len(stack), i # Len(stack)
        PROVE  stack'[i].pending # None /\ stack'[i + 1].task = Needed(stack[i].pending)'
    <3>1. i + 1 \in 1 .. Len(stack)
      BY <1>1, <2>1
    <3>2. stack'[i] = stack[i] /\ stack'[i + 1].task = stack[i + 1].task
      BY <1>1, <1>2, <2>1, <3>1
    <3>3. stack[i].pending # None /\ stack[i + 1].task = Needed(stack[i].pending)
      BY <2>1 DEF Chain, Linked
    <3>4. PICK d : d = stack[i].pending
      OBVIOUS
    <3>5. Needed(d)' = Needed(d)
      BY SameFrames
    <3> QED
      BY <3>2, <3>3, <3>4, <3>5
  <2> QED
    BY <1>1, <2>1 DEF Linked, None
<1>7. Once' => Once
  BY <1>3 DEF Once
<1>8. Once' => InProgress'
  <2> SUFFICES ASSUME Once PROVE InProgress'
    BY <1>7
  <2>1. ASSUME NEW i \in 1 .. Len(stack)
        PROVE  stack'[i].task \notin resolved' /\ Follows(stack[i], Text(stack[i].task))'
    <3>1. stack'[i].task \notin resolved'
      BY <1>2 DEF Chain, InProgress
    <3>2. PICK moved, t : moved = stack'[i] /\ t = Text(stack[i].task)
      OBVIOUS
    <3>3. Follows(moved, t)
      BY <1>1, <3>2 DEF Chain, InProgress, text, top
    <3>4. Text(stack[i].task)' = t
      BY <1>2, <3>2 DEF Text
    <3>5. Follows(moved, t)'
      BY <3>3, SameFrames
    <3> QED
      BY <3>1, <3>2, <3>4, <3>5
  <2> QED
    BY <1>1, <2>1 DEF InProgress
<1>9. Once' => Meanings'
  <2>1. Means' = Means
    BY SameMeans
  <2> QED
    BY <1>5, <1>7, <2>1 DEF Chain, Meanings, Kind
<1>10. ~erroneous' => Supplied' /\ Grounded'
  <2> SUFFICES ASSUME ~erroneous', Supplied, Grounded PROVE Supplied' /\ Grounded'
    BY DEF Chain
  <2>1. \A t : Needs(t)' = Needs(t)
    BY SameNeeds
  <2>2. Grounded'
    BY <2>1 DEF Grounded
  <2>3. ASSUME NEW i \in 1 .. Len(stack)
        PROVE  Passed(stack[i], Text(stack[i].task))'
    <3>1. PICK moved, t : moved = stack'[i] /\ t = Text(stack[i].task)
      OBVIOUS
    <3>2. Passed(moved, t)
      BY <1>1, <3>1 DEF Supplied, text, top
    <3>3. Text(stack[i].task)' = t
      BY <1>2, <3>1 DEF Text
    <3>4. Passed(moved, t)'
      BY <3>2, SameFrames
    <3> QED
      BY <3>1, <3>3, <3>4
  <2> QED
    BY <1>1, <2>1, <2>2, <2>3 DEF Supplied
<1> QED
  BY <1>4, <1>5, <1>6, <1>8, <1>9, <1>10 DEF Chain


LEMMA SameChain ==
    ASSUME Chain, UNCHANGED <<program, stack, resolved, meaning, erroneous>>
    PROVE  Chain'
<1>1. Cyclic' <=> Cyclic
  BY SameNeeds
<1>2. Written' = Written /\ Definitions' = Definitions
  BY SameNeeds DEF Definitions
<1>3. Aliases' = Aliases
  BY <1>2 DEF Aliases, Kind, Task
<1>4. Once' <=> Once
  BY <1>1 DEF Once
<1>5. Linked'
  BY DEF Chain, Linked, Needed, Kind, Task, None
<1>6. InProgress => InProgress'
  <2> SUFFICES ASSUME InProgress, NEW i \in 1 .. Len(stack)
               PROVE  stack[i].task \notin resolved /\ Follows(stack[i], Text(stack[i].task))'
    BY DEF InProgress
  <2>1. PICK frame, t : frame = stack[i] /\ t = Text(stack[i].task)
    OBVIOUS
  <2>2. Follows(frame, t)'
    BY <2>1, SameFrames DEF InProgress
  <2>3. Text(stack[i].task)' = t
    BY <2>1 DEF Text
  <2> QED
    BY <2>1, <2>2, <2>3 DEF InProgress
<1>7. Meanings => Meanings'
  BY <1>3, SameMeans DEF Meanings, Kind
<1>8. Supplied => Supplied'
  <2> SUFFICES ASSUME Supplied PROVE Supplied'
    OBVIOUS
  <2>1. \A t : Needs(t)' = Needs(t)
    BY SameNeeds
  <2>2. ASSUME NEW i \in 1 .. Len(stack)
        PROVE  Passed(stack[i], Text(stack[i].task))'
    <3>1. PICK frame, t : frame = stack[i] /\ t = Text(stack[i].task)
      OBVIOUS
    <3>2. Passed(frame, t)'
      BY <3>1, SameFrames DEF Supplied
    <3>3. Text(stack[i].task)' = t
      BY <3>1 DEF Text
    <3> QED
      BY <3>1, <3>2, <3>3
  <2> QED
    BY <2>1, <2>2 DEF Supplied
<1>9. Grounded => Grounded'
  BY SameNeeds DEF Grounded
<1> QED
  BY <1>2, <1>3, <1>4, <1>5, <1>6, <1>7, <1>8, <1>9 DEF Chain

LEMMA PushChain ==
    ASSUME IInv, Chain, NEW task \in Tasks, AsWritten(task), stack' = Append(stack, Frame(task)),
           task.part = "body" => stack = <<>>, task \notin resolved,
           UNCHANGED <<program, resolved, meaning, scopes, erroneous>>,
           constructors' = constructors, turn' \in Nat \ {0},
           stack # <<>> => top.pending # None /\ task = Needed(top.pending)
    PROVE  Chain'
<1>1. PICK n \in Nat : n = Len(stack)
  BY LenProperties DEF IInv, Typed
<1>2. PICK frame : frame = Frame(task)
  OBVIOUS
<1>3. /\ Len(stack') = n + 1 /\ stack'[n + 1] = frame
      /\ \A i \in 1 .. n : stack'[i] = stack[i]
  BY <1>1, <1>2, PushIInv
<1>4. /\ frame.task = task /\ (frame.next = 0 \/ frame.next = 1)
      /\ frame.next > 0 => frame.pending = None
  BY <1>2 DEF Frame
<1>5. Cyclic' <=> Cyclic
  BY SameNeeds
<1>6. Written' = Written /\ Definitions' = Definitions
  BY SameNeeds DEF Definitions
<1>7. Aliases' = Aliases
  BY <1>6 DEF Aliases, Kind, Task
<1>8. Once' <=> Once
  BY <1>5 DEF Once
<1>9. Linked'
  <2>1. ASSUME NEW i \in 1 .. n
        PROVE  stack[i].pending # None /\ stack'[i + 1].task = Needed(stack[i].pending)
    <3>1. CASE i = n
      <4>1. stack # <<>> /\ top = stack[n]
        BY <1>1, <2>1, EmptySeq DEF top
      <4> QED
        BY <1>3, <1>4, <3>1, <4>1
    <3>2. CASE i # n
      <4>1. i + 1 \in 1 .. n
        BY <2>1, <3>2
      <4> QED
        BY <1>1, <1>3, <2>1, <3>2, <4>1 DEF Chain, Linked
    <3> QED
      BY <3>1, <3>2
  <2>2. ASSUME NEW i \in 1 .. n
        PROVE  stack'[i].pending # None /\ stack'[i + 1].task = Needed(stack[i].pending)'
    <3>1. PICK d : d = stack[i].pending
      OBVIOUS
    <3>2. Needed(d)' = Needed(d) /\ stack'[i] = stack[i]
      BY <1>3, SameFrames
    <3> QED
      BY <2>1, <3>1, <3>2
  <2> QED
    BY <1>1, <1>3, <2>2 DEF Linked, None
<1>10. InProgress => InProgress'
  <2> SUFFICES ASSUME InProgress, NEW i \in 1 .. n + 1
               PROVE  stack'[i].task \notin resolved' /\ Follows(stack[i], Text(stack[i].task))'
    BY <1>3 DEF InProgress
  <2>1. PICK one, t : one = stack'[i] /\ t = Text(one.task)
    OBVIOUS
  <2>2. one.task \notin resolved /\ Follows(one, t)
    <3>1. CASE i = n + 1
      BY <1>3, <1>4, <2>1, <3>1 DEF Follows
    <3>2. CASE i # n + 1
      <4>1. i \in 1 .. Len(stack)
        BY <1>1, <3>2
      <4> QED
        BY <1>1, <1>3, <2>1, <4>1 DEF InProgress
    <3> QED
      BY <3>1, <3>2
  <2>3. Follows(one, t)' /\ Text(one.task)' = t
    BY <2>1, <2>2, SameFrames
  <2> QED
    BY <2>1, <2>2, <2>3
<1>11. Meanings => Meanings'
  BY <1>7, SameMeans DEF Meanings, Kind
<1>12. Supplied => Supplied'
  <2> SUFFICES ASSUME Supplied PROVE Supplied'
    OBVIOUS
  <2>1. \A t : Needs(t)' = Needs(t)
    BY SameNeeds
  <2>2. ASSUME NEW i \in 1 .. n + 1
        PROVE  Passed(stack[i], Text(stack[i].task))'
    <3>1. PICK one, t : one = stack'[i] /\ t = Text(one.task)
      OBVIOUS
    <3>2. Passed(one, t)
      <4>1. CASE i = n + 1
        BY <1>3, <1>4, <3>1, <4>1 DEF Passed
      <4>2. CASE i # n + 1
        <5>1. i \in 1 .. Len(stack)
          BY <1>1, <4>2
        <5> QED
          BY <1>1, <1>3, <3>1, <5>1 DEF Supplied
      <4> QED
        BY <4>1, <4>2
    <3>3. Passed(one, t)' /\ Text(one.task)' = t
      BY <3>1, <3>2, SameFrames
    <3> QED
      BY <3>1, <3>3
  <2> QED
    BY <1>3, <2>1, <2>2 DEF Supplied
<1>13. Grounded => Grounded'
  BY SameNeeds DEF Grounded
<1> QED
  BY <1>6, <1>7, <1>8, <1>9, <1>10, <1>11, <1>12, <1>13 DEF Chain

LEMMA PopChain ==
    ASSUME IInv, Chain, stack # <<>>, top.pending = None, top.next > Len(text),
           Pop, Remember, program' = program, erroneous => erroneous',
           DOMAIN meaning' = Aliases', Once' => Meanings'
    PROVE  Chain'
<1>1. PICK n \in Nat \ {0} : n = Len(stack)
  BY TopIsSound
<1>2. Len(stack') = n - 1 /\ \A i \in 1 .. n - 1 : i \in 1 .. n /\ stack'[i] = stack[i]
  BY <1>1, PopStack
<1>3. resolved' = resolved \cup {top.task} /\ resolved \subseteq resolved'
  BY DEF Remember
<1>4. Cyclic' <=> Cyclic
  BY SameNeeds
<1>5. resolved' \subseteq Written'
  <2>1. top.task \in Written
    BY <1>1, CallsAreWritten DEF top
  <2>2. Written' = Written
    BY SameNeeds
  <2> QED
    BY <1>3, <2>1, <2>2 DEF Chain
<1>6. Linked'
  <2>1. ASSUME NEW i \in 1 .. n - 1, i # n - 1
        PROVE  stack'[i].pending # None /\ stack'[i + 1].task = Needed(stack[i].pending)'
    <3>1. PICK d : d = stack[i].pending
      OBVIOUS
    <3>2. Needed(d)' = Needed(d)
      BY SameFrames
    <3>3. i + 1 \in 1 .. n - 1 /\ i # n
      BY <2>1
    <3>4. stack'[i] = stack[i] /\ stack'[i + 1] = stack[i + 1]
      BY <1>2, <3>3
    <3>5. stack[i].pending # None /\ stack[i + 1].task = Needed(stack[i].pending)
      BY <1>1, <1>2, <3>3 DEF Chain, Linked
    <3> QED
      BY <3>1, <3>2, <3>4, <3>5
  <2> QED
    BY <1>2, <2>1 DEF Linked, None
<1>7. Once' => Once
  BY <1>4 DEF Once
<1>8. Once' => InProgress'
  <2> SUFFICES ASSUME Once, NEW i \in 1 .. n - 1
               PROVE  stack'[i].task \notin resolved' /\ Follows(stack[i], Text(stack[i].task))'
    BY <1>2, <1>7 DEF InProgress
  <2>1. PICK one, t : one = stack'[i] /\ t = Text(one.task)
    OBVIOUS
  <2>2. one = stack[i] /\ i \in 1 .. Len(stack) /\ i # Len(stack)
    BY <1>1, <1>2, <2>1
  <2>3. one.task \notin resolved /\ Follows(one, t)
    BY <2>1, <2>2 DEF Chain, InProgress
  <2>4. one.task # top.task
    BY <2>2, TopIsNew
  <2>5. Follows(one, t)' /\ Text(one.task)' = t
    BY <2>1, <2>3, SameFrames
  <2> QED
    BY <1>3, <2>1, <2>3, <2>4, <2>5
<1>9. ~erroneous' => Supplied' /\ Grounded'
  <2> SUFFICES ASSUME ~erroneous', ~erroneous, Supplied, Grounded, Once, InProgress
               PROVE  Supplied' /\ Grounded'
    BY DEF Chain, Once
  <2>1. \A t : Needs(t)' = Needs(t)
    BY SameNeeds
  <2>2. Needs(top.task) \subseteq resolved
    BY ReadIsSupplied
  <2>3. \A t \in resolved : Needs(t) \subseteq resolved
    BY DEF Supplied
  <2>4. \A t \in resolved' : Needs(t)' \subseteq resolved'
    BY <1>3, <2>1, <2>2, <2>3
  <2>5. top.task \notin resolved
    BY <1>1 DEF InProgress, top
  <2>6. Grounded'
    BY <1>3, <2>1, <2>2, <2>3, <2>5, GroundedGrows DEF Grounded
  <2>7. ASSUME NEW i \in 1 .. n - 1
        PROVE  Passed(stack[i], Text(stack[i].task))'
    <3>1. PICK one, t : one = stack'[i] /\ t = Text(one.task)
      OBVIOUS
    <3>2. Passed(one, t)
      BY <1>1, <1>2, <3>1 DEF Supplied
    <3>3. Passed(one, t)' /\ Text(one.task)' = t
      BY <1>3, <3>1, <3>2, SameFrames
    <3> QED
      BY <3>1, <3>3
  <2> QED
    BY <1>2, <2>4, <2>6, <2>7 DEF Supplied
<1> QED
  BY <1>5, <1>6, <1>8, <1>9 DEF Chain


-----------------------------------------------------------------------------
(* Reading a text preserves the chain. *)

LEMMA ReadOnChain ==
    ASSUME IInv, Chain, stack # <<>>, NEW m \in Nat, NEW held \in Seq(Nat),
           ReplaceTop(ReadTo(m, held)), UNCHANGED <<program, resolved, meaning>>,
           erroneous => erroneous',
           ~erroneous' => /\ m = top.next + 1
                          /\ top.next # 0 => NeededBy(text[top.next]) \subseteq resolved
    PROVE  Chain'
<1>1. PICK frame : frame = ReadTo(m, held)
  OBVIOUS
<1>2. /\ frame = [task |-> top.task, held |-> held, next |-> m, pending |-> None]
      /\ frame.task = top.task /\ frame.next = m /\ frame.pending = None
  BY <1>1 DEF ReadTo
<1>3. top \in Calls /\ program \in Programs /\ top.task \in Tasks
  BY TopIsSound DEF IInv, Typed
<1>4. None \in 0 .. Len(program) /\ Len(program) \in Nat
  BY <1>3, ProgramsAssumption, LenProperties DEF WellFormed, None
<1>5. frame \in Calls
  BY <1>2, <1>3, <1>4 DEF Calls
<1>6. Follows(frame, text)
  BY <1>2 DEF Follows
<1>7. ~erroneous' => Passed(frame, text)
  <2> SUFFICES ASSUME ~erroneous', NEW j \in 1 .. Len(text), j < frame.next
               PROVE  NeededBy(text[j]) \subseteq resolved
    BY DEF Passed
  <2>1. top.next \in Nat /\ frame.next = top.next + 1 /\ Len(text) \in Nat
    BY <1>2, <1>3, TextIsRead DEF Calls, text
  <2>2. Len(stack) \in 1 .. Len(stack)
    BY TopIsSound
  <2>3. Passed(top, text)
    BY <2>2 DEF Chain, Supplied, top, text
  <2>4. CASE j < top.next
    BY <2>3, <2>4 DEF Passed
  <2>5. CASE j = top.next
    BY <2>1, <2>5
  <2> QED
    BY <2>1, <2>4, <2>5
<1> QED
  BY <1>1, <1>2, <1>5, <1>6, <1>7, MoveChain

LEMMA UseParameterChain ==
    ASSUME IInv, Chain, UseParameter
    PROVE  Chain'
<1>1. /\ Reading /\ use.form = "parameter"
      /\ UNCHANGED <<program, resolved, meaning, erroneous>>
      /\ ReplaceTop([top EXCEPT !.next = @ + 1])
  BY DEF UseParameter
<1>2. stack # <<>> /\ top \in Calls /\ top.pending = None /\ top.next \in Nat \ {0}
  BY <1>1, WhenReading
<1>3. PICK m \in Nat : m = top.next + 1
  BY <1>2
<1>4. [top EXCEPT !.next = @ + 1] = ReadTo(m, top.held)
  BY <1>2, <1>3, MovedFrame DEF ReadTo
<1>5. top.held \in Seq(Nat)
  BY <1>2 DEF Calls
<1>6. NeededBy(use) = {}
  BY <1>1 DEF NeededBy
<1> QED
  BY <1>1, <1>2, <1>3, <1>4, <1>5, <1>6, ReadOnChain DEF use

LEMMA ReadFieldChain ==
    ASSUME IInv, Chain, ReadField
    PROVE  Chain'
<1> DEFINE rest == SubSeq(top.held, 1, Len(top.held) - 1)
<1>1. /\ Reading /\ use.form = "field"
      /\ UNCHANGED <<program, resolved, meaning, erroneous>>
      /\ ReplaceTop([top EXCEPT !.next = @ + 1, !.held = SubSeq(@, 1, Len(top.held) - 1)])
  BY DEF ReadField
<1>2. stack # <<>> /\ top \in Calls /\ top.pending = None /\ top.next \in Nat \ {0}
  BY <1>1, WhenReading
<1>3. PICK m \in Nat : m = top.next + 1
  BY <1>2
<1>4. PICK held \in Seq(Nat) : held = rest
  BY ReadFieldIInv
<1>5. [top EXCEPT !.next = @ + 1, !.held = SubSeq(@, 1, Len(top.held) - 1)]
      = ReadTo(m, held)
  <2>1. PICK done : done = [top EXCEPT !.next = m]
    OBVIOUS
  <2>2. done = [task |-> top.task, held |-> top.held, next |-> m, pending |-> top.pending]
    BY <1>2, <2>1, MovedFrame
  <2>3. [done EXCEPT !.held = held]
        = [task |-> top.task, held |-> held, next |-> m, pending |-> top.pending]
    BY <2>2
  <2>4. [top EXCEPT !.next = @ + 1, !.held = SubSeq(@, 1, Len(top.held) - 1)]
        = [done EXCEPT !.held = held]
    BY <1>3, <1>4, <2>1
  <2> QED
    BY <1>2, <2>3, <2>4 DEF ReadTo
<1>6. NeededBy(use) = {}
  BY <1>1 DEF NeededBy
<1> QED
  BY <1>1, <1>2, <1>3, <1>5, <1>6, ReadOnChain DEF use

LEMMA LookUpChain ==
    ASSUME IInv, Chain, LookUp
    PROVE  Chain'
<1>1. /\ Reading /\ use.form \in PathForms
      /\ UNCHANGED <<program, resolved, meaning>>
  BY DEF LookUp
<1>2. /\ stack # <<>> /\ program \in Programs /\ top \in Calls /\ top.task \in Tasks
      /\ top.pending = None /\ Len(text) \in Nat
      /\ top.next \in 1 .. Len(text) /\ top.next \in Nat \ {0} /\ use.of \in Definitions
  BY <1>1, WhenReading
<1>3. CASE Demanding(use.form, Kind(use.of))
  <2>1. PICK frame : frame = [top EXCEPT !.pending = use.of]
    OBVIOUS
  <2>2. ReplaceTop(frame) /\ erroneous' = erroneous
    BY <1>3, <2>1 DEF LookUp
  <2>3. use.of \in 0 .. Len(program)
    BY <1>2 DEF Definitions
  <2>4. /\ frame \in Calls /\ frame.task = top.task
        /\ frame.next = top.next /\ frame.pending = use.of
    BY <1>2, <2>1, <2>3 DEF Calls
  <2>5. Follows(frame, text)
    BY <1>3, <2>4 DEF Follows, use
  <2>6. ~erroneous' => Passed(frame, text)
    <3>1. Len(stack) \in 1 .. Len(stack)
      BY <1>2, TopIsSound
    <3>2. ~erroneous => Passed(top, text)
      BY <3>1 DEF Chain, Supplied, top, text
    <3> QED
      BY <2>2, <2>4, <3>2 DEF Passed
  <2> QED
    BY <1>1, <1>2, <2>2, <2>4, <2>5, <2>6, MoveChain
<1>4. CASE ~Demanding(use.form, Kind(use.of))
  <2>1. /\ ReplaceTop([top EXCEPT !.next = After])
        /\ erroneous' = (erroneous \/ ~Immediate(use.form, Kind(use.of)))
    BY <1>4 DEF LookUp
  <2>2. PICK m \in Nat : m = After
    BY <1>1, <1>2, AfterIsFound
  <2>3. [top EXCEPT !.next = After] = ReadTo(m, top.held)
    BY <1>2, <2>2, MovedFrame DEF ReadTo
  <2>4. top.held \in Seq(Nat)
    BY <1>2 DEF Calls
  <2>5. ASSUME ~erroneous'
        PROVE  m = top.next + 1 /\ NeededBy(text[top.next]) \subseteq resolved
    <3>1. use.form = "type" /\ Kind(use.of) \in {"structure", "enumeration"}
      BY <2>1, <2>5 DEF Immediate
    <3>2. After = top.next + 1
      BY <3>1 DEF After
    <3>3. NeededBy(use) = {}
      BY <3>1 DEF NeededBy
    <3> QED
      BY <2>2, <3>2, <3>3 DEF use
  <2>6. erroneous => erroneous'
    BY <2>1
  <2> QED
    BY <1>1, <1>2, <2>1, <2>3, <2>4, <2>5, <2>6, ReadOnChain
<1> QED
  BY <1>3, <1>4

(* A path that asks for one definition needs no other. *)
LEMMA DemandIsAll ==
    ASSUME NEW u, Demanding(u.form, Kind(u.of)),
           ~(u.form = "through" /\ Kind(u.of) = "alias")
    PROVE  NeededBy(u) = {Needed(u.of)}
<1>1. CASE u.form = "type" /\ Kind(u.of) = "alias"
  BY <1>1 DEF NeededBy, Needed
<1>2. CASE u.form = "through" /\ Kind(u.of) \in {"structure", "enumeration"}
  BY <1>2 DEF NeededBy, Needed
<1>3. CASE u.form = "value" /\ Kind(u.of) = "function"
  BY <1>3 DEF NeededBy, Needed
<1>4. CASE u.form \in {"value", "init"} /\ Kind(u.of) = "structure"
  BY <1>4 DEF NeededBy, Needed
<1> QED
  BY <1>1, <1>2, <1>3, <1>4 DEF Demanding

LEMMA TopFollows ==
    ASSUME IInv, Chain, Once, stack # <<>>
    PROVE  Follows(top, text)
<1>1. Len(stack) \in 1 .. Len(stack)
  BY TopIsSound
<1> QED
  BY <1>1 DEF Chain, InProgress, top, text

LEMMA ProceedChain ==
    ASSUME IInv, Chain, Proceed
    PROVE  Chain'
<1>1. /\ Pending /\ Needed(top.pending) \in resolved /\ Asking \in {"body", "type", "value", "init"}
      /\ UNCHANGED <<program, resolved, meaning, erroneous>>
      /\ Asking # "init" => ReplaceTop([top EXCEPT !.next = @ + 1, !.pending = None])
      /\ Asking = "init" => ReplaceTop([[top EXCEPT !.next = @ + 1, !.pending = None]
                                            EXCEPT !.held = Append(@, constructors)])
  BY DEF Proceed, Remembered
<1>2. /\ stack # <<>> /\ top \in Calls /\ top.next \in Nat
      /\ top.next # 0 => /\ use.form = "through" \/ top.pending = use.of
  BY <1>1, WhenPending
<1>3. PICK m \in Nat : m = top.next + 1
  BY <1>2
<1>4. PICK done : done = [top EXCEPT !.next = @ + 1, !.pending = None]
  OBVIOUS
<1>5. done = ReadTo(m, top.held)
  BY <1>2, <1>3, <1>4, MovedFrame DEF ReadTo
<1>6. top.held \in Seq(Nat)
  BY <1>2 DEF Calls
<1>7. ASSUME ~erroneous, top.next # 0
      PROVE  NeededBy(text[top.next]) \subseteq resolved
  <2>1. use.form # "through" /\ top.pending = use.of /\ top.next > 0 /\ top.pending # None
    BY <1>1, <1>2, <1>7 DEF Asking, Pending
  <2>2. Follows(top, text)
    BY <1>2, <1>7, TopFollows DEF Once
  <2>3. Demanding(use.form, Kind(use.of))
    BY <2>1, <2>2 DEF Follows, use
  <2>4. NeededBy(use) = {Needed(use.of)}
    BY <2>1, <2>3, DemandIsAll
  <2> QED
    BY <1>1, <2>1, <2>4 DEF use
<1>8. PICK held \in Seq(Nat) : ReplaceTop(ReadTo(m, held))
  <2>1. CASE Asking # "init"
    BY <1>1, <1>4, <1>5, <1>6, <2>1
  <2>2. CASE Asking = "init"
    <3>1. PICK held : held = Append(top.held, constructors)
      OBVIOUS
    <3>2. held \in Seq(Nat)
      BY <1>6, <3>1, AppendProperties DEF IInv, Typed
    <3>3. done.held = top.held
      BY <1>5 DEF ReadTo
    <3>4. ReplaceTop([done EXCEPT !.held = held])
      BY <1>1, <1>4, <2>2, <3>1, <3>3
    <3>5. [done EXCEPT !.held = held] = ReadTo(m, held)
      BY <1>5 DEF ReadTo
    <3> QED
      BY <3>2, <3>4, <3>5
  <2> QED
    BY <2>1, <2>2
<1> QED
  BY <1>1, <1>2, <1>3, <1>7, <1>8, ReadOnChain

(* An alias that is resolved means what its text says. *)
LEMMA AliasIsKnown ==
    ASSUME IInv, Chain, Once, NEW d \in Definitions, Kind(d) = "alias",
           Task("definition", d) \in resolved
    PROVE  /\ meaning[d] = Denotes(d)
           /\ meaning[d] # None => Kind(meaning[d]) \in {"structure", "enumeration"}
<1>1. d \in DOMAIN meaning
  BY DEF Chain, Aliases
<1>2. Cardinality(Aliases) \in 0 .. Len(program) /\ Len(program) \in Nat
  <2>1. Len(program) \in Nat
    BY ProgramsAssumption, LenProperties DEF IInv, Typed, WellFormed
  <2>2. IsFiniteSet(Definitions) /\ Cardinality(Definitions) = Len(program)
    <3>1. PICK n \in Nat : n = Len(program)
      BY <2>1
    <3>2. IsFiniteSet(1 .. n) /\ Cardinality(1 .. n) = (IF 1 <= n THEN n - 1 + 1 ELSE 0)
      BY FS_Interval
    <3> QED
      BY <3>1, <3>2 DEF Definitions
  <2>3. Aliases \subseteq Definitions
    BY DEF Aliases
  <2>4. IsFiniteSet(Aliases) /\ Cardinality(Aliases) <= Cardinality(Definitions)
    BY <2>2, <2>3, FS_Subset
  <2>5. Cardinality(Aliases) \in Nat
    BY <2>4, FS_CardinalityType
  <2> QED
    BY <2>1, <2>2, <2>4, <2>5
<1>3. Len(program) \in Cardinality(Aliases) .. Len(program)
  BY <1>2
<1> QED
  BY <1>1, <1>3 DEF Chain, Meanings, Denotes

LEMMA ProceedThroughChain ==
    ASSUME IInv, Chain, ProceedThrough
    PROVE  Chain'
<1> DEFINE d == top.pending
           means == [top EXCEPT !.pending = meaning[d]]
<1>1. /\ Pending /\ Needed(d) \in resolved /\ Asking = "through"
      /\ UNCHANGED <<program, resolved, meaning>>
  BY DEF ProceedThrough, Remembered
<1>2. \/ /\ ReplaceTop([top EXCEPT !.next = @ + 1, !.pending = None])
         /\ (erroneous => erroneous') /\ (~erroneous' => Kind(d) = "enumeration")
      \/ /\ Kind(d) = "alias" /\ meaning[d] # None /\ ReplaceTop(means)
         /\ erroneous' = erroneous
  <2>1. CASE Kind(d) = "enumeration"
    BY <2>1 DEF ProceedThrough
  <2>2. CASE Kind(d) # "enumeration" /\ Kind(d) = "alias" /\ meaning[d] # None
    BY <2>2 DEF ProceedThrough
  <2>3. CASE Kind(d) # "enumeration" /\ ~(Kind(d) = "alias" /\ meaning[d] # None)
    BY <2>3 DEF ProceedThrough
  <2> QED
    BY <2>1, <2>2, <2>3
<1>3. top.next # 0 /\ use.form = "through"
  BY <1>1 DEF Asking
<1>4. /\ stack # <<>> /\ program \in Programs /\ top \in Calls
      /\ d \in Definitions /\ use.of \in Definitions
      /\ Len(text) \in Nat /\ top.next \in 1 .. Len(text) /\ top.next \in Nat \ {0}
      /\ d = use.of \/ Needed(use.of) \in resolved
  BY <1>1, <1>3, WhenPending
<1>5. d # None /\ top.next > 0
  BY <1>1, <1>4 DEF Pending
<1>6. Once => /\ Demanding(use.form, Kind(use.of))
              /\ d # use.of => /\ Kind(use.of) = "alias" /\ d = Denotes(use.of)
                               /\ Kind(d) \in {"structure", "enumeration"}
  BY <1>4, <1>5, TopFollows DEF Follows, use
<1>7. CASE /\ ReplaceTop([top EXCEPT !.next = @ + 1, !.pending = None])
           /\ (erroneous => erroneous') /\ (~erroneous' => Kind(d) = "enumeration")
  <2>1. PICK m \in Nat : m = top.next + 1
    BY <1>4
  <2>2. [top EXCEPT !.next = @ + 1, !.pending = None] = ReadTo(m, top.held)
    BY <1>4, <2>1, MovedFrame DEF ReadTo
  <2>3. top.held \in Seq(Nat)
    BY <1>4 DEF Calls
  <2>4. ASSUME ~erroneous'
        PROVE  NeededBy(text[top.next]) \subseteq resolved
    <3>1. Kind(d) = "enumeration" /\ Once
      BY <1>7, <2>4 DEF Once
    <3>2. CASE d = use.of
      <4>1. NeededBy(use) = {Needed(use.of)}
        BY <1>6, <3>1, <3>2, DemandIsAll
      <4> QED
        BY <1>1, <3>2, <4>1 DEF use
    <3>3. CASE d # use.of
      <4>1. Kind(use.of) = "alias" /\ d = Denotes(use.of)
        BY <1>6, <3>1, <3>3
      <4>2. NeededBy(use) = {Task("definition", use.of)}
                            \cup {Task("definition", c) : c \in {d} \ {None}}
        BY <1>3, <4>1 DEF NeededBy
      <4>3. Needed(use.of) = Task("definition", use.of) /\ Needed(d) = Task("definition", d)
        BY <3>1, <4>1 DEF Needed
      <4> QED
        BY <1>1, <1>4, <3>3, <4>2, <4>3 DEF use
    <3> QED
      BY <3>2, <3>3
  <2> QED
    BY <1>1, <1>4, <1>7, <2>1, <2>2, <2>3, <2>4, ReadOnChain
<1>8. CASE /\ Kind(d) = "alias" /\ meaning[d] # None /\ ReplaceTop(means)
           /\ erroneous' = erroneous
  <2>1. Needed(d) = Task("definition", d)
    BY <1>8 DEF Needed
  <2>2. meaning[d] \in 0 .. Len(program)
    BY <1>1, <1>4, <1>8, <2>1 DEF IInv, Typed
  <2>3. PICK frame : frame = means
    OBVIOUS
  <2>4. /\ frame \in Calls /\ frame.task = top.task
        /\ frame.next = top.next /\ frame.pending = meaning[d]
    BY <1>4, <2>2, <2>3 DEF Calls
  <2>5. Once => Follows(frame, text)
    <3> SUFFICES ASSUME Once PROVE Follows(frame, text)
      OBVIOUS
    <3>1. d = use.of
      BY <1>6, <1>8
    <3>2. meaning[d] = Denotes(d) /\ Kind(meaning[d]) \in {"structure", "enumeration"}
      BY <1>1, <1>4, <1>8, <2>1, AliasIsKnown
    <3> QED
      BY <1>6, <1>8, <2>4, <3>1, <3>2 DEF Follows, use
  <2>6. ~erroneous' => Passed(frame, text)
    <3>1. Len(stack) \in 1 .. Len(stack)
      BY <1>4, TopIsSound
    <3>2. ~erroneous => Passed(top, text)
      BY <3>1 DEF Chain, Supplied, top, text
    <3> QED
      BY <1>8, <2>4, <3>2 DEF Passed
  <2> QED
    BY <1>1, <1>4, <1>8, <2>3, <2>4, <2>5, <2>6, MoveChain
<1> QED
  BY <1>2, <1>7, <1>8


-----------------------------------------------------------------------------
(* Calling and returning preserve the chain. *)

LEMMA CallChain ==
    ASSUME IInv, Chain, Call
    PROVE  Chain'
<1>1. /\ Pending /\ Needed(top.pending) \notin resolved /\ Push(Needed(top.pending))
      /\ UNCHANGED <<program, turn, resolved, meaning, scopes, erroneous>>
      /\ constructors' = constructors
  BY DEF Call
<1>2. top.pending \in Definitions /\ top.pending # None
  BY <1>1, WhenPending DEF Pending
<1>3. turn' \in Nat \ {0}
  BY <1>1 DEF IInv, Typed
<1>4. CASE Len(stack) = MaxDepth
  <2>1. stack' = stack
    BY <1>1, <1>4 DEF Push
  <2> QED
    BY <1>1, <2>1, SameChain
<1>5. CASE Len(stack) # MaxDepth
  <2>1. stack' = Append(stack, Frame(Needed(top.pending)))
    BY <1>1, <1>5 DEF Push
  <2>2. PICK task \in Tasks : /\ task = Needed(top.pending) /\ AsWritten(task)
                              /\ task.part # "body"
    BY <1>2, NeededIsWritten
  <2> QED
    BY <1>1, <1>2, <1>3, <2>1, <2>2, PushChain
<1> QED
  BY <1>4, <1>5

LEMMA ResolveSymbolChain ==
    ASSUME IInv, Chain, ResolveSymbol
    PROVE  Chain'
<1>1. /\ stack = <<>> /\ turn <= Len(program) /\ turn' = turn + 1
      /\ UNCHANGED <<program, resolved, meaning, scopes, erroneous>>
      /\ constructors' = constructors
      /\ Entry(turn) \in resolved => stack' = stack
      /\ Entry(turn) \notin resolved => Push(Entry(turn))
  BY DEF ResolveSymbol
<1>2. turn \in Nat \ {0} /\ turn' \in Nat \ {0}
  BY <1>1 DEF IInv, Typed
<1>3. CASE Entry(turn) \in resolved \/ Len(stack) = MaxDepth
  <2>1. stack' = stack
    BY <1>1, <1>3 DEF Push
  <2> QED
    BY <1>1, <2>1, SameChain
<1>4. CASE Entry(turn) \notin resolved /\ Len(stack) # MaxDepth
  <2>1. stack' = Append(stack, Frame(Entry(turn)))
    BY <1>1, <1>4 DEF Push
  <2>2. turn \in Definitions
    <3>1. Len(program) \in Nat
      BY ProgramsAssumption, LenProperties DEF IInv, Typed, WellFormed
    <3> QED
      BY <1>1, <1>2, <3>1 DEF Definitions
  <2>3. PICK task \in Tasks : task = Entry(turn) /\ AsWritten(task)
    BY <2>2, NeededIsWritten
  <2> QED
    BY <1>1, <1>2, <1>4, <2>1, <2>3, PushChain
<1> QED
  BY <1>3, <1>4

(* The type that is found when the text of an alias has been read is the   *)
(* one that its text means.                                                *)
LEMMA TypeIsMeant ==
    ASSUME IInv, Chain, Once, stack # <<>>, Kind(top.task.of) = "alias", top.next > Len(text),
           NEW n \in Cardinality(Aliases) + 1 .. Len(program)
    PROVE  /\ TypeOf(text[1]) = Means[n][top.task.of]
           /\ TypeOf(text[1]) # None => Kind(TypeOf(text[1])) \in {"structure", "enumeration"}
<1>1. /\ top \in Calls /\ Sound(top) /\ top.task \in Tasks /\ program \in Programs
      /\ top.task.of \in Definitions
  BY TopIsSound, TextIsRead DEF IInv, Typed
<1>2. PICK d, u : d = top.task.of /\ u = text[1]
  OBVIOUS
<1>3. Cardinality(Aliases) \in Nat /\ Len(program) \in Nat
  <2>1. Len(program) \in Nat
    BY <1>1, ProgramsAssumption, LenProperties DEF WellFormed
  <2>2. IsFiniteSet(Definitions) /\ Aliases \subseteq Definitions
    BY <2>1, FS_Interval DEF Definitions, Aliases
  <2> QED
    BY <2>1, <2>2, FS_Subset, FS_CardinalityType
<1>4. /\ n \in 0 .. Len(program) /\ n - 1 \in 0 .. Len(program) /\ n # 0
      /\ n - 1 \in Cardinality(Aliases) .. Len(program)
  BY <1>3
<1>5. text = program[d].uses /\ Len(text) = 1 /\ u.form \in {"type", "value", "through"}
      /\ u.of \in Definitions
  <2>1. top.task.part # "signature"
    BY <1>1, <1>2 DEF Sound, AsWritten
  <2>2. text = program[d].uses
    BY <1>2, <2>1 DEF text, Text
  <2> QED
    BY <1>1, <1>2, <2>2, AliasText
<1>6. PICK below : below = Means[n - 1][u.of]
  OBVIOUS
<1>7. Means[n][d] = Target(u, below)
  <2>1. Means[n][d] = Target(program[d].uses[1], Means[n - 1][program[d].uses[1].of])
    BY <1>1, <1>2, <1>4, MeansAtDepth
  <2> QED
    BY <1>2, <1>5, <1>6, <2>1
<1>8. below = IF Kind(u.of) \in {"structure", "enumeration"} THEN u.of
              ELSE IF Kind(u.of) # "alias" THEN None ELSE below
  BY <1>1, <1>4, <1>5, <1>6, MeansAtDepth
<1>9. ASSUME Kind(u.of) = "alias", Demanding(u.form, Kind(u.of))
      PROVE  /\ below = meaning[u.of]
             /\ meaning[u.of] # None => Kind(meaning[u.of]) \in {"structure", "enumeration"}
  <2>1. Needed(u.of) = Task("definition", u.of)
    BY <1>9 DEF Needed
  <2>2. AliasRead(top, text) /\ top.next > 1
    BY <1>1, <1>5 DEF Sound, text
  <2>3. Task("definition", u.of) \in resolved
    BY <1>2, <1>9, <2>1, <2>2 DEF AliasRead
  <2>4. u.of \in DOMAIN meaning
    BY <1>5, <1>9, <2>3 DEF Chain, Aliases
  <2>5. Means[n - 1][u.of] = meaning[u.of]
    BY <1>4, <2>4 DEF Chain, Meanings
  <2>6. meaning[u.of] # None => Kind(meaning[u.of]) \in {"structure", "enumeration"}
    BY <2>4 DEF Chain, Meanings
  <2> QED
    BY <1>6, <2>5, <2>6
<1>10. u.of # None
  BY <1>5 DEF Definitions, None
<1>11. /\ TypeOf(u) = Target(u, below)
       /\ TypeOf(u) # None => Kind(TypeOf(u)) \in {"structure", "enumeration"}
  <2>1. CASE u.form = "value"
    BY <2>1 DEF TypeOf, Target
  <2>2. CASE u.form = "type"
    <3>1. CASE Kind(u.of) = "alias"
      <4>1. Demanding(u.form, Kind(u.of))
        BY <2>2, <3>1 DEF Demanding
      <4>2. TypeOf(u) = meaning[u.of] /\ Target(u, below) = below
        BY <2>2, <3>1 DEF TypeOf, Target, Owner
      <4> QED
        BY <1>9, <3>1, <4>1, <4>2
    <3>2. CASE Kind(u.of) \in {"structure", "enumeration"}
      <4>1. below = u.of
        BY <1>8, <3>2
      <4>2. TypeOf(u) = u.of /\ Target(u, below) = below
        BY <2>2, <3>2 DEF TypeOf, Target, Owner
      <4> QED
        BY <3>2, <4>1, <4>2
    <3>3. CASE Kind(u.of) \notin {"alias", "structure", "enumeration"}
      <4>1. below = None
        BY <1>8, <3>3
      <4>2. TypeOf(u) = None /\ Target(u, below) = below
        BY <2>2, <3>3 DEF TypeOf, Target
      <4> QED
        BY <4>1, <4>2
    <3> QED
      BY <3>1, <3>2, <3>3
  <2>3. CASE u.form = "through"
    <3>1. CASE Kind(u.of) = "alias"
      <4>1. Demanding(u.form, Kind(u.of))
        BY <2>3, <3>1 DEF Demanding
      <4>2. below = meaning[u.of] /\ Owner(u.of) = meaning[u.of]
        BY <1>9, <3>1, <4>1 DEF Owner
      <4>3. TypeOf(u) = (IF Owner(u.of) # None /\ Kind(Owner(u.of)) = "enumeration"
                         THEN Owner(u.of) ELSE None)
        BY <2>3, <3>1 DEF TypeOf
      <4>4. Target(u, below) = (IF below # None /\ Kind(below) = "enumeration"
                                THEN below ELSE None)
        BY <2>3 DEF Target
      <4> QED
        BY <4>2, <4>3, <4>4
    <3>2. CASE Kind(u.of) = "enumeration"
      <4>1. below = u.of
        BY <1>8, <3>2
      <4>2. TypeOf(u) = u.of /\ Target(u, below) = u.of
        BY <1>10, <2>3, <3>2, <4>1 DEF TypeOf, Target, Owner
      <4> QED
        BY <3>2, <4>2
    <3>3. CASE Kind(u.of) \notin {"alias", "enumeration"}
      <4>1. below = None \/ below = u.of
        BY <1>8, <3>3
      <4>2. TypeOf(u) = None /\ Target(u, below) = None
        BY <2>3, <3>3, <4>1 DEF TypeOf, Target
      <4> QED
        BY <4>2
    <3> QED
      BY <3>1, <3>2, <3>3
  <2> QED
    BY <1>5, <2>1, <2>2, <2>3
<1> QED
  BY <1>2, <1>7, <1>11

LEMMA ReturnChain ==
    ASSUME IInv, Chain, NEW part, Returning(part), Pop, Remember, program' = program,
           meaning' = meaning, part # "definition" \/ Kind(top.task.of) # "alias",
           erroneous => erroneous'
    PROVE  Chain'
<1>1. /\ stack # <<>> /\ top.pending = None /\ top.next > Len(text)
      /\ top.task = Task(part, top.task.of)
  BY WhenReturning DEF Returning, Active
<1>2. Aliases' = Aliases
  <2>1. resolved' = resolved \cup {Task(part, top.task.of)}
    BY <1>1 DEF Remember
  <2>2. ASSUME NEW d, Kind(d) = "alias", Task("definition", d) = Task(part, top.task.of)
        PROVE  FALSE
    BY <2>2 DEF Task
  <2>3. \A d : Kind(d)' = Kind(d) /\ Task("definition", d)' = Task("definition", d)
    BY DEF Kind, Task
  <2>4. Definitions' = Definitions
    BY DEF Definitions
  <2> QED
    BY <2>1, <2>2, <2>3, <2>4 DEF Aliases
<1>3. Once' => Once
  BY SameNeeds DEF Once
<1>4. Once' => Meanings'
  BY <1>2, <1>3, SameMeans DEF Chain, Meanings, Kind
<1>5. DOMAIN meaning' = Aliases'
  BY <1>2 DEF Chain
<1> QED
  BY <1>1, <1>4, <1>5, PopChain

LEMMA ReturnDefinitionChain ==
    ASSUME IInv, Chain, ReturnDefinition
    PROVE  Chain'
<1>1. /\ Returning("definition") /\ Pop /\ Remember /\ program' = program
      /\ erroneous => erroneous'
      /\ Kind(top.task.of) # "alias" => meaning' = meaning
      /\ Kind(top.task.of) = "alias" =>
             meaning' = [a \in DOMAIN meaning \cup {top.task.of} |->
                            IF a = top.task.of THEN TypeOf(text[1]) ELSE meaning[a]]
  BY DEF ReturnDefinition
<1>2. CASE Kind(top.task.of) # "alias"
  BY <1>1, <1>2, ReturnChain
<1>3. CASE Kind(top.task.of) = "alias"
  <2>1. /\ stack # <<>> /\ top.pending = None /\ top.next > Len(text)
        /\ top.task = Task("definition", top.task.of) /\ top.task.of \in Definitions
    BY <1>1, WhenReturning DEF Returning, Active
  <2>2. PICK d, type : d = top.task.of /\ type = TypeOf(text[1])
    OBVIOUS
  <2>3. Aliases' = Aliases \cup {d}
    <3>1. resolved' = resolved \cup {Task("definition", d)}
      BY <1>1, <2>1, <2>2 DEF Remember
    <3>2. \A c : Task("definition", c) = Task("definition", d) <=> c = d
      BY DEF Task
    <3>3. \A c : Kind(c)' = Kind(c) /\ Task("definition", c)' = Task("definition", c)
      BY <1>1 DEF Kind, Task
    <3>4. Definitions' = Definitions
      BY <1>1 DEF Definitions
    <3> QED
      BY <1>3, <2>1, <2>2, <3>1, <3>2, <3>3, <3>4 DEF Aliases
  <2>4. DOMAIN meaning' = Aliases'
    BY <1>1, <1>3, <2>2, <2>3 DEF Chain
  <2>5. \A a \in Aliases' : meaning'[a] = IF a = d THEN type ELSE meaning[a]
    BY <1>1, <1>3, <2>2, <2>3 DEF Chain
  <2>6. Once' => Once
    BY <1>1, SameNeeds DEF Once
  <2>7. ASSUME Once
        PROVE  Meanings'
    <3>1. d \notin Aliases
      <4>1. top.task \notin resolved
        <5>1. Len(stack) \in 1 .. Len(stack)
          BY <2>1, TopIsSound
        <5> QED
          BY <2>7, <5>1 DEF Chain, InProgress, top
      <4> QED
        BY <2>1, <2>2, <4>1 DEF Aliases
    <3>2. /\ IsFiniteSet(Aliases) /\ Cardinality(Aliases) \in Nat
          /\ Cardinality(Aliases') = Cardinality(Aliases) + 1
          /\ Cardinality(Aliases') <= Len(program) /\ Len(program) \in Nat
      <4>1. PICK n \in Nat : n = Len(program)
        BY ProgramsAssumption, LenProperties DEF IInv, Typed, WellFormed
      <4>2. IsFiniteSet(Definitions) /\ Cardinality(Definitions) = n
        <5>1. IsFiniteSet(1 .. n) /\ Cardinality(1 .. n) = (IF 1 <= n THEN n - 1 + 1 ELSE 0)
          BY FS_Interval
        <5> QED
          BY <4>1, <5>1 DEF Definitions
      <4>3. Aliases \subseteq Definitions /\ Aliases' \subseteq Definitions
        BY <2>1, <2>2, <2>3 DEF Aliases
      <4>4. /\ IsFiniteSet(Aliases) /\ IsFiniteSet(Aliases')
            /\ Cardinality(Aliases') <= Cardinality(Definitions)
        BY <4>2, <4>3, FS_Subset
      <4>5. Cardinality(Aliases) \in Nat
        BY <4>4, FS_CardinalityType
      <4>6. Cardinality(Aliases') = Cardinality(Aliases) + 1
        BY <2>3, <3>1, <4>4, FS_AddElement
      <4> QED
        BY <4>1, <4>2, <4>4, <4>5, <4>6
    <3>3. ASSUME NEW a \in Aliases', NEW n \in Cardinality(Aliases') .. Len(program)
          PROVE  Means[n][a] = meaning'[a]
      <4>1. /\ n \in Cardinality(Aliases) + 1 .. Len(program)
            /\ n \in Cardinality(Aliases) .. Len(program)
        BY <3>2
      <4>2. CASE a = d
        BY <1>3, <2>1, <2>2, <2>5, <2>7, <4>1, <4>2, TypeIsMeant
      <4>3. CASE a # d
        <5>1. a \in DOMAIN meaning
          BY <2>3, <4>3 DEF Chain
        <5> QED
          BY <2>5, <2>7, <4>1, <4>3, <5>1 DEF Chain, Meanings
      <4> QED
        BY <4>2, <4>3
    <3>4. ASSUME NEW a \in Aliases', meaning'[a] # None
          PROVE  Kind(meaning'[a]) \in {"structure", "enumeration"}
      <4>1. CASE a = d
        <5>1. Len(program) \in Cardinality(Aliases) + 1 .. Len(program)
          BY <3>2
        <5> QED
          BY <1>3, <2>1, <2>2, <2>5, <2>7, <3>4, <4>1, <5>1, TypeIsMeant
      <4>2. CASE a # d
        <5>1. a \in DOMAIN meaning
          BY <2>3, <4>2 DEF Chain
        <5> QED
          BY <2>5, <2>7, <3>4, <4>2, <5>1 DEF Chain, Meanings
      <4> QED
        BY <4>1, <4>2
    <3> QED
      BY <1>1, <2>4, <3>3, <3>4, SameMeans DEF Meanings, Kind, None
  <2> QED
    BY <1>1, <2>1, <2>4, <2>6, <2>7, PopChain
<1> QED
  BY <1>2, <1>3


LEMMA InitChain == Init => Chain
<1> SUFFICES ASSUME Init PROVE Chain
  OBVIOUS
<1>1. stack = <<>> /\ resolved = {} /\ meaning = [d \in {} |-> None]
  BY DEF Init
<1>2. Len(stack) = 0 /\ 1 .. Len(stack) = {}
  BY <1>1
<1>3. DOMAIN meaning = {} /\ Aliases = {}
  BY <1>1 DEF Aliases
<1>4. Linked /\ InProgress /\ Supplied /\ Grounded
  BY <1>1, <1>2 DEF Linked, InProgress, Supplied, Grounded
<1>5. Meanings
  BY <1>3 DEF Meanings
<1> QED
  BY <1>1, <1>3, <1>4, <1>5 DEF Chain

LEMMA NextChain == IInv /\ Chain /\ [Next]_vars => Chain'
<1> SUFFICES ASSUME IInv, Chain, [Next]_vars PROVE Chain'
  OBVIOUS
<1>1. CASE UNCHANGED vars
  BY <1>1, SameChain DEF vars
<1>2. CASE ResolveSymbol
  BY <1>2, ResolveSymbolChain
<1>3. CASE BeginWarnings
  BY <1>3, SameChain DEF BeginWarnings
<1>4. CASE WarnIfUnused
  BY <1>4, SameChain DEF WarnIfUnused
<1>5. CASE LookUp
  BY <1>5, LookUpChain
<1>6. CASE UseParameter
  BY <1>6, UseParameterChain
<1>7. CASE Call
  BY <1>7, CallChain
<1>8. CASE Proceed
  BY <1>8, ProceedChain
<1>9. CASE ProceedThrough
  BY <1>9, ProceedThroughChain
<1>10. CASE ReadField
  BY <1>10, ReadFieldChain
<1>11. CASE ReturnSignature
  BY <1>11, ReturnChain DEF ReturnSignature
<1>12. CASE ReturnBody
  BY <1>12, ReturnChain DEF ReturnBody
<1>13. CASE ReturnDefinition
  BY <1>13, ReturnDefinitionChain
<1> QED
  BY <1>1, <1>2, <1>3, <1>4, <1>5, <1>6, <1>7, <1>8, <1>9, <1>10, <1>11, <1>12, <1>13 DEF Next

-----------------------------------------------------------------------------
(* The depth of the calls. *)

LEMMA MoveShape ==
    ASSUME IInv, stack # <<>>, NEW frame, ReplaceTop(frame)
    PROVE  /\ Len(stack') = Len(stack) /\ stack' # <<>> /\ stack'[Len(stack)] = frame
           /\ \A i \in 1 .. Len(stack) : i # Len(stack) => stack'[i] = stack[i]
<1>1. PICK T : T = Calls \cup {frame}
  OBVIOUS
<1>2. stack \in Seq(T) /\ Len(stack) \in 1 .. Len(stack) /\ Len(stack) \in Nat \ {0}
  <2>1. stack \in Seq(Calls)
    BY DEF IInv, Typed
  <2>2. \A s \in Seq(Calls) : s \in Seq(T)
    BY <1>1
  <2> QED
    BY <2>1, <2>2, TopIsSound
<1>3. stack' = [stack EXCEPT ![Len(stack)] = frame] /\ frame \in T
  BY <1>1 DEF ReplaceTop
<1>4. /\ stack' \in Seq(T) /\ Len(stack') = Len(stack)
      /\ \A i \in 1 .. Len(stack) : stack'[i] = IF i = Len(stack) THEN frame ELSE stack[i]
  BY <1>2, <1>3, ExceptSeq
<1>5. stack' # <<>>
  BY <1>2, <1>4, EmptySeq
<1> QED
  BY <1>2, <1>4, <1>5

LEMMA SizeOfInterval == \A n \in Nat : IsFiniteSet(1 .. n) /\ Cardinality(1 .. n) = n
<1> SUFFICES ASSUME NEW n \in Nat PROVE IsFiniteSet(1 .. n) /\ Cardinality(1 .. n) = n
  OBVIOUS
<1>1. IsFiniteSet(1 .. n) /\ Cardinality(1 .. n) = (IF 1 <= n THEN n - 1 + 1 ELSE 0)
  BY FS_Interval
<1> QED
  BY <1>1

(* A stack that is full holds more tasks than there are definitions.       *)
LEMMA FullStackIsCycle ==
    ASSUME IInv, Chain, Pending, Needed(top.pending) \notin resolved,
           Len(stack) = MaxDepth, Len(program) < MaxDepth
    PROVE  Cyclic
<1> SUFFICES ASSUME ~Cyclic PROVE FALSE
  OBVIOUS
<1>1. stack # <<>> /\ top.pending \in Definitions /\ top.pending # None
  BY WhenPending DEF Pending
<1>2. /\ \A i, j \in 1 .. Len(stack) : i < j => stack[i].task # stack[j].task
      /\ \A i \in 1 .. Len(stack) : stack[i].task # Needed(top.pending)
  BY <1>1, CallsDiffer DEF Chain, Once
<1>3. PICK n \in Nat, m \in Nat : n = Len(program) /\ m = MaxDepth /\ n < m
  BY DepthAssumption, ProgramsAssumption, LenProperties DEF IInv, Typed, WellFormed
<1>4. PICK g : g = [k \in 1 .. m |-> IF k = m THEN Needed(top.pending) ELSE stack[k + 1].task]
  OBVIOUS
<1>5. ASSUME NEW k \in 1 .. m
      PROVE  /\ g[k] \in Tasks /\ AsWritten(g[k]) /\ g[k].part # "body"
             /\ g[k].of \in 1 .. n
  <2>1. CASE k = m
    <3>1. g[k] = Needed(top.pending)
      BY <1>4, <2>1
    <3> QED
      BY <1>1, <1>3, <3>1, NeededIsWritten DEF Definitions
  <2>2. CASE k # m
    <3>1. PICK i : i = k + 1 /\ i \in 1 .. Len(stack) /\ i > 1
      BY <1>3, <2>2
    <3>2. g[k] = stack[i].task
      BY <1>4, <2>2, <3>1
    <3>3. Sound(stack[i]) /\ stack[i].task.part # "body" /\ stack[i].task \in Tasks
      BY <3>1, CallsAreWritten DEF IInv, Frames
    <3> QED
      BY <1>3, <3>2, <3>3 DEF Sound, Tasks, Definitions
  <2> QED
    BY <2>1, <2>2
<1>6. PICK f : f = [k \in 1 .. m |-> g[k].of]
  OBVIOUS
<1>7. f \in [1 .. m -> 1 .. n]
  BY <1>5, <1>6
<1>8. /\ IsFiniteSet(1 .. m) /\ Cardinality(1 .. m) = m
      /\ IsFiniteSet(1 .. n) /\ Cardinality(1 .. n) = n
  BY <1>3, SizeOfInterval
<1>9. Cardinality(1 .. n) < Cardinality(1 .. m)
  BY <1>3, <1>8
<1>10. PICK x, y \in 1 .. m : x # y /\ f[x] = f[y]
  BY <1>7, <1>8, <1>9, FS_PigeonHole
<1>11. g[x] = g[y]
  <2>1. g[x].of = g[y].of
    BY <1>6, <1>10
  <2>2. ASSUME NEW task \in Tasks, AsWritten(task), task.part # "body"
        PROVE  task = [part |-> IF Kind(task.of) = "function" THEN "signature" ELSE "definition",
                       of |-> task.of]
    BY <2>2 DEF Tasks, AsWritten
  <2> QED
    BY <1>5, <2>1, <2>2
<1>12. ASSUME NEW i \in 1 .. m, NEW j \in 1 .. m, i < j
       PROVE  g[i] # g[j]
  <2>1. i # m /\ i + 1 \in 1 .. m /\ g[i] = stack[i + 1].task
    BY <1>3, <1>4, <1>12
  <2>2. CASE j = m
    BY <1>2, <1>3, <1>4, <2>1, <2>2
  <2>3. CASE j # m
    <3>1. j + 1 \in 1 .. m /\ g[j] = stack[j + 1].task /\ i + 1 < j + 1
      BY <1>3, <1>4, <1>12, <2>3
    <3> QED
      BY <1>2, <1>3, <2>1, <3>1
  <2> QED
    BY <2>2, <2>3
<1>13. x < y \/ y < x
  BY <1>10
<1> QED
  BY <1>11, <1>12, <1>13


-----------------------------------------------------------------------------
(* The two loops. *)

LEMMA SameTurns ==
    ASSUME program' = program
    PROVE  Definitions' = Definitions /\ \A d : Entry(d)' = Entry(d)
<1> QED
  BY SameFrames DEF Definitions

LEMMA MoveTurns ==
    ASSUME IInv, Turns, Active, NEW frame, ReplaceTop(frame), frame.task = top.task,
           UNCHANGED <<program, phase, turn, resolved>>
    PROVE  Turns'
<1>1. stack # <<>> /\ phase = "resolving"
  BY DEF Active
<1>2. /\ Len(stack') = Len(stack) /\ stack' # <<>> /\ stack'[Len(stack)] = frame
      /\ \A i \in 1 .. Len(stack) : i # Len(stack) => stack'[i] = stack[i]
      /\ Len(stack) \in Nat \ {0}
  BY <1>1, MoveShape, TopIsSound
<1>3. stack'[1].task = stack[1].task
  <2>1. CASE Len(stack) = 1
    BY <1>2, <2>1 DEF top
  <2>2. CASE Len(stack) # 1
    BY <1>2, <2>2
  <2> QED
    BY <2>1, <2>2
<1> QED
  BY <1>1, <1>2, <1>3, SameTurns DEF Turns

LEMMA PopTurns ==
    ASSUME IInv, Turns, Active, Pop, Remember, UNCHANGED <<program, phase, turn>>
    PROVE  Turns'
<1>1. stack # <<>> /\ phase = "resolving"
  BY DEF Active
<1>2. /\ Len(stack') = Len(stack) - 1
      /\ Len(stack) = 1 => stack' = <<>>
      /\ \A i \in 1 .. Len(stack) - 1 : stack'[i] = stack[i]
      /\ Len(stack) \in Nat \ {0} /\ stack' \in Seq(Calls)
  BY <1>1, PopStack, TopIsSound
<1>3. resolved' = resolved \cup {top.task}
  BY DEF Remember
<1>4. CASE Len(stack) = 1
  BY <1>1, <1>2, <1>3, <1>4, SameTurns DEF Turns, top
<1>5. CASE Len(stack) # 1
  <2>1. stack' # <<>> /\ stack'[1] = stack[1]
    BY <1>2, <1>5
  <2> QED
    BY <1>1, <1>3, <2>1, SameTurns DEF Turns
<1> QED
  BY <1>4, <1>5

LEMMA ResolveSymbolTurns ==
    ASSUME IInv, Turns, ResolveSymbol
    PROVE  Turns'
<1>1. /\ phase = "resolving" /\ stack = <<>> /\ turn <= Len(program) /\ turn' = turn + 1
      /\ UNCHANGED <<program, resolved>>
  BY DEF ResolveSymbol
<1>2. turn \in Nat \ {0} /\ Len(program) \in Nat
  BY <1>1, ProgramsAssumption, LenProperties DEF IInv, Typed, WellFormed
<1>3. ASSUME NEW d \in Definitions, d < turn + 1
      PROVE  d = turn \/ Entry(d) \in resolved
  <2>1. d < turn \/ d = turn
    BY <1>2, <1>3 DEF Definitions
  <2> QED
    BY <1>1, <2>1 DEF Turns
<1>4. CASE Entry(turn) \in resolved
  <2>1. phase' = phase /\ stack' = stack
    BY <1>4 DEF ResolveSymbol
  <2> QED
    BY <1>1, <1>3, <1>4, <2>1, SameTurns DEF Turns
<1>5. CASE Entry(turn) \notin resolved /\ Len(stack) # MaxDepth
  <2>1. phase' = phase /\ stack' = Append(stack, Frame(Entry(turn)))
    BY <1>2, <1>5 DEF ResolveSymbol, Push
  <2>2. stack' = <<Frame(Entry(turn))>>
    BY <1>1, <2>1
  <2>3. stack' # <<>> /\ stack'[1] = Frame(Entry(turn))
    BY <2>2
  <2>4. Frame(Entry(turn)).task = Entry(turn)
    BY DEF Frame
  <2>5. phase' = "resolving" /\ phase \notin {"warning", "finished"}
    BY <1>1, <2>1
  <2>6. \A d \in Definitions' : d < turn' => Entry(d)' \in resolved'
                                             \/ (stack' # <<>> /\ stack'[1].task = Entry(d)')
    BY <1>1, <1>3, <2>3, <2>4, SameTurns
  <2> QED
    BY <2>5, <2>6 DEF Turns
<1>6. CASE Entry(turn) \notin resolved /\ Len(stack) = MaxDepth
  <2>1. phase' = "overflow"
    BY <1>6 DEF ResolveSymbol, Push
  <2> QED
    BY <2>1 DEF Turns
<1> QED
  BY <1>4, <1>5, <1>6

LEMMA CallTurns ==
    ASSUME IInv, Turns, Call
    PROVE  Turns'
<1>1. /\ Pending /\ Needed(top.pending) \notin resolved /\ Push(Needed(top.pending))
      /\ UNCHANGED <<program, turn, resolved>>
  BY DEF Call
<1>2. stack # <<>> /\ phase = "resolving" /\ stack \in Seq(Calls) /\ Len(stack) \in Nat \ {0}
  BY <1>1, TopIsSound DEF Pending, Active, IInv, Typed
<1>3. CASE Len(stack) = MaxDepth
  <2>1. phase' = "overflow"
    BY <1>1, <1>3 DEF Push
  <2> QED
    BY <2>1 DEF Turns
<1>4. CASE Len(stack) # MaxDepth
  <2>1. phase' = phase /\ stack' = Append(stack, Frame(Needed(top.pending)))
    BY <1>1, <1>4 DEF Push
  <2>2. stack' # <<>> /\ stack'[1] = stack[1]
    <3>1. PICK frame, T : frame = Frame(Needed(top.pending)) /\ T = Calls \cup {frame}
      OBVIOUS
    <3>2. stack \in Seq(T) /\ frame \in T
      BY <1>2, <3>1
    <3>3. /\ Append(stack, frame) \in Seq(T) /\ Len(Append(stack, frame)) = Len(stack) + 1
          /\ \A i \in 1 .. Len(stack) : Append(stack, frame)[i] = stack[i]
      BY <3>2, AppendProperties
    <3> QED
      BY <1>2, <2>1, <3>1, <3>3, EmptySeq
  <2>3. phase' = "resolving" /\ phase \notin {"warning", "finished"}
    BY <1>2, <2>1
  <2>4. \A d \in Definitions' : d < turn' => Entry(d)' \in resolved'
                                             \/ (stack' # <<>> /\ stack'[1].task = Entry(d)')
    BY <1>1, <1>2, <2>2, SameTurns DEF Turns
  <2> QED
    BY <2>3, <2>4 DEF Turns
<1> QED
  BY <1>3, <1>4

LEMMA NextTurns ==
    ASSUME IInv, Turns, [Next]_vars
    PROVE  Turns'
<1>1. turn \in Nat \ {0} /\ Len(program) \in Nat
  BY ProgramsAssumption, LenProperties DEF WellFormed, IInv, Typed
<1>2. CASE ResolveSymbol
  BY <1>1, <1>2, ResolveSymbolTurns
<1>3. CASE BeginWarnings
  <2>1. /\ phase = "resolving" /\ stack = <<>> /\ turn > Len(program)
        /\ phase' = "warning" /\ UNCHANGED <<program, stack, resolved>>
    BY <1>3 DEF BeginWarnings
  <2>2. \A d \in Definitions : d < turn
    BY <1>1, <2>1 DEF Definitions
  <2> QED
    BY <2>1, <2>2, SameTurns DEF Turns
<1>4. CASE WarnIfUnused
  <2>1. /\ phase = "warning" /\ UNCHANGED <<program, stack, resolved>>
        /\ \/ phase' = phase
           \/ phase' = "finished" /\ turn' = turn /\ turn > Len(program)
    BY <1>1, <1>4 DEF WarnIfUnused
  <2> QED
    BY <2>1, SameTurns DEF Turns
<1>5. CASE LookUp
  <2>1. Active /\ top \in Calls /\ UNCHANGED <<program, phase, turn, resolved>>
    BY <1>5, WhenReading DEF LookUp, Reading
  <2>2. PICK frame : ReplaceTop(frame) /\ frame.task = top.task
    <3>1. CASE Demanding(use.form, Kind(use.of))
      <4>1. [top EXCEPT !.pending = use.of].task = top.task
        BY <2>1 DEF Calls
      <4> QED
        BY <1>5, <3>1, <4>1 DEF LookUp
    <3>2. CASE ~Demanding(use.form, Kind(use.of))
      <4>1. [top EXCEPT !.next = After].task = top.task
        BY <2>1 DEF Calls
      <4> QED
        BY <1>5, <3>2, <4>1 DEF LookUp
    <3> QED
      BY <3>1, <3>2
  <2> QED
    BY <2>1, <2>2, MoveTurns
<1>6. CASE UseParameter
  <2>1. Active /\ top \in Calls /\ UNCHANGED <<program, phase, turn, resolved>>
    BY <1>6, WhenReading DEF UseParameter, Reading
  <2>2. [top EXCEPT !.next = @ + 1].task = top.task
    BY <2>1 DEF Calls
  <2> QED
    BY <1>6, <2>1, <2>2, MoveTurns DEF UseParameter
<1>7. CASE Call
  BY <1>1, <1>7, CallTurns
<1>8. CASE Proceed
  <2>1. Active /\ top \in Calls /\ UNCHANGED <<program, phase, turn, resolved>>
    BY <1>8, WhenPending DEF Proceed, Remembered, Pending
  <2>2. PICK done : done = [top EXCEPT !.next = @ + 1, !.pending = None]
    OBVIOUS
  <2>3. done.task = top.task /\ [done EXCEPT !.held = Append(@, constructors)].task = top.task
    BY <2>1, <2>2 DEF Calls
  <2>4. ReplaceTop(done) \/ ReplaceTop([done EXCEPT !.held = Append(@, constructors)])
    BY <1>8, <2>2 DEF Proceed
  <2> QED
    BY <2>1, <2>3, <2>4, MoveTurns
<1>9. CASE ProceedThrough
  <2>1. Active /\ top \in Calls /\ UNCHANGED <<program, phase, turn, resolved>>
    BY <1>9, WhenPending DEF ProceedThrough, Remembered, Pending
  <2>2. /\ [top EXCEPT !.next = @ + 1, !.pending = None].task = top.task
        /\ [top EXCEPT !.pending = meaning[top.pending]].task = top.task
    BY <2>1 DEF Calls
  <2>3. \/ ReplaceTop([top EXCEPT !.next = @ + 1, !.pending = None])
        \/ ReplaceTop([top EXCEPT !.pending = meaning[top.pending]])
    <3>1. CASE Kind(top.pending) = "enumeration"
      BY <1>9, <3>1 DEF ProceedThrough
    <3>2. CASE Kind(top.pending) # "enumeration" /\ Kind(top.pending) = "alias"
               /\ meaning[top.pending] # None
      BY <1>9, <3>2 DEF ProceedThrough
    <3>3. CASE Kind(top.pending) # "enumeration"
               /\ ~(Kind(top.pending) = "alias" /\ meaning[top.pending] # None)
      BY <1>9, <3>3 DEF ProceedThrough
    <3> QED
      BY <3>1, <3>2, <3>3
  <2> QED
    BY <2>1, <2>2, <2>3, MoveTurns
<1>10. CASE ReadField
  <2>1. Active /\ top \in Calls /\ UNCHANGED <<program, phase, turn, resolved>>
    BY <1>10, WhenReading DEF ReadField, Reading
  <2>2. [top EXCEPT !.next = @ + 1, !.held = SubSeq(@, 1, Len(top.held) - 1)].task = top.task
    BY <2>1 DEF Calls
  <2> QED
    BY <1>10, <2>1, <2>2, MoveTurns DEF ReadField
<1>11. CASE ReturnSignature
  BY <1>11, PopTurns DEF ReturnSignature, Returning
<1>12. CASE ReturnBody
  BY <1>12, PopTurns DEF ReturnBody, Returning
<1>13. CASE ReturnDefinition
  BY <1>13, PopTurns DEF ReturnDefinition, Returning
<1>14. CASE UNCHANGED vars
  BY <1>14, SameTurns DEF vars, Turns
<1> QED
  BY <1>2, <1>3, <1>4, <1>5, <1>6, <1>7, <1>8, <1>9, <1>10, <1>11, <1>12, <1>13, <1>14
     DEF Next

LEMMA InitTurns == Init => Turns
<1> SUFFICES ASSUME Init PROVE Turns
  OBVIOUS
<1>1. phase = "resolving" /\ turn = 1
  BY DEF Init
<1>2. \A d \in Definitions : ~(d < turn)
  BY <1>1, InitIInv, ProgramsAssumption, LenProperties
     DEF IInv, Typed, WellFormed, Definitions
<1> QED
  BY <1>1, <1>2 DEF Turns

LEMMA NextDeep ==
    ASSUME IInv, Chain, Turns, Deep, [Next]_vars, \A p \in Programs : Len(p) < MaxDepth
    PROVE  Deep'
<1>1. Len(program) \in Nat /\ Len(program) < MaxDepth /\ MaxDepth \in Nat
  BY ProgramsAssumption, DepthAssumption, LenProperties DEF WellFormed, IInv, Typed
<1>2. Cyclic' <=> Cyclic
  <2>1. program' = program
    BY DEF Next, vars, ResolveSymbol, BeginWarnings, WarnIfUnused, LookUp, UseParameter, Call,
           Proceed, ProceedThrough, ReadField, ReturnSignature, ReturnBody, ReturnDefinition
  <2> QED
    BY <2>1, SameNeeds
<1>3. CASE ResolveSymbol
  <2>1. stack = <<>> /\ Len(stack) # MaxDepth /\ phase = "resolving"
    BY <1>1, <1>3 DEF ResolveSymbol
  <2>2. phase' = phase
    BY <1>3, <2>1 DEF ResolveSymbol, Push
  <2> QED
    BY <2>1, <2>2 DEF Deep
<1>4. CASE Call
  <2>1. Pending /\ Needed(top.pending) \notin resolved /\ Push(Needed(top.pending))
    BY <1>4 DEF Call
  <2>2. CASE Len(stack) = MaxDepth
    BY <1>1, <1>2, <2>1, <2>2, FullStackIsCycle DEF Deep
  <2>3. CASE Len(stack) # MaxDepth
    BY <1>2, <2>1, <2>3 DEF Push, Deep
  <2> QED
    BY <2>2, <2>3
<1>5. CASE BeginWarnings \/ WarnIfUnused
  BY <1>2, <1>5 DEF BeginWarnings, WarnIfUnused, Deep
<1>6. CASE phase' = phase
  BY <1>2, <1>6 DEF Deep
<1>7. \/ ResolveSymbol \/ Call \/ BeginWarnings \/ WarnIfUnused
      \/ phase' = phase
  BY DEF Next, vars, LookUp, UseParameter, Proceed, ProceedThrough, ReadField,
         ReturnSignature, ReturnBody, ReturnDefinition
<1> QED
  BY <1>3, <1>4, <1>5, <1>6, <1>7

(* When all is resolved, every task that is written is complete. *)
LEMMA AllIsResolved ==
    ASSUME IInv, \A d \in Definitions : Entry(d) \in resolved
    PROVE  Written \subseteq resolved
<1> SUFFICES ASSUME NEW t \in Written PROVE t \in resolved
  OBVIOUS
<1>1. /\ t = [part |-> t.part, of |-> t.of] /\ t.of \in Definitions
      /\ t.part \in {"signature", "body", "definition"}
      /\ Kind(t.of) = "function" <=> t.part # "definition"
  BY DEF Written, Tasks
<1>2. Entry(t.of) \in resolved
  BY <1>1
<1>3. CASE t.part = "definition"
  BY <1>1, <1>2, <1>3 DEF Entry, Task
<1>4. CASE t.part = "body"
  BY <1>1, <1>2, <1>4 DEF Entry, Task
<1>5. CASE t.part = "signature"
  <2>1. Task("body", t.of) \in resolved
    BY <1>1, <1>2, <1>5 DEF Entry
  <2>2. Task("signature", t.of) \in resolved
    BY <1>1, <2>1 DEF IInv, Completed
  <2> QED
    BY <1>1, <1>5, <2>2 DEF Task
<1> QED
  BY <1>1, <1>3, <1>4, <1>5

LEMMA NoErrorNoCycle ==
    ASSUME IInv, Chain, Turns, phase = "finished", ~erroneous
    PROVE  ~Cyclic
<1>1. Written \subseteq resolved
  BY AllIsResolved DEF Turns
<1>2. Grounded
  BY DEF Chain
<1> QED
  BY <1>1, <1>2 DEF Cyclic, Grounded


(* The machine's stack overflows only when definitions need each other: in *)
(* every document that has fewer definitions than the stack has room for   *)
(* calls.  And a resolution that ends without an error shows that they     *)
(* do not.                                                                 *)
THEOREM OverflowShowsCycle ==
    (\A p \in Programs : Len(p) < MaxDepth) => (Spec => []OverflowMeansCycle)
<1> SUFFICES ASSUME \A p \in Programs : Len(p) < MaxDepth
             PROVE  Spec => []OverflowMeansCycle
  OBVIOUS
<1>1. Init => IInv /\ Chain /\ Turns /\ Deep
  BY InitIInv, InitChain, InitTurns DEF Init, Deep
<1>2. IInv /\ Chain /\ Turns /\ Deep /\ [Next]_vars => (IInv /\ Chain /\ Turns /\ Deep)'
  BY NextIInv, NextChain, NextTurns, NextDeep
<1>3. IInv /\ Chain /\ Turns /\ Deep => OverflowMeansCycle
  BY NoErrorNoCycle DEF OverflowMeansCycle, Deep
<1> QED
  BY <1>1, <1>2, <1>3, PTL DEF Spec


-----------------------------------------------------------------------------
(* What has been read of the text. *)

(* The places of the text where something is used. *)
Place(s) == s = <<s[1], s[2]>> /\ s[1] \in Written /\ s[2] \in 1 .. Len(Text(s[1]))
UseAt(s) == Text(s[1])[s[2]]
LEMMA UsesArePlaces ==
    ASSUME program \in Programs, NEW d
    PROVE  /\ \A s : s \in Occurrences(d) <=>
                         Place(s) /\ UseAt(s).form \in PathForms /\ UseAt(s).of = d
           /\ \A s : s \in ParameterUses(d) <=>
                         Place(s) /\ UseAt(s).form = "parameter" /\ s[1].of = d
<1>1. ASSUME NEW t \in Written
      PROVE  DOMAIN Text(t) = 1 .. Len(Text(t))
  <2>1. Text(t) \in Seq(Uses(Len(program)))
    BY TextIsRead DEF Written
  <2> QED
    BY <2>1, LenProperties
<1>2. \A s : s \in Occurrences(d) <=>
                 \E t \in Written : \E i \in DOMAIN Text(t) :
                     s = <<t, i>> /\ Text(t)[i].form \in PathForms /\ Text(t)[i].of = d
  BY DEF Occurrences
<1>3. \A s : s \in ParameterUses(d) <=>
                 \E t \in Written : \E i \in DOMAIN Text(t) :
                     t.of = d /\ s = <<t, i>> /\ Text(t)[i].form = "parameter"
  BY DEF ParameterUses
<1> QED
  BY <1>1, <1>2, <1>3 DEF Place, UseAt

LEMMA SamePlaces ==
    ASSUME program' = program
    PROVE  /\ \A s : Place(s)' <=> Place(s)
           /\ Symbols' = Symbols /\ Definitions' = Definitions
<1>1. Written' = Written /\ \A t : Text(t)' = Text(t)
  BY SameNeeds DEF Text
<1> QED
  BY <1>1 DEF Place, Symbols, Definitions

(* Of the task of the innermost call only that call counts. *)
LEMMA TopIsSeen ==
    ASSUME IInv, Chain, ~Cyclic, stack # <<>>
    PROVE  \A i : Seen(top.task, i) <=> Covers(top, i)
<1>1. InProgress /\ Linked
  BY DEF Chain, Once
<1>2. /\ Len(stack) \in Nat \ {0} /\ Len(stack) \in 1 .. Len(stack)
      /\ top = stack[Len(stack)]
  BY TopIsSound
<1>3. top.task \notin resolved
  BY <1>1, <1>2 DEF InProgress
<1>4. ASSUME NEW k \in 1 .. Len(stack), stack[k].task = top.task
      PROVE  k = Len(stack)
  <2>1. ~(k < Len(stack))
    BY <1>1, <1>2, <1>4, CallsDiffer
  <2> QED
    BY <1>2, <2>1
<1> QED
  BY <1>2, <1>3, <1>4 DEF Seen

LEMMA MoveSeen ==
    ASSUME IInv, Chain, ~Cyclic, stack # <<>>, NEW frame \in Calls, ReplaceTop(frame),
           frame.task = top.task, resolved' = resolved
    PROVE  \A t, i : Seen(t, i)' <=> IF t = top.task THEN Covers(frame, i) ELSE Seen(t, i)
<1>1. PICK n \in Nat \ {0} : n = Len(stack) /\ n \in 1 .. n /\ top = stack[n]
  BY TopIsSound
<1>2. /\ Len(stack') = n /\ stack'[n] = frame
      /\ \A k \in 1 .. n : k # n => stack'[k] = stack[k]
  BY <1>1, ReplaceStack
<1>3. InProgress /\ Linked
  BY DEF Chain, Once
<1>4. top.task \notin resolved
  BY <1>1, <1>3 DEF InProgress
<1>5. ASSUME NEW k \in 1 .. n, k # n
      PROVE  stack[k].task # top.task
  <2>1. k < n
    BY <1>5
  <2> QED
    BY <1>1, <1>3, <2>1, CallsDiffer
<1>6. \A t, i : Seen(t, i)' <=> \/ t \in resolved
                                \/ \E k \in 1 .. n : stack'[k].task = t /\ Covers(stack[k], i)'
  BY <1>2 DEF Seen
<1>7. \A k \in 1 .. n : \A i : Covers(stack[k], i)' <=>
                                   IF k = n THEN Covers(frame, i) ELSE Covers(stack[k], i)
  BY <1>2 DEF Covers, None
<1>8. ASSUME NEW t, NEW i
      PROVE  Seen(t, i)' <=> IF t = top.task THEN Covers(frame, i) ELSE Seen(t, i)
  <2>1. CASE t = top.task
    BY <1>1, <1>2, <1>4, <1>5, <1>6, <1>7, <2>1
  <2>2. CASE t # top.task
    <3>1. Seen(t, i) <=> \/ t \in resolved
                         \/ \E k \in 1 .. n : stack[k].task = t /\ Covers(stack[k], i)
      BY <1>1 DEF Seen
    <3> QED
      BY <1>1, <1>2, <1>6, <1>7, <2>2, <3>1
  <2> QED
    BY <2>1, <2>2
<1> QED
  BY <1>8

(* A call begins before its text, and ends behind it. *)
LEMMA PushSeen ==
    ASSUME IInv, NEW task \in Tasks, AsWritten(task), stack' = Append(stack, Frame(task)),
           resolved' = resolved
    PROVE  \A t : \A i \in Nat \ {0} : Seen(t, i)' <=> Seen(t, i)
<1>1. PICK n \in Nat : n = Len(stack)
  BY LenProperties DEF IInv, Typed
<1>2. PICK frame : frame = Frame(task)
  OBVIOUS
<1>3. /\ Len(stack') = n + 1 /\ stack'[n + 1] = frame
      /\ \A k \in 1 .. n : stack'[k] = stack[k]
  <2> DEFINE T == Calls
  <2>1. stack \in Seq(T) /\ frame \in T
    BY <1>2, FrameIsSound DEF IInv, Typed
  <2> HIDE DEF T
  <2>2. /\ Len(Append(stack, frame)) = Len(stack) + 1
        /\ \A k \in 1 .. Len(stack) : Append(stack, frame)[k] = stack[k]
        /\ Append(stack, frame)[Len(stack) + 1] = frame
    BY <2>1, AppendProperties
  <2> QED
    BY <1>1, <1>2, <2>2
<1>4. \/ frame.next = 0
      \/ frame.next = 1 /\ frame.pending = None
  BY <1>2 DEF Frame
<1>5. \A i \in Nat \ {0} : ~Covers(frame, i)
  BY <1>4 DEF Covers
<1>6. \A t, i : Seen(t, i) <=> \/ t \in resolved
                               \/ \E k \in 1 .. n : stack[k].task = t /\ Covers(stack[k], i)
  BY <1>1 DEF Seen
<1>7. \A t, i : Seen(t, i)' <=> \/ t \in resolved
                                \/ \E k \in 1 .. n + 1 : stack'[k].task = t /\ Covers(stack[k], i)'
  BY <1>3 DEF Seen
<1>8. /\ \A k \in 1 .. n : \A i : Covers(stack[k], i)' <=> Covers(stack[k], i)
      /\ \A i : Covers(stack[n + 1], i)' <=> Covers(frame, i)
  BY <1>3 DEF Covers, None
<1>9. /\ \A k \in 1 .. n + 1 : k = n + 1 \/ k \in 1 .. n
      /\ \A k \in 1 .. n : k \in 1 .. n + 1
  OBVIOUS
<1>10. ASSUME NEW t, NEW i \in Nat \ {0}
       PROVE  Seen(t, i)' <=> Seen(t, i)
  <2>1. ASSUME Seen(t, i)
        PROVE  Seen(t, i)'
    BY <1>3, <1>6, <1>7, <1>8, <1>9, <2>1
  <2>2. ASSUME Seen(t, i)'
        PROVE  Seen(t, i)
    BY <1>3, <1>5, <1>6, <1>7, <1>8, <1>9, <2>2
  <2> QED
    BY <2>1, <2>2
<1> QED
  BY <1>10

LEMMA PopSeen ==
    ASSUME IInv, stack # <<>>, top.pending = None, top.next > Len(text),
           Pop, Remember, program' = program
    PROVE  \A t : \A i \in 1 .. Len(Text(t)) : Seen(t, i)' <=> Seen(t, i)
<1>1. PICK n \in Nat \ {0} : n = Len(stack) /\ n \in 1 .. n /\ top = stack[n]
  BY TopIsSound
<1>2. Len(stack') = n - 1 /\ \A k \in 1 .. n - 1 : k \in 1 .. n /\ stack'[k] = stack[k]
  BY <1>1, PopStack
<1>3. resolved' = resolved \cup {top.task}
  BY DEF Remember
<1>4. \A t, i : Seen(t, i) <=> \/ t \in resolved
                               \/ \E k \in 1 .. n : stack[k].task = t /\ Covers(stack[k], i)
  BY <1>1 DEF Seen
<1>5. \A t, i : Seen(t, i)' <=> \/ t \in resolved'
                                \/ \E k \in 1 .. n - 1 : stack'[k].task = t /\ Covers(stack[k], i)'
  BY <1>2 DEF Seen
<1>6. \A k \in 1 .. n - 1 : \A i : Covers(stack[k], i)' <=> Covers(stack[k], i)
  BY <1>2 DEF Covers, None
<1>7. ASSUME NEW t, NEW i \in 1 .. Len(Text(t))
      PROVE  Seen(t, i)' <=> Seen(t, i)
  <2>1. CASE t = top.task
    <3>1. Len(text) \in Nat /\ top.next \in Nat
      <4>1. top \in Calls /\ top.task \in Tasks /\ program \in Programs
        BY TopIsSound DEF IInv, Typed
      <4> QED
        BY <4>1, TextIsRead DEF text, Calls
    <3>2. Covers(top, i)
      BY <2>1, <3>1 DEF Covers, text
    <3> QED
      BY <1>1, <1>3, <1>4, <1>5, <2>1, <3>2
  <2>2. CASE t # top.task
    <3>1. \A k \in 1 .. n : k = n \/ k \in 1 .. n - 1
      OBVIOUS
    <3> QED
      BY <1>1, <1>2, <1>3, <1>4, <1>5, <1>6, <2>2, <3>1
  <2> QED
    BY <2>1, <2>2
<1> QED
  BY <1>7


-----------------------------------------------------------------------------
(* The counts follow what has been read. *)

LEMMA SetStays ==
    ASSUME NEW CONSTANT S, NEW CONSTANT x, Counts(x, S), use_count'[x] = use_count[x],
           \A s \in S : Seen(s[1], s[2])' <=> Seen(s[1], s[2])
    PROVE  Counts(x, S)'
<1>1. SeenOf(S)' = SeenOf(S)
  BY DEF SeenOf
<1> QED
  BY <1>1 DEF Counts

LEMMA SetGrows ==
    ASSUME NEW CONSTANT S, NEW CONSTANT x, Counts(x, S), use_count'[x] = use_count[x] + 1,
           NEW CONSTANT p \in S, ~Seen(p[1], p[2]),
           \A s \in S : Seen(s[1], s[2])' <=> Seen(s[1], s[2]) \/ s = p
    PROVE  Counts(x, S)'
<1>1. PICK R : R = SeenOf(S)
  OBVIOUS
<1>2. SeenOf(S)' = R \cup {p} /\ p \notin R
  BY <1>1 DEF SeenOf
<1>3. IsFiniteSet(R) /\ use_count[x] = Cardinality(R)
  BY <1>1 DEF Counts
<1>4. IsFiniteSet(R \cup {p}) /\ Cardinality(R \cup {p}) = Cardinality(R) + 1
  BY <1>2, <1>3, FS_AddElement
<1> QED
  BY <1>2, <1>3, <1>4 DEF Counts

LEMMA TalliedStays ==
    ASSUME program \in Programs, program' = program, Tallied,
           \A s : Place(s) => (Seen(s[1], s[2])' <=> Seen(s[1], s[2])),
           \A d \in Definitions : /\ use_count'[Own(d)] = use_count[Own(d)]
                                  /\ use_count'[Parameter(d)] = use_count[Parameter(d)]
    PROVE  Tallied'
<1>1. ASSUME NEW d \in Definitions
      PROVE  Counts(Own(d), Occurrences(d))' /\ Counts(Parameter(d), ParameterUses(d))'
  <2>1. PICK S, R : S = Occurrences(d) /\ R = ParameterUses(d)
    OBVIOUS
  <2>2. Occurrences(d)' = S /\ ParameterUses(d)' = R
    BY <2>1, SameNeeds
  <2>3. PICK x, y : x = Own(d) /\ y = Parameter(d)
    OBVIOUS
  <2>4. Own(d)' = x /\ Parameter(d)' = y
    BY <2>3 DEF Own, Parameter
  <2>5. \A s : s \in S \/ s \in R => Place(s)
    BY <2>1, UsesArePlaces
  <2>6. Counts(x, S)'
    BY <2>1, <2>3, <2>5, SetStays DEF Tallied
  <2>7. Counts(y, R)'
    BY <2>1, <2>3, <2>5, SetStays DEF Tallied
  <2> QED
    BY <2>2, <2>4, <2>6, <2>7
<1> QED
  BY <1>1, SamePlaces DEF Tallied

(* Reading one more place that names a definition, or the parameter. *)
LEMMA TalliedGrows ==
    ASSUME program \in Programs, program' = program, Tallied,
           use_count \in [Symbols -> Nat],
           NEW p, Place(p), ~Seen(p[1], p[2]),
           \A s : Place(s) => (Seen(s[1], s[2])' <=> Seen(s[1], s[2]) \/ s = p),
           NEW x \in Symbols, Count(x),
           \/ UseAt(p).form \in PathForms /\ x = Own(UseAt(p).of)
           \/ UseAt(p).form = "parameter" /\ x = Parameter(p[1].of)
    PROVE  Tallied'
<1>1. \A y : use_count'[y] = IF y = x THEN use_count[y] + 1 ELSE use_count[y]
  BY DEF Count
<1>2. ASSUME NEW d \in Definitions
      PROVE  Counts(Own(d), Occurrences(d))' /\ Counts(Parameter(d), ParameterUses(d))'
  <2>1. PICK S, R : S = Occurrences(d) /\ R = ParameterUses(d)
    OBVIOUS
  <2>2. Occurrences(d)' = S /\ ParameterUses(d)' = R
    BY <2>1, SameNeeds
  <2>3. PICK y, z : y = Own(d) /\ z = Parameter(d)
    OBVIOUS
  <2>4. Own(d)' = y /\ Parameter(d)' = z
    BY <2>3 DEF Own, Parameter
  <2>5. \A s : s \in S \/ s \in R => Place(s)
    BY <2>1, UsesArePlaces
  <2>6. p \in S <=> UseAt(p).form \in PathForms /\ UseAt(p).of = d
    BY <2>1, UsesArePlaces
  <2>7. p \in R <=> UseAt(p).form = "parameter" /\ p[1].of = d
    BY <2>1, UsesArePlaces
  <2>8. (p \in S <=> y = x) /\ (p \in R <=> z = x)
    BY <2>3, <2>6, <2>7 DEF Own, Parameter, PathForms
  <2>9. Counts(y, S) /\ Counts(z, R)
    BY <2>1, <2>3 DEF Tallied
  <2>10. Counts(y, S)'
    <3>1. CASE p \in S
      <4>1. use_count'[y] = use_count[y] + 1
        BY <1>1, <2>8, <3>1
      <4> QED
        BY <2>5, <2>9, <3>1, <4>1, SetGrows
    <3>2. CASE p \notin S
      <4>1. use_count'[y] = use_count[y]
        BY <1>1, <2>8, <3>2
      <4>2. \A s \in S : Seen(s[1], s[2])' <=> Seen(s[1], s[2])
        BY <2>5, <3>2
      <4> QED
        BY <2>9, <4>1, <4>2, SetStays
    <3> QED
      BY <3>1, <3>2
  <2>11. Counts(z, R)'
    <3>1. CASE p \in R
      <4>1. use_count'[z] = use_count[z] + 1
        BY <1>1, <2>8, <3>1
      <4> QED
        BY <2>5, <2>9, <3>1, <4>1, SetGrows
    <3>2. CASE p \notin R
      <4>1. use_count'[z] = use_count[z]
        BY <1>1, <2>8, <3>2
      <4>2. \A s \in R : Seen(s[1], s[2])' <=> Seen(s[1], s[2])
        BY <2>5, <3>2
      <4> QED
        BY <2>9, <4>1, <4>2, SetStays
    <3> QED
      BY <3>1, <3>2
  <2> QED
    BY <2>2, <2>4, <2>10, <2>11
<1> QED
  BY <1>2, SamePlaces DEF Tallied

LEMMA WarnedStays ==
    ASSUME program' = program, Warned, warnings' = warnings,
           \A f \in Definitions : Task("body", f) \in resolved' <=> Task("body", f) \in resolved,
           \A e \in Definitions : Judged(e)' <=> Judged(e)
    PROVE  Warned'
<1>1. \A d : Own(d)' = Own(d) /\ Parameter(d)' = Parameter(d) /\ Task("body", d)' = Task("body", d)
  BY DEF Own, Parameter, Task
<1>2. \A d : Occurrences(d)' = Occurrences(d) /\ ParameterUses(d)' = ParameterUses(d)
  BY SameNeeds
<1>3. Definitions' = Definitions
  BY SamePlaces
<1> QED
  BY <1>1, <1>2, <1>3 DEF Warned

(* The innermost call reads on. *)
LEMMA ReadSeen ==
    ASSUME IInv, Chain, ~Cyclic, Reading, NEW frame \in Calls, ReplaceTop(frame),
           frame.task = top.task, resolved' = resolved,
           \A i \in Nat : Covers(frame, i) <=> i <= top.next
    PROVE  /\ Place(<<top.task, top.next>>) /\ ~Seen(top.task, top.next)
           /\ UseAt(<<top.task, top.next>>) = use
           /\ \A s : Place(s) => (Seen(s[1], s[2])' <=> Seen(s[1], s[2]) \/ s = <<top.task, top.next>>)
<1>1. /\ stack # <<>> /\ top.task \in Tasks /\ top.pending = None
      /\ top.next \in 1 .. Len(text) /\ top.next \in Nat /\ Len(text) \in Nat
  BY WhenReading
<1>2. PICK n \in Nat \ {0} : n = Len(stack) /\ n \in 1 .. n /\ top = stack[n]
  BY <1>1, TopIsSound
<1>3. top.task \in Written
  BY <1>2, CallsAreWritten
<1>4. \A i \in Nat : Covers(top, i) <=> i < top.next
  BY <1>1 DEF Covers
<1>5. \A i : Seen(top.task, i) <=> Covers(top, i)
  BY <1>1, TopIsSeen
<1>6. \A t, i : Seen(t, i)' <=> IF t = top.task THEN Covers(frame, i) ELSE Seen(t, i)
  BY <1>1, MoveSeen
<1>7. ASSUME NEW s, Place(s)
      PROVE  Seen(s[1], s[2])' <=> Seen(s[1], s[2]) \/ s = <<top.task, top.next>>
  <2>1. PICK t, i : t = s[1] /\ i = s[2] /\ s = <<t, i>> /\ i \in 1 .. Len(Text(t))
    BY <1>7 DEF Place
  <2>2. i \in Nat /\ (s = <<top.task, top.next>> <=> t = top.task /\ i = top.next)
    BY <2>1
  <2>3. CASE t = top.task
    <3>1. i <= top.next <=> i < top.next \/ i = top.next
      BY <1>1, <2>2
    <3> QED
      BY <1>4, <1>5, <1>6, <2>1, <2>2, <2>3, <3>1
  <2>4. CASE t # top.task
    BY <1>6, <2>1, <2>2, <2>4
  <2> QED
    BY <2>3, <2>4
<1> QED
  BY <1>1, <1>3, <1>4, <1>5, <1>7 DEF Place, UseAt, use, text

(* It goes on behind a path that it has read already. *)
LEMMA GoOnSeen ==
    ASSUME IInv, Chain, ~Cyclic, stack # <<>>, NEW frame \in Calls, ReplaceTop(frame),
           frame.task = top.task, resolved' = resolved,
           \A i \in Nat : Covers(frame, i) <=> Covers(top, i)
    PROVE  \A s : Place(s) => (Seen(s[1], s[2])' <=> Seen(s[1], s[2]))
<1>1. \A t, i : Seen(t, i)' <=> IF t = top.task THEN Covers(frame, i) ELSE Seen(t, i)
  BY MoveSeen
<1>2. \A i : Seen(top.task, i) <=> Covers(top, i)
  BY TopIsSeen
<1> QED
  BY <1>1, <1>2 DEF Place


-----------------------------------------------------------------------------
(* Every step preserves the counts. *)

LEMMA CountType ==
    ASSUME program' = program, use_count \in [Symbols -> Nat], NEW x \in Symbols, Count(x)
    PROVE  use_count' \in [Symbols' -> Nat]
<1>1. PICK S : S = Symbols /\ S = Symbols'
  BY SamePlaces
<1>2. use_count \in [S -> Nat] /\ x \in S
  BY <1>1
<1>3. use_count' = [use_count EXCEPT ![x] = use_count[x] + 1]
  BY DEF Count
<1>4. use_count' \in [S -> Nat]
  BY <1>2, <1>3
<1> QED
  BY <1>1, <1>4

LEMMA SameCounting ==
    ASSUME IInv, Counting, program' = program, use_count' = use_count,
           erroneous => erroneous',
           ~erroneous' /\ ~Cyclic =>
               /\ \A s : Place(s) => (Seen(s[1], s[2])' <=> Seen(s[1], s[2]))
               /\ Warned => Warned'
    PROVE  Counting'
<1>1. program \in Programs
  BY DEF IInv, Typed
<1>2. use_count' \in [Symbols' -> Nat]
  BY SamePlaces DEF Counting
<1>3. Cyclic' <=> Cyclic
  BY SameNeeds
<1>4. ASSUME ~erroneous', ~Cyclic
      PROVE  Tallied' /\ Warned'
  <2>1. Tallied /\ Warned
    BY <1>4 DEF Counting
  <2>2. \A s : Place(s) => (Seen(s[1], s[2])' <=> Seen(s[1], s[2]))
    BY <1>4
  <2>3. Tallied'
    BY <1>1, <2>1, <2>2, TalliedStays
  <2> QED
    BY <1>4, <2>1, <2>3
<1> QED
  BY <1>2, <1>3, <1>4 DEF Counting

(* The definitions that the second loop has come to do not change before   *)
(* it begins.                                                              *)
LEMMA SameWarned ==
    ASSUME program' = program, Warned, warnings' = warnings, resolved' = resolved,
           \/ phase' = phase /\ turn' = turn
           \/ phase \notin {"warning", "finished"} /\ phase' \notin {"warning", "finished"}
    PROVE  Warned'
<1>1. \A e : Judged(e)' <=> Judged(e)
  BY DEF Judged
<1> QED
  BY <1>1, WarnedStays

LEMMA LookUpCounting ==
    ASSUME IInv, Chain, Counting, LookUp
    PROVE  Counting'
<1>1. /\ Reading /\ use.form \in PathForms /\ Count(Own(use.of))
      /\ UNCHANGED <<program, phase, turn, resolved, warnings>>
  BY DEF LookUp
<1>2. /\ stack # <<>> /\ program \in Programs /\ top \in Calls /\ top.task \in Tasks
      /\ top.pending = None /\ Len(text) \in Nat
      /\ top.next \in 1 .. Len(text) /\ top.next \in Nat \ {0} /\ use.of \in Definitions
  BY <1>1, WhenReading
<1>3. PICK x \in Symbols : x = Own(use.of)
  BY <1>2 DEF Symbols, Own
<1>4. use_count' \in [Symbols' -> Nat]
  BY <1>1, <1>3, CountType DEF Counting
<1>5. Cyclic' <=> Cyclic
  BY <1>1, SameNeeds
<1>6. ASSUME ~erroneous', ~Cyclic
      PROVE  Tallied' /\ Warned'
  <2>1. PICK frame \in Calls : /\ ReplaceTop(frame) /\ frame.task = top.task
                               /\ \A i \in Nat : Covers(frame, i) <=> i <= top.next
    <3>1. CASE Demanding(use.form, Kind(use.of))
      <4>1. PICK frame : frame = [top EXCEPT !.pending = use.of]
        OBVIOUS
      <4>2. use.of \in 0 .. Len(program) /\ use.of # None
        BY <1>2 DEF Definitions, None
      <4>3. /\ frame \in Calls /\ frame.task = top.task
            /\ frame.next = top.next /\ frame.pending = use.of
        BY <1>2, <4>1, <4>2 DEF Calls
      <4>4. \A i \in Nat : Covers(frame, i) <=> i <= top.next
        BY <1>2, <4>2, <4>3 DEF Covers
      <4>5. ReplaceTop(frame)
        BY <3>1, <4>1 DEF LookUp
      <4> QED
        BY <4>3, <4>4, <4>5
    <3>2. CASE ~Demanding(use.form, Kind(use.of))
      <4>1. /\ ReplaceTop([top EXCEPT !.next = After])
            /\ erroneous' = (erroneous \/ ~Immediate(use.form, Kind(use.of)))
        BY <3>2 DEF LookUp
      <4>2. use.form = "type"
        BY <1>6, <4>1 DEF Immediate
      <4>3. After = top.next + 1
        BY <4>2 DEF After
      <4>4. PICK frame : frame = [top EXCEPT !.next = After]
        OBVIOUS
      <4>5. /\ frame \in Calls /\ frame.task = top.task
            /\ frame.next = top.next + 1 /\ frame.pending = None
        <5>1. PICK v \in Nat : v = After /\ v = top.next + 1
          BY <1>2, <4>3
        <5>2. frame = [top EXCEPT !.next = v]
          BY <4>4, <5>1
        <5> QED
          BY <1>2, <5>1, <5>2 DEF Calls
      <4>6. \A i \in Nat : Covers(frame, i) <=> i <= top.next
        BY <1>2, <4>5 DEF Covers
      <4> QED
        BY <4>1, <4>4, <4>5, <4>6
    <3> QED
      BY <3>1, <3>2
  <2>2. PICK p : p = <<top.task, top.next>>
    OBVIOUS
  <2>3. /\ Place(p) /\ ~Seen(p[1], p[2]) /\ UseAt(p) = use
        /\ \A s : Place(s) => (Seen(s[1], s[2])' <=> Seen(s[1], s[2]) \/ s = p)
    BY <1>1, <1>6, <2>1, <2>2, ReadSeen
  <2>4. Tallied /\ Warned
    <3>1. ~erroneous
      BY <1>6 DEF LookUp
    <3> QED
      BY <1>6, <3>1 DEF Counting
  <2>5. Count(x) /\ UseAt(p).form \in PathForms /\ x = Own(UseAt(p).of)
    BY <1>1, <1>3, <2>3
  <2>6. program' = program /\ use_count \in [Symbols -> Nat]
    BY <1>1 DEF Counting
  <2>7. Tallied'
    BY <1>2, <2>3, <2>4, <2>5, <2>6, TalliedGrows
  <2>8. Warned'
    BY <1>1, <2>4, SameWarned
  <2> QED
    BY <2>7, <2>8
<1> QED
  BY <1>4, <1>5, <1>6 DEF Counting

LEMMA UseParameterCounting ==
    ASSUME IInv, Chain, Counting, UseParameter
    PROVE  Counting'
<1>1. /\ Reading /\ use.form = "parameter" /\ Count(Parameter(top.task.of))
      /\ UNCHANGED <<program, phase, turn, resolved, warnings, erroneous>>
      /\ ReplaceTop([top EXCEPT !.next = @ + 1])
  BY DEF UseParameter
<1>2. /\ stack # <<>> /\ program \in Programs /\ top \in Calls /\ top.task \in Tasks
      /\ top.pending = None /\ top.next \in Nat \ {0}
  BY <1>1, WhenReading
<1>3. PICK x \in Symbols : x = Parameter(top.task.of)
  <2>1. top.task.of \in Definitions
    BY <1>2, TextIsRead
  <2> QED
    BY <2>1 DEF Symbols, Parameter
<1>4. use_count' \in [Symbols' -> Nat]
  BY <1>1, <1>3, CountType DEF Counting
<1>5. Cyclic' <=> Cyclic
  BY <1>1, SameNeeds
<1>6. ASSUME ~erroneous', ~Cyclic
      PROVE  Tallied' /\ Warned'
  <2>1. PICK frame : frame = [top EXCEPT !.next = @ + 1]
    OBVIOUS
  <2>2. /\ frame \in Calls /\ frame.task = top.task
        /\ frame.next = top.next + 1 /\ frame.pending = None
    BY <1>2, <2>1 DEF Calls
  <2>3. \A i \in Nat : Covers(frame, i) <=> i <= top.next
    BY <1>2, <2>2 DEF Covers
  <2>4. PICK p : p = <<top.task, top.next>>
    OBVIOUS
  <2>5. /\ Place(p) /\ ~Seen(p[1], p[2]) /\ UseAt(p) = use
        /\ \A s : Place(s) => (Seen(s[1], s[2])' <=> Seen(s[1], s[2]) \/ s = p)
    BY <1>1, <1>6, <2>1, <2>2, <2>3, <2>4, ReadSeen
  <2>6. Tallied /\ Warned
    BY <1>1, <1>6 DEF Counting
  <2>7. Count(x) /\ UseAt(p).form = "parameter" /\ x = Parameter(p[1].of)
    BY <1>1, <1>3, <2>4, <2>5
  <2>8. program' = program /\ use_count \in [Symbols -> Nat]
    BY <1>1 DEF Counting
  <2>9. Tallied'
    BY <1>2, <2>5, <2>6, <2>7, <2>8, TalliedGrows
  <2>10. Warned'
    BY <1>1, <2>6, SameWarned
  <2> QED
    BY <2>9, <2>10
<1> QED
  BY <1>4, <1>5, <1>6 DEF Counting

LEMMA ReadFieldCounting ==
    ASSUME IInv, Chain, Counting, ReadField
    PROVE  Counting'
<1>1. /\ Reading /\ use.form = "field"
      /\ UNCHANGED <<program, phase, turn, resolved, use_count, warnings, erroneous>>
      /\ ReplaceTop([top EXCEPT !.next = @ + 1, !.held = SubSeq(@, 1, Len(top.held) - 1)])
  BY DEF ReadField
<1>2. /\ stack # <<>> /\ program \in Programs /\ top \in Calls
      /\ top.pending = None /\ top.next \in Nat \ {0}
  BY <1>1, WhenReading
<1>3. Cyclic' <=> Cyclic
  BY <1>1, SameNeeds
<1>4. use_count' \in [Symbols' -> Nat]
  BY <1>1, SamePlaces DEF Counting
<1>5. ASSUME ~erroneous', ~Cyclic
      PROVE  Tallied' /\ Warned'
  <2>1. PICK frame : frame = [top EXCEPT !.next = @ + 1,
                                         !.held = SubSeq(@, 1, Len(top.held) - 1)]
    OBVIOUS
  <2>2. PICK held \in Seq(Nat) : held = SubSeq(top.held, 1, Len(top.held) - 1)
    BY ReadFieldIInv
  <2>3. /\ frame \in Calls /\ frame.task = top.task
        /\ frame.next = top.next + 1 /\ frame.pending = None
    <3>1. PICK done \in Calls : done = [top EXCEPT !.next = @ + 1]
      <4>1. PICK m \in Nat : m = top.next + 1
        BY <1>2
      <4>2. [top EXCEPT !.next = m] \in Calls
        BY <1>2 DEF Calls
      <4> QED
        BY <4>1, <4>2
    <3>2. done.task = top.task /\ done.next = top.next + 1 /\ done.pending = None
      BY <1>2, <3>1 DEF Calls
    <3>3. frame = [done EXCEPT !.held = held]
      BY <2>1, <2>2, <3>1
    <3> QED
      BY <3>1, <3>2, <3>3 DEF Calls
  <2>4. \A i \in Nat : Covers(frame, i) <=> i <= top.next
    BY <1>2, <2>3 DEF Covers
  <2>5. PICK p : p = <<top.task, top.next>>
    OBVIOUS
  <2>6. /\ UseAt(p) = use
        /\ \A s : Place(s) => (Seen(s[1], s[2])' <=> Seen(s[1], s[2]) \/ s = p)
    BY <1>1, <1>5, <2>1, <2>3, <2>4, <2>5, ReadSeen
  <2>7. Tallied /\ Warned
    BY <1>1, <1>5 DEF Counting
  <2>8. ASSUME NEW d \in Definitions
        PROVE  Counts(Own(d), Occurrences(d))' /\ Counts(Parameter(d), ParameterUses(d))'
    <3>1. PICK S, R : S = Occurrences(d) /\ R = ParameterUses(d)
      OBVIOUS
    <3>2. PICK x, y : x = Own(d) /\ y = Parameter(d)
      OBVIOUS
    <3>3. Own(d)' = x /\ Parameter(d)' = y /\ Occurrences(d)' = S /\ ParameterUses(d)' = R
      BY <1>1, <3>1, <3>2, SameNeeds DEF Own, Parameter
    <3>4. \A s : s \in S \/ s \in R => Place(s) /\ s # p
      BY <1>1, <1>2, <2>6, <3>1, UsesArePlaces DEF PathForms
    <3>5. Counts(x, S) /\ Counts(y, R)
      BY <2>7, <3>1, <3>2 DEF Tallied
    <3>6. Counts(x, S)'
      BY <1>1, <2>6, <3>4, <3>5, SetStays
    <3>7. Counts(y, R)'
      BY <1>1, <2>6, <3>4, <3>5, SetStays
    <3> QED
      BY <3>3, <3>6, <3>7
  <2>9. Warned'
    BY <1>1, <2>7, SameWarned
  <2> QED
    BY <1>1, <2>8, <2>9, SamePlaces DEF Tallied
<1> QED
  BY <1>3, <1>4, <1>5 DEF Counting


(* A call that goes on with what it asked for has counted its path already. *)
LEMMA GoOnCovers ==
    ASSUME IInv, Pending, NEW frame,
           \/ frame.next = top.next + 1 /\ frame.pending = None
           \/ frame.next = top.next /\ frame.pending # None
    PROVE  \A i \in Nat : Covers(frame, i) <=> Covers(top, i)
<1>1. top.next \in Nat
  BY WhenPending
<1>2. top.pending # None
  BY DEF Pending
<1> QED
  BY <1>1, <1>2 DEF Covers

LEMMA ProceedCounting ==
    ASSUME IInv, Chain, Counting, Proceed
    PROVE  Counting'
<1>1. /\ Pending
      /\ UNCHANGED <<program, phase, turn, resolved, use_count, warnings, erroneous>>
      /\ Asking # "init" => ReplaceTop([top EXCEPT !.next = @ + 1, !.pending = None])
      /\ Asking = "init" => ReplaceTop([[top EXCEPT !.next = @ + 1, !.pending = None]
                                            EXCEPT !.held = Append(@, constructors)])
  BY DEF Proceed, Remembered
<1>2. stack # <<>> /\ top \in Calls /\ top.next \in Nat
  BY <1>1, WhenPending
<1>3. PICK m \in Nat : m = top.next + 1
  BY <1>2
<1>4. PICK done : done = [top EXCEPT !.next = @ + 1, !.pending = None]
  OBVIOUS
<1>5. done = [task |-> top.task, held |-> top.held, next |-> m, pending |-> None]
  BY <1>2, <1>3, <1>4, MovedFrame
<1>6. None \in 0 .. Len(program) /\ top.held \in Seq(Nat)
  <2>1. Len(program) \in Nat
    BY ProgramsAssumption, LenProperties DEF IInv, Typed, WellFormed
  <2> QED
    BY <1>2, <2>1 DEF Calls, None
<1>7. PICK frame \in Calls : /\ ReplaceTop(frame) /\ frame.task = top.task
                             /\ frame.next = top.next + 1 /\ frame.pending = None
  <2>1. CASE Asking # "init"
    <3>1. done \in Calls
      BY <1>2, <1>3, <1>5, <1>6 DEF Calls
    <3> QED
      BY <1>1, <1>3, <1>4, <1>5, <2>1, <3>1
  <2>2. CASE Asking = "init"
    <3>1. PICK held \in Seq(Nat) : held = Append(top.held, constructors)
      BY <1>6, AppendProperties DEF IInv, Typed
    <3>2. PICK frame : frame = [task |-> top.task, held |-> held, next |-> m, pending |-> None]
      OBVIOUS
    <3>3. frame = [done EXCEPT !.held = Append(@, constructors)]
      <4>1. done.held = top.held
        BY <1>5
      <4>2. [done EXCEPT !.held = held] = frame
        BY <1>5, <3>2
      <4> QED
        BY <3>1, <4>1, <4>2
    <3>4. frame \in Calls
      BY <1>2, <1>3, <1>6, <3>2 DEF Calls
    <3> QED
      BY <1>1, <1>3, <1>4, <2>2, <3>2, <3>3, <3>4
  <2> QED
    BY <2>1, <2>2
<1>8. ASSUME ~erroneous', ~Cyclic
      PROVE  /\ \A s : Place(s) => (Seen(s[1], s[2])' <=> Seen(s[1], s[2]))
             /\ Warned => Warned'
  <2>1. \A i \in Nat : Covers(frame, i) <=> Covers(top, i)
    BY <1>1, <1>7, GoOnCovers
  <2>2. \A s : Place(s) => (Seen(s[1], s[2])' <=> Seen(s[1], s[2]))
    BY <1>1, <1>2, <1>7, <1>8, <2>1, GoOnSeen
  <2> QED
    BY <1>1, <2>2, SameWarned
<1> QED
  BY <1>1, <1>8, SameCounting

LEMMA ProceedThroughCounting ==
    ASSUME IInv, Chain, Counting, ProceedThrough
    PROVE  Counting'
<1> DEFINE d == top.pending
           done == [top EXCEPT !.next = @ + 1, !.pending = None]
           means == [top EXCEPT !.pending = meaning[d]]
<1>1. /\ Pending /\ Needed(d) \in resolved
      /\ UNCHANGED <<program, phase, turn, resolved, warnings>>
  BY DEF ProceedThrough, Remembered
<1>2. /\ erroneous => erroneous'
      /\ \/ ReplaceTop(done)
         \/ Kind(d) = "alias" /\ meaning[d] # None /\ ReplaceTop(means)
      /\ \/ use_count' = use_count
         \/ Count(Constructor(d))
  <2>1. CASE Kind(d) = "enumeration"
    BY <2>1 DEF ProceedThrough
  <2>2. CASE Kind(d) # "enumeration" /\ Kind(d) = "alias" /\ meaning[d] # None
    BY <2>2 DEF ProceedThrough
  <2>3. CASE Kind(d) # "enumeration" /\ ~(Kind(d) = "alias" /\ meaning[d] # None)
    BY <2>3 DEF ProceedThrough
  <2> QED
    BY <2>1, <2>2, <2>3
<1>3. stack # <<>> /\ program \in Programs /\ top \in Calls /\ top.next \in Nat /\ d \in Definitions
  BY <1>1, WhenPending
<1>4. PICK frame \in Calls :
          /\ ReplaceTop(frame) /\ frame.task = top.task
          /\ \/ frame.next = top.next + 1 /\ frame.pending = None
             \/ frame.next = top.next /\ frame.pending # None
  <2>1. CASE ReplaceTop(done)
    <3>1. PICK m \in Nat : m = top.next + 1
      BY <1>3
    <3>2. PICK frame : frame = done
      OBVIOUS
    <3>3. frame = [task |-> top.task, held |-> top.held, next |-> m, pending |-> None]
      BY <1>3, <3>1, <3>2, MovedFrame
    <3>4. None \in 0 .. Len(program)
      <4>1. Len(program) \in Nat
        BY <1>3, ProgramsAssumption, LenProperties DEF WellFormed
      <4> QED
        BY <4>1 DEF None
    <3>5. frame \in Calls
      BY <1>3, <3>1, <3>3, <3>4 DEF Calls
    <3> QED
      BY <2>1, <3>1, <3>2, <3>3, <3>5
  <2>2. CASE Kind(d) = "alias" /\ meaning[d] # None /\ ReplaceTop(means)
    <3>1. Needed(d) = Task("definition", d)
      BY <2>2 DEF Needed
    <3>2. meaning[d] \in 0 .. Len(program)
      BY <1>1, <1>3, <2>2, <3>1 DEF IInv, Typed
    <3>3. PICK frame : frame = means
      OBVIOUS
    <3>4. /\ frame \in Calls /\ frame.task = top.task
          /\ frame.next = top.next /\ frame.pending = meaning[d]
      BY <1>3, <3>2, <3>3 DEF Calls
    <3> QED
      BY <2>2, <3>3, <3>4
  <2> QED
    BY <1>2, <2>1, <2>2
<1>5. use_count' \in [Symbols' -> Nat]
  <2>1. CASE use_count' = use_count
    BY <1>1, <2>1, SamePlaces DEF Counting
  <2>2. CASE Count(Constructor(d))
    <3>1. PICK x \in Symbols : x = Constructor(d)
      BY <1>3 DEF Symbols, Constructor
    <3> QED
      BY <1>1, <2>2, <3>1, CountType DEF Counting
  <2> QED
    BY <1>2, <2>1, <2>2
<1>6. \A e : /\ use_count'[Own(e)] = use_count[Own(e)] \/ Own(e) \notin Symbols
             /\ use_count'[Parameter(e)] = use_count[Parameter(e)] \/ Parameter(e) \notin Symbols
  <2>1. CASE use_count' = use_count
    BY <2>1
  <2>2. CASE Count(Constructor(d))
    <3>1. \A e : Own(e) # Constructor(d) /\ Parameter(e) # Constructor(d)
      BY DEF Own, Parameter, Constructor
    <3>2. use_count' = [use_count EXCEPT ![Constructor(d)] = use_count[Constructor(d)] + 1]
      BY <2>2 DEF Count
    <3>3. use_count \in [Symbols -> Nat]
      BY DEF Counting
    <3>4. \A y \in Symbols : y # Constructor(d) => use_count'[y] = use_count[y]
      BY <3>2, <3>3
    <3> QED
      BY <3>1, <3>4
  <2> QED
    BY <1>2, <2>1, <2>2
<1>7. \A e \in Definitions : Own(e) \in Symbols /\ Parameter(e) \in Symbols
  BY DEF Own, Parameter, Symbols
<1>8. Cyclic' <=> Cyclic
  BY <1>1, SameNeeds
<1>9. ASSUME ~erroneous', ~Cyclic
      PROVE  Tallied' /\ Warned'
  <2>1. Tallied /\ Warned
    BY <1>2, <1>9 DEF Counting
  <2>2. \A i \in Nat : Covers(frame, i) <=> Covers(top, i)
    BY <1>1, <1>4, GoOnCovers
  <2>3. \A s : Place(s) => (Seen(s[1], s[2])' <=> Seen(s[1], s[2]))
    BY <1>1, <1>3, <1>4, <1>9, <2>2, GoOnSeen
  <2>4. \A e \in Definitions : /\ use_count'[Own(e)] = use_count[Own(e)]
                               /\ use_count'[Parameter(e)] = use_count[Parameter(e)]
    BY <1>6, <1>7
  <2>5. Tallied'
    BY <1>1, <1>3, <2>1, <2>3, <2>4, TalliedStays
  <2>6. Warned'
    BY <1>1, <2>1, SameWarned
  <2> QED
    BY <2>5, <2>6
<1> QED
  BY <1>5, <1>8, <1>9 DEF Counting

(* Calling a resolution reads nothing. *)
LEMMA PushCounting ==
    ASSUME IInv, Counting, NEW task \in Tasks, AsWritten(task), Push(task),
           UNCHANGED <<program, resolved, use_count, warnings, erroneous>>, phase = "resolving"
    PROVE  Counting'
<1>1. phase' \in {"resolving", "overflow"}
  BY DEF Push
<1>2. CASE Len(stack) = MaxDepth
  <2>1. stack' = stack
    BY <1>2 DEF Push
  <2>2. \A t, i : Seen(t, i)' <=> Seen(t, i)
    BY <2>1 DEF Seen, Covers, None
  <2>3. Warned => Warned'
    BY <1>1, SameWarned
  <2> QED
    BY <2>2, <2>3, SameCounting
<1>3. CASE Len(stack) # MaxDepth
  <2>1. stack' = Append(stack, Frame(task))
    BY <1>3 DEF Push
  <2>2. \A t : \A i \in Nat \ {0} : Seen(t, i)' <=> Seen(t, i)
    BY <2>1, PushSeen
  <2>3. \A s : Place(s) => (Seen(s[1], s[2])' <=> Seen(s[1], s[2]))
    <3>1. \A s : Place(s) => s[2] \in Nat \ {0}
      BY DEF Place
    <3> QED
      BY <2>2, <3>1
  <2>4. Warned => Warned'
    BY <1>1, SameWarned
  <2> QED
    BY <2>3, <2>4, SameCounting
<1> QED
  BY <1>2, <1>3

LEMMA CallCounting ==
    ASSUME IInv, Counting, Call
    PROVE  Counting'
<1>1. /\ Pending /\ Push(Needed(top.pending)) /\ phase = "resolving"
      /\ UNCHANGED <<program, resolved, use_count, warnings, erroneous>>
  BY DEF Call, Pending, Active
<1>2. top.pending \in Definitions
  BY <1>1, WhenPending
<1>3. PICK task \in Tasks : task = Needed(top.pending) /\ AsWritten(task)
  BY <1>2, NeededIsWritten
<1> QED
  BY <1>1, <1>3, PushCounting

LEMMA ResolveSymbolCounting ==
    ASSUME IInv, Counting, ResolveSymbol
    PROVE  Counting'
<1>1. /\ stack = <<>> /\ turn <= Len(program) /\ phase = "resolving"
      /\ UNCHANGED <<program, resolved, use_count, warnings, erroneous>>
      /\ Entry(turn) \in resolved => phase' = phase /\ stack' = stack
      /\ Entry(turn) \notin resolved => Push(Entry(turn))
  BY DEF ResolveSymbol
<1>2. CASE Entry(turn) \in resolved
  <2>1. \A t, i : Seen(t, i)' <=> Seen(t, i)
    BY <1>1, <1>2 DEF Seen, Covers, None
  <2>2. Warned => Warned'
    BY <1>1, <1>2, SameWarned
  <2> QED
    BY <1>1, <2>1, <2>2, SameCounting
<1>3. CASE Entry(turn) \notin resolved
  <2>1. turn \in Definitions
    <3>1. Len(program) \in Nat
      BY ProgramsAssumption, LenProperties DEF IInv, Typed, WellFormed
    <3> QED
      BY <1>1, <3>1 DEF IInv, Typed, Definitions
  <2>2. PICK task \in Tasks : task = Entry(turn) /\ AsWritten(task)
    BY <2>1, NeededIsWritten
  <2> QED
    BY <1>1, <1>3, <2>2, PushCounting
<1> QED
  BY <1>2, <1>3


(* Returning reads nothing either. *)
LEMMA ReturnCounting ==
    ASSUME IInv, Counting, NEW part, part # "body", Returning(part), Pop, Remember,
           UNCHANGED <<program, phase, turn, use_count, warnings>>, erroneous => erroneous'
    PROVE  Counting'
<1>1. /\ stack # <<>> /\ top.pending = None /\ top.next > Len(text)
      /\ resolved' = resolved \cup {Task(part, top.task.of)}
  BY WhenReturning
<1>2. \A s : Place(s) => (Seen(s[1], s[2])' <=> Seen(s[1], s[2]))
  BY <1>1, PopSeen DEF Place
<1>3. \A f : Task("body", f) \in resolved' <=> Task("body", f) \in resolved
  BY <1>1 DEF Task
<1>4. \A e : Judged(e)' <=> Judged(e)
  BY DEF Judged
<1>5. Warned => Warned'
  BY <1>3, <1>4, WarnedStays
<1> QED
  BY <1>2, <1>5, SameCounting

(* What has not been counted when all its places have been read is unused. *)
LEMMA UnusedIsRead ==
    ASSUME NEW x, NEW S, Counts(x, S), \A s \in S : Seen(s[1], s[2])
    PROVE  /\ SeenOf(S) = S /\ use_count[x] = Cardinality(S)
           /\ Unused(x) = IF S = {} THEN {x} ELSE {}
<1>1. SeenOf(S) = S
  BY DEF SeenOf
<1>2. IsFiniteSet(S) /\ use_count[x] = Cardinality(S)
  BY <1>1 DEF Counts
<1>3. Cardinality(S) = 0 <=> S = {}
  BY <1>2, FS_EmptySet
<1> QED
  BY <1>1, <1>2, <1>3 DEF Unused

(* A body is complete when its parameter can be judged. *)
LEMMA ParametersAreRead ==
    ASSUME IInv, stack # <<>>, top.pending = None, top.next > Len(text), top.task.part = "body"
    PROVE  \A s \in ParameterUses(top.task.of) : Seen(s[1], s[2])
<1>1. /\ top \in Calls /\ Sound(top) /\ top.task \in Tasks /\ program \in Programs
      /\ Len(stack) \in Nat \ {0} /\ Len(stack) \in 1 .. Len(stack) /\ top = stack[Len(stack)]
  BY TopIsSound DEF IInv, Typed
<1>2. Len(text) \in Nat /\ top.next \in Nat /\ top.next > 0
  <2>1. Len(text) \in Nat /\ top.next \in Nat
    BY <1>1, TextIsRead DEF text, Calls
  <2> QED
    BY <2>1
<1>3. Kind(top.task.of) = "function" /\ Task("signature", top.task.of) \in resolved
  BY <1>1, <1>2 DEF Sound, AsWritten, Reads
<1> SUFFICES ASSUME NEW s \in ParameterUses(top.task.of) PROVE Seen(s[1], s[2])
  OBVIOUS
<1>4. PICK t, i : t = s[1] /\ i = s[2] /\ t \in Written /\ i \in 1 .. Len(Text(t))
                  /\ t.of = top.task.of
  BY <1>1, UsesArePlaces DEF Place
<1>5. t = Task(t.part, t.of) /\ t.part \in {"signature", "body"}
  BY <1>3, <1>4 DEF Written, Tasks, Task
<1>6. CASE t.part = "signature"
  BY <1>3, <1>4, <1>5, <1>6 DEF Seen
<1>7. CASE t.part = "body"
  <2>1. t = top.task
    BY <1>1, <1>4, <1>5, <1>7 DEF Tasks, Task
  <2>2. Covers(top, i)
    BY <1>2, <1>4, <2>1 DEF Covers, text
  <2> QED
    BY <1>1, <1>4, <2>1, <2>2 DEF Seen
<1> QED
  BY <1>5, <1>6, <1>7

LEMMA ReturnBodyCounting ==
    ASSUME IInv, Counting, ReturnBody
    PROVE  Counting'
<1> DEFINE f == top.task.of
<1>1. /\ Returning("body") /\ Pop /\ Remember
      /\ warnings' = warnings \cup Unused(Parameter(f))
      /\ UNCHANGED <<program, phase, turn, use_count, erroneous>>
  BY DEF ReturnBody
<1>2. /\ stack # <<>> /\ top.pending = None /\ top.next > Len(text)
      /\ top.task = Task("body", f) /\ f \in Definitions
      /\ resolved' = resolved \cup {Task("body", f)}
  BY <1>1, WhenReturning
<1>3. \A s : Place(s) => (Seen(s[1], s[2])' <=> Seen(s[1], s[2]))
  BY <1>1, <1>2, PopSeen DEF Place
<1>4. ASSUME Tallied, Warned
      PROVE  Warned'
  <2>1. Counts(Parameter(f), ParameterUses(f))
    BY <1>2, <1>4 DEF Tallied
  <2>2. \A s \in ParameterUses(f) : Seen(s[1], s[2])
    <3>1. top.task.part = "body"
      BY <1>1 DEF Returning
    <3> QED
      BY <1>2, <3>1, ParametersAreRead
  <2>3. Unused(Parameter(f)) = IF ParameterUses(f) = {} THEN {Parameter(f)} ELSE {}
    BY <2>1, <2>2, UnusedIsRead
  <2>4. \A g : Task("body", g) \in resolved' <=> Task("body", g) \in resolved \/ g = f
    BY <1>2 DEF Task
  <2>5. \A d : Own(d)' = Own(d) /\ Parameter(d)' = Parameter(d)
               /\ Task("body", d)' = Task("body", d)
    BY DEF Own, Parameter, Task
  <2>6. /\ \A d : Occurrences(d)' = Occurrences(d) /\ ParameterUses(d)' = ParameterUses(d)
        /\ Definitions' = Definitions
    BY <1>1, SameNeeds, SamePlaces
  <2>7. \A e : Judged(e)' <=> Judged(e)
    BY <1>1 DEF Judged
  <2>8. PICK P, W : /\ P = {Parameter(d) : d \in {g \in Definitions :
                                Task("body", g) \in resolved /\ ParameterUses(g) = {}}}
                    /\ W = {Own(d) : d \in {e \in Definitions : Judged(e) /\ Occurrences(e) = {}}}
    OBVIOUS
  <2>9. {Parameter(d) : d \in {g \in Definitions :
             Task("body", g) \in resolved' /\ ParameterUses(g) = {}}}
        = P \cup Unused(Parameter(f))
    BY <1>2, <2>3, <2>4, <2>8
  <2>10. warnings' = (P \cup Unused(Parameter(f))) \cup W
    BY <1>1, <1>4, <2>8 DEF Warned
  <2> QED
    BY <2>5, <2>6, <2>7, <2>8, <2>9, <2>10 DEF Warned
<1>5. Cyclic' <=> Cyclic
  BY <1>1, SameNeeds
<1>6. use_count' \in [Symbols' -> Nat]
  BY <1>1, SamePlaces DEF Counting
<1>7. ASSUME ~erroneous', ~Cyclic
      PROVE  Tallied' /\ Warned'
  <2>1. Tallied /\ Warned /\ program \in Programs
    BY <1>1, <1>7 DEF Counting, IInv, Typed
  <2> QED
    BY <1>1, <1>3, <1>4, <2>1, TalliedStays
<1> QED
  BY <1>5, <1>6, <1>7 DEF Counting

LEMMA BeginWarningsCounting ==
    ASSUME IInv, Counting, BeginWarnings
    PROVE  Counting'
<1>1. /\ phase = "resolving" /\ turn' = 1
      /\ UNCHANGED <<program, stack, resolved, use_count, warnings, erroneous>>
  BY DEF BeginWarnings
<1>2. \A t, i : Seen(t, i)' <=> Seen(t, i)
  BY <1>1 DEF Seen, Covers, None
<1>3. \A e \in Definitions : ~Judged(e) /\ ~Judged(e)'
  BY <1>1 DEF Judged, Definitions
<1>4. Warned => Warned'
  BY <1>1, <1>3, WarnedStays
<1> QED
  BY <1>1, <1>2, <1>4, SameCounting

LEMMA AllIsSeen ==
    ASSUME IInv, Turns, phase \in {"warning", "finished"}, NEW d
    PROVE  /\ \A s \in Occurrences(d) : Seen(s[1], s[2])
           /\ \A s \in ParameterUses(d) : Seen(s[1], s[2])
<1>1. Written \subseteq resolved
  BY AllIsResolved DEF Turns
<1>2. program \in Programs
  BY DEF IInv, Typed
<1>3. \A s : Place(s) => Seen(s[1], s[2])
  BY <1>1 DEF Place, Seen
<1> QED
  BY <1>2, <1>3, UsesArePlaces

LEMMA WarnIfUnusedCounting ==
    ASSUME IInv, Turns, Counting, WarnIfUnused
    PROVE  Counting'
<1>1. /\ phase = "warning"
      /\ UNCHANGED <<program, stack, resolved, use_count, erroneous>>
  BY DEF WarnIfUnused
<1>2. \A t, i : Seen(t, i)' <=> Seen(t, i)
  BY <1>1 DEF Seen, Covers, None
<1>3. turn \in Nat \ {0} /\ Len(program) \in Nat
  BY ProgramsAssumption, LenProperties DEF IInv, Typed, WellFormed
<1>4. CASE turn > Len(program)
  <2>1. phase' = "finished" /\ warnings' = warnings /\ turn' = turn
    BY <1>3, <1>4 DEF WarnIfUnused
  <2>2. \A e : Judged(e)' <=> Judged(e)
    BY <1>1, <2>1 DEF Judged
  <2>3. Warned => Warned'
    BY <1>1, <2>1, <2>2, WarnedStays
  <2> QED
    BY <1>1, <1>2, <2>3, SameCounting
<1>5. CASE turn <= Len(program)
  <2>1. /\ warnings' = warnings \cup Unused(Own(turn)) /\ turn' = turn + 1 /\ phase' = phase
        /\ turn \in Definitions
    BY <1>3, <1>5 DEF WarnIfUnused, Definitions
  <2>2. \A e \in Definitions : Judged(e)' <=> Judged(e) \/ e = turn
    <3>1. \A e \in Definitions : e \in Nat
      BY DEF Definitions
    <3> QED
      BY <1>1, <1>3, <2>1, <3>1 DEF Judged
  <2>3. \A d : Own(d)' = Own(d) /\ Parameter(d)' = Parameter(d)
               /\ Task("body", d)' = Task("body", d)
    BY DEF Own, Parameter, Task
  <2>4. /\ \A d : Occurrences(d)' = Occurrences(d) /\ ParameterUses(d)' = ParameterUses(d)
        /\ Definitions' = Definitions
    BY <1>1, SameNeeds, SamePlaces
  <2>5. ASSUME Tallied, Warned
        PROVE  Warned'
    <3>1. Counts(Own(turn), Occurrences(turn))
      BY <2>1, <2>5 DEF Tallied
    <3>2. \A s \in Occurrences(turn) : Seen(s[1], s[2])
      BY <1>1, AllIsSeen
    <3>3. Unused(Own(turn)) = IF Occurrences(turn) = {} THEN {Own(turn)} ELSE {}
      BY <3>1, <3>2, UnusedIsRead
    <3>4. PICK P, W : /\ P = {Parameter(d) : d \in {g \in Definitions :
                                  Task("body", g) \in resolved /\ ParameterUses(g) = {}}}
                      /\ W = {Own(d) : d \in {e \in Definitions : Judged(e) /\ Occurrences(e) = {}}}
      OBVIOUS
    <3>5. {Own(d) : d \in {e \in Definitions : Judged(e)' /\ Occurrences(e) = {}}}
          = W \cup Unused(Own(turn))
      BY <2>1, <2>2, <3>3, <3>4
    <3>6. warnings' = P \cup (W \cup Unused(Own(turn)))
      BY <2>1, <2>5, <3>4 DEF Warned
    <3> QED
      BY <1>1, <2>3, <2>4, <3>4, <3>5, <3>6 DEF Warned
  <2>6. Cyclic' <=> Cyclic
    BY <1>1, SameNeeds
  <2>7. use_count' \in [Symbols' -> Nat]
    BY <1>1, SamePlaces DEF Counting
  <2>8. ASSUME ~erroneous', ~Cyclic
        PROVE  Tallied' /\ Warned'
    <3>1. Tallied /\ Warned /\ program \in Programs
      BY <1>1, <2>8 DEF Counting, IInv, Typed
    <3> QED
      BY <1>1, <1>2, <2>5, <3>1, TalliedStays
  <2> QED
    BY <2>6, <2>7, <2>8 DEF Counting
<1> QED
  BY <1>3, <1>4, <1>5

LEMMA NextCounting == IInv /\ Chain /\ Turns /\ Counting /\ [Next]_vars => Counting'
<1> SUFFICES ASSUME IInv, Chain, Turns, Counting, [Next]_vars PROVE Counting'
  OBVIOUS
<1>1. CASE UNCHANGED vars
  <2>1. UNCHANGED <<program, phase, turn, stack, resolved, use_count, warnings, erroneous>>
    BY <1>1 DEF vars
  <2>2. \A t, i : Seen(t, i)' <=> Seen(t, i)
    BY <2>1 DEF Seen, Covers, None
  <2>3. Warned => Warned'
    BY <2>1, SameWarned
  <2> QED
    BY <2>1, <2>2, <2>3, SameCounting
<1>2. CASE ResolveSymbol
  BY <1>2, ResolveSymbolCounting
<1>3. CASE BeginWarnings
  BY <1>3, BeginWarningsCounting
<1>4. CASE WarnIfUnused
  BY <1>4, WarnIfUnusedCounting
<1>5. CASE LookUp
  BY <1>5, LookUpCounting
<1>6. CASE UseParameter
  BY <1>6, UseParameterCounting
<1>7. CASE Call
  BY <1>7, CallCounting
<1>8. CASE Proceed
  BY <1>8, ProceedCounting
<1>9. CASE ProceedThrough
  BY <1>9, ProceedThroughCounting
<1>10. CASE ReadField
  BY <1>10, ReadFieldCounting
<1>11. CASE ReturnSignature
  BY <1>11, ReturnCounting DEF ReturnSignature
<1>12. CASE ReturnBody
  BY <1>12, ReturnBodyCounting
<1>13. CASE ReturnDefinition
  <2>1. erroneous => erroneous'
    BY <1>13 DEF ReturnDefinition
  <2> QED
    BY <1>13, <2>1, ReturnCounting DEF ReturnDefinition
<1> QED
  BY <1>1, <1>2, <1>3, <1>4, <1>5, <1>6, <1>7, <1>8, <1>9, <1>10, <1>11, <1>12, <1>13 DEF Next

LEMMA InitCounting == Init => Counting
<1> SUFFICES ASSUME Init PROVE Counting
  OBVIOUS
<1>1. /\ program \in Programs /\ phase = "resolving" /\ stack = <<>> /\ resolved = {}
      /\ warnings = {} /\ use_count = [s \in Symbols |-> 0]
  BY DEF Init
<1>2. 1 .. Len(stack) = {}
  BY <1>1
<1>3. \A S : SeenOf(S) = {}
  BY <1>1, <1>2 DEF SeenOf, Seen
<1>4. \A x \in Symbols : \A S : Counts(x, S)
  BY <1>1, <1>3, FS_EmptySet DEF Counts
<1>5. Tallied
  BY <1>4 DEF Tallied, Own, Parameter, Symbols
<1>6. Warned
  BY <1>1 DEF Warned, Judged
<1> QED
  BY <1>1, <1>5, <1>6 DEF Counting

(* What an alias means, how often a symbol is counted and what is reported *)
(* as unused is what the text of the document says, whatever the order in  *)
(* which its definitions need each other: in every document, and however   *)
(* much room the machine's stack has.                                      *)
THEOREM ResolutionFollowsText == Spec => []ResolutionMatchesText
<1>1. Init => IInv /\ Chain /\ Turns /\ Counting
  BY InitIInv, InitChain, InitTurns, InitCounting
<1>2. IInv /\ Chain /\ Turns /\ Counting /\ [Next]_vars => (IInv /\ Chain /\ Turns /\ Counting)'
  BY NextIInv, NextChain, NextTurns, NextCounting
<1>3. ASSUME IInv, Chain, Turns, Counting
      PROVE  ResolutionMatchesText
  <2>1. AliasMeansItsText
    <3> SUFFICES ASSUME NEW d \in DOMAIN meaning, ~Cyclic PROVE meaning[d] = Denotes(d)
      BY DEF AliasMeansItsText
    <3>1. d \in Definitions /\ Kind(d) = "alias" /\ Task("definition", d) \in resolved
      BY <1>3 DEF Chain, Aliases
    <3> QED
      BY <1>3, <3>1, AliasIsKnown DEF Once
  <2>2. ASSUME phase = "finished", ~erroneous
        PROVE  /\ \A d \in Definitions :
                      /\ use_count[Own(d)] = Cardinality(Occurrences(d))
                      /\ use_count[Parameter(d)] = Cardinality(ParameterUses(d))
               /\ warnings = {Own(d) : d \in {e \in Definitions : Occurrences(e) = {}}}
                             \cup {Parameter(d) : d \in {f \in Definitions :
                                      Kind(f) = "function" /\ ParameterUses(f) = {}}}
    <3>1. Tallied /\ Warned
      BY <1>3, <2>2, NoErrorNoCycle DEF Counting
    <3>2. \A d \in Definitions : /\ use_count[Own(d)] = Cardinality(Occurrences(d))
                                 /\ use_count[Parameter(d)] = Cardinality(ParameterUses(d))
      BY <1>3, <2>2, <3>1, AllIsSeen, UnusedIsRead DEF Tallied
    <3>3. \A f \in Definitions : Task("body", f) \in resolved <=> Kind(f) = "function"
      <4>1. ASSUME NEW f \in Definitions, Task("body", f) \in resolved
            PROVE  Kind(f) = "function"
        <5>1. Task("body", f) \in Written
          BY <1>3, <4>1 DEF Chain
        <5> QED
          BY <5>1 DEF Written, Task
      <4>2. ASSUME NEW f \in Definitions, Kind(f) = "function"
            PROVE  Task("body", f) \in resolved
        <5>1. Entry(f) \in resolved
          BY <1>3, <2>2 DEF Turns
        <5> QED
          BY <4>2, <5>1 DEF Entry
      <4> QED
        BY <4>1, <4>2
    <3>4. \A e \in Definitions : Judged(e)
      <4>1. turn > Len(program) /\ turn \in Nat /\ Len(program) \in Nat
        BY <1>3, <2>2, ProgramsAssumption, LenProperties DEF Turns, IInv, Typed, WellFormed
      <4> QED
        BY <2>2, <4>1 DEF Judged, Definitions
    <3>5. /\ {e \in Definitions : Judged(e) /\ Occurrences(e) = {}}
             = {e \in Definitions : Occurrences(e) = {}}
          /\ {f \in Definitions : Task("body", f) \in resolved /\ ParameterUses(f) = {}}
             = {f \in Definitions : Kind(f) = "function" /\ ParameterUses(f) = {}}
      BY <3>3, <3>4
    <3> QED
      BY <3>1, <3>2, <3>5 DEF Warned
  <2> QED
    BY <2>1, <2>2 DEF ResolutionMatchesText, UseCountsMatchText
<1> QED
  BY <1>1, <1>2, <1>3, PTL DEF Spec
=============================================================================
