--------------------------- MODULE CollectorProofs ---------------------------
(***************************************************************************)
(* Proofs about Collector, for every set of documents: indices into the    *)
(* arenas stay valid, the collector's stack is the parser's open blocks,   *)
(* the collector's assertions hold unless there is an impl block, and no   *)
(* definition is lost or misplaced.                                        *)
(***************************************************************************)
EXTENDS Collector, SequenceTheorems, FiniteSetTheorems, TLAPS

(* An arena of environments, when there are count symbols. *)
Maps(count)        == UNION {[S -> 1 .. count] : S \in SUBSET Names}
Environment(count) == [parent : Nat, map : Maps(count)]
Arena(envs, count) ==
    /\ envs \in Seq(Environment(count))
    /\ \A e \in 1 .. Len(envs) : envs[e].parent \in 0 .. e - 1

Symbol == [name : Names, at : Nat, env : Nat, opened : Nat]
Placed(some, envs) == \A s \in 1 .. Len(some) : some[s].env \in 1 .. Len(envs)

(* Parser and collector agree: this is StackFollowsBlocks without its      *)
(* exception.                                                              *)
Chain(stack, envs) ==
    \A k \in 1 .. Len(stack) - 1 : envs[stack[k + 1]].parent = stack[k]
Agree == /\ Len(env_id_stack) = block_depth + 1
         /\ env_id_stack[1] = Root
         /\ Chain(env_id_stack, environments)

Text   == text \in Seq(Definitions \cup Marks) /\ cursor \in 0 .. Len(text)
Status == status \in {"parsing", "skipping", "finished", "aborted"}
Depth  == block_depth \in Nat
Stack  == env_id_stack \in Seq(1 .. Len(environments))
Tables == /\ symbols \in Seq(Symbol) /\ Placed(symbols, environments)
          /\ Arena(environments, Len(symbols))
Aborted == status = "aborted"

IInv == /\ Text /\ Status /\ Depth /\ Stack /\ Tables
        /\ ~HasImplementation => Agree /\ ~Aborted

-----------------------------------------------------------------------------
(* What binding does to an arena. *)

LEMMA MapsGrow ==
    ASSUME NEW count \in Nat
    PROVE  Environment(count) \subseteq Environment(count + 1)
<1>1. Maps(count) \subseteq Maps(count + 1)
  <2> SUFFICES ASSUME NEW S \in SUBSET Names, NEW map \in [S -> 1 .. count]
               PROVE  map \in [S -> 1 .. count + 1]
    BY DEF Maps
  <2> QED
    OBVIOUS
<1> QED
  BY <1>1 DEF Environment

LEMMA WithIsMap ==
    ASSUME NEW count \in Nat, NEW map \in Maps(count), NEW n \in Names
    PROVE  With(map, n, count + 1) \in Maps(count + 1)
<1>1. PICK S \in SUBSET Names : map \in [S -> 1 .. count]
  BY DEF Maps
<1>2. With(map, n, count + 1) \in [S \cup {n} -> 1 .. count + 1]
  BY <1>1 DEF With
<1>3. S \cup {n} \in SUBSET Names
  BY <1>1
<1> QED
  BY <1>2, <1>3 DEF Maps

(* Environments and their parents stay; what their names mean may change. *)
Keeps(envs, later) ==
    /\ Len(later) = Len(envs)
    /\ \A i \in 1 .. Len(envs) : later[i].parent = envs[i].parent

Bound(envs, e, n, count) == [envs EXCEPT ![e].map = With(@, n, count + 1)]
LEMMA ArenaBinds ==
    ASSUME NEW count \in Nat, NEW envs, Arena(envs, count),
           NEW e \in 1 .. Len(envs), NEW n \in Names,
           NEW bound, bound = Bound(envs, e, n, count)
    PROVE  Arena(bound, count + 1) /\ Keeps(envs, bound)
<1>1. envs \in Seq(Environment(count + 1))
  BY MapsGrow, SeqMonotonic DEF Arena
<1>2. envs[e] \in Environment(count)
  BY ElementOfSeq DEF Arena
<1> DEFINE changed == [envs[e] EXCEPT !.map = With(@, n, count + 1)]
<1>3. changed \in Environment(count + 1) /\ changed.parent = envs[e].parent
  <2>1. With(envs[e].map, n, count + 1) \in Maps(count + 1)
    BY <1>2, WithIsMap DEF Environment
  <2> QED
    BY <1>2, <2>1 DEF Environment
<1> HIDE DEF changed
<1>4. bound = [envs EXCEPT ![e] = changed]
  BY DEF changed, Bound
<1>5. /\ bound \in Seq(Environment(count + 1)) /\ Len(bound) = Len(envs)
      /\ \A i \in 1 .. Len(envs) : bound[i] = IF i = e THEN changed ELSE envs[i]
  BY <1>1, <1>3, <1>4, ExceptSeq
<1>6. \A i \in 1 .. Len(envs) : bound[i].parent = envs[i].parent
  BY <1>3, <1>5
<1>7. Arena(bound, count + 1)
  BY <1>5, <1>6 DEF Arena
<1> QED
  BY <1>5, <1>6, <1>7 DEF Keeps

LEMMA ArenaWaits ==
    ASSUME NEW count \in Nat, NEW envs, Arena(envs, count)
    PROVE  Arena(envs, count + 1)
BY MapsGrow, SeqMonotonic DEF Arena

(* A new module's environment. *)
Grown(envs, e) == Append(envs, [parent |-> e, map |-> [n \in {} |-> 0]])
LEMMA ArenaGrows ==
    ASSUME NEW count \in Nat, NEW envs, Arena(envs, count), NEW e \in 1 .. Len(envs),
           NEW grown, grown = Grown(envs, e)
    PROVE  /\ Arena(grown, count) /\ Len(grown) = Len(envs) + 1
           /\ grown[Len(envs) + 1].parent = e
           /\ \A i \in 1 .. Len(envs) : grown[i].parent = envs[i].parent
<1> DEFINE child == [parent |-> e, map |-> [n \in {} |-> 0]]
<1>1. child \in Environment(count) /\ child.parent = e
  <2>1. [n \in {} |-> 0] \in Maps(count)
    <3>1. [n \in {} |-> 0] \in [{} -> 1 .. count]
      OBVIOUS
    <3> QED
      BY <3>1 DEF Maps
  <2>2. e \in Nat
    BY LenProperties DEF Arena
  <2> QED
    BY <2>1, <2>2 DEF Environment
<1> HIDE DEF child
<1>2. PICK n \in Nat : n = Len(envs)
  BY LenProperties DEF Arena
<1>3. grown = Append(envs, child)
  BY DEF Grown, child
<1>4. /\ grown \in Seq(Environment(count)) /\ Len(grown) = n + 1
      /\ \A i \in 1 .. n : grown[i] = envs[i]
      /\ grown[n + 1] = child
  <2> DEFINE T == Environment(count)
  <2>1. envs \in Seq(T) /\ child \in T
    BY <1>1 DEF Arena
  <2> HIDE DEF T
  <2>2. /\ Append(envs, child) \in Seq(T)
        /\ Len(Append(envs, child)) = Len(envs) + 1
        /\ \A i \in 1 .. Len(envs) : Append(envs, child)[i] = envs[i]
        /\ Append(envs, child)[Len(envs) + 1] = child
    BY <2>1, AppendProperties
  <2> QED
    BY <1>2, <1>3, <2>2, Zenon DEF T
<1>5. \A i \in 1 .. n : grown[i].parent \in 0 .. i - 1
  BY <1>2, <1>4 DEF Arena
<1>6. grown[n + 1].parent \in 0 .. (n + 1) - 1
  BY <1>1, <1>2, <1>4
<1>7. Arena(grown, count)
  <2>1. \A i \in 1 .. n + 1 : i = n + 1 \/ i \in 1 .. n
    BY <1>2
  <2>2. \A i \in 1 .. n + 1 : grown[i].parent \in 0 .. i - 1
    BY <1>5, <1>6, <2>1
  <2> QED
    BY <1>4, <2>2 DEF Arena
<1> QED
  BY <1>1, <1>2, <1>4, <1>7
(* Bind: one more symbol, placed in an environment that exists. *)
LEMMA BindTables ==
    ASSUME Text, Tables, NEW envs, Arena(envs, Len(symbols)), Placed(symbols, envs),
           env_id \in 1 .. Len(envs), NEW n \in Names, NEW opened \in Nat,
           Bind(n, opened, envs)
    PROVE  Tables' /\ Keeps(envs, environments')
<1>1. PICK count \in Nat : count = Len(symbols)
  BY LenProperties DEF Tables
<1>2. PICK many \in Nat : many = Len(envs)
  BY LenProperties DEF Arena
<1>3. cursor + 1 \in Nat
  BY LenProperties DEF Text
<1>4. PICK symbol : symbol = [name |-> n, at |-> cursor + 1, env |-> env_id,
                              opened |-> opened]
  OBVIOUS
<1>5. symbol \in Symbol /\ symbol.env \in 1 .. many
  BY <1>2, <1>3, <1>4 DEF Symbol
<1>6. /\ symbols' \in Seq(Symbol) /\ Len(symbols') = count + 1
      /\ \A s \in 1 .. count : symbols'[s] = symbols[s]
      /\ symbols'[count + 1] = symbol
  <2> DEFINE T == Symbol
  <2>1. symbols \in Seq(T) /\ symbol \in T
    BY <1>5 DEF Tables
  <2> HIDE DEF T
  <2>2. /\ Append(symbols, symbol) \in Seq(T)
        /\ Len(Append(symbols, symbol)) = Len(symbols) + 1
        /\ \A s \in 1 .. Len(symbols) : Append(symbols, symbol)[s] = symbols[s]
        /\ Append(symbols, symbol)[Len(symbols) + 1] = symbol
    BY <2>1, AppendProperties
  <2>3. symbols' = Append(symbols, symbol)
    BY <1>4 DEF Bind
  <2> QED
    BY <1>1, <2>2, <2>3, Zenon DEF T
<1>7. \A s \in 1 .. count + 1 : symbols'[s].env \in 1 .. many
  <2>1. \A s \in 1 .. count + 1 : s = count + 1 \/ s \in 1 .. count
    BY <1>1
  <2>2. \A s \in 1 .. count : symbols[s].env \in 1 .. many
    BY <1>1, <1>2 DEF Placed
  <2> QED
    BY <1>5, <1>6, <2>1, <2>2
<1>8. Arena(environments', count + 1) /\ Keeps(envs, environments')
  <2>1. Arena(envs, count)
    BY <1>1
  <2>2. CASE n \in DOMAIN envs[env_id].map
    <3>1. environments' = envs
      BY <2>2 DEF Bind
    <3> QED
      BY <1>1, <2>1, <3>1, ArenaWaits DEF Keeps
  <2>3. CASE n \notin DOMAIN envs[env_id].map
    <3>1. PICK e \in 1 .. Len(envs) : e = env_id
      OBVIOUS
    <3>2. PICK bound : bound = Bound(envs, e, n, count)
      OBVIOUS
    <3>3. environments' = bound
      BY <1>1, <2>3, <3>1, <3>2 DEF Bind, Bound
    <3>4. Arena(bound, count + 1) /\ Keeps(envs, bound)
      BY <2>1, <3>2, ArenaBinds, Zenon
    <3> QED
      BY <3>3, <3>4
  <2> QED
    BY <2>2, <2>3
<1> QED
  BY <1>2, <1>6, <1>7, <1>8 DEF Tables, Placed, Keeps
(* The stack, when environments are kept, opened and closed. *)
LEMMA ChainIsKept ==
    ASSUME NEW envs, NEW later, Keeps(envs, later),
           NEW stack \in Seq(1 .. Len(envs)), Chain(stack, envs)
    PROVE  Chain(stack, later)
<1> SUFFICES ASSUME NEW k \in 1 .. Len(stack) - 1
             PROVE  later[stack[k + 1]].parent = stack[k]
  BY DEF Chain
<1>1. Len(stack) \in Nat
  BY LenProperties
<1>2. k + 1 \in 1 .. Len(stack)
  BY <1>1
<1>3. stack[k + 1] \in 1 .. Len(envs)
  BY <1>2, ElementOfSeq
<1> QED
  BY <1>3 DEF Chain, Keeps

LEMMA ChainPushes ==
    ASSUME NEW many \in Nat, NEW envs, Len(envs) = many + 1,
           NEW stack \in Seq(1 .. many), stack # <<>>, Chain(stack, envs),
           envs[many + 1].parent = stack[Len(stack)]
    PROVE  /\ Append(stack, many + 1) \in Seq(1 .. many + 1)
           /\ Len(Append(stack, many + 1)) = Len(stack) + 1
           /\ Append(stack, many + 1)[1] = stack[1]
           /\ Chain(Append(stack, many + 1), envs)
<1>1. stack \in Seq(1 .. many + 1) /\ many + 1 \in 1 .. many + 1
  <2>1. 1 .. many \subseteq 1 .. many + 1
    OBVIOUS
  <2> QED
    BY <2>1, SeqMonotonic
<1>2. PICK n \in Nat \ {0} : n = Len(stack)
  BY EmptySeq
<1>3. PICK grown : grown = Append(stack, many + 1)
  OBVIOUS
<1>4. /\ grown \in Seq(1 .. many + 1) /\ Len(grown) = n + 1
      /\ \A i \in 1 .. n : grown[i] = stack[i]
      /\ grown[n + 1] = many + 1
  <2> DEFINE T == 1 .. many + 1
             last == many + 1
  <2>1. stack \in Seq(T) /\ last \in T
    BY <1>1
  <2> HIDE DEF T, last
  <2>2. /\ Append(stack, last) \in Seq(T)
        /\ Len(Append(stack, last)) = Len(stack) + 1
        /\ \A s \in 1 .. Len(stack) : Append(stack, last)[s] = stack[s]
        /\ Append(stack, last)[Len(stack) + 1] = last
    BY <2>1, AppendProperties
  <2> QED
    BY <1>2, <1>3, <2>2, Zenon DEF T, last
<1>5. ASSUME NEW k \in 1 .. n
      PROVE  envs[grown[k + 1]].parent = grown[k]
  <2>1. CASE k = n
    BY <1>2, <1>4, <2>1
  <2>2. CASE k # n
    <3>1. k \in 1 .. n - 1 /\ k + 1 \in 1 .. n
      BY <1>2, <2>2
    <3>2. envs[stack[k + 1]].parent = stack[k]
      BY <1>2, <3>1 DEF Chain
    <3> QED
      BY <1>4, <3>1, <3>2
  <2> QED
    BY <2>1, <2>2
<1>6. Len(grown) - 1 = n
  BY <1>2, <1>4
<1>7. Chain(grown, envs)
  BY <1>5, <1>6 DEF Chain
<1>8. grown[1] = stack[1]
  BY <1>2, <1>4
<1> QED
  BY <1>2, <1>3, <1>4, <1>7, <1>8

LEMMA ChainPops ==
    ASSUME NEW T, NEW envs, NEW stack \in Seq(T), stack # <<>>
    PROVE  LET popped == SubSeq(stack, 1, Len(stack) - 1) IN
           /\ popped \in Seq(T) /\ Len(popped) = Len(stack) - 1
           /\ Len(stack) > 1 => popped[1] = stack[1]
           /\ Chain(stack, envs) => Chain(popped, envs)
<1>1. PICK n \in Nat \ {0} : n = Len(stack)
  BY EmptySeq
<1>2. \A i \in 1 .. n - 1 : stack[i] \in T
  BY <1>1, ElementOfSeq
<1>3. PICK popped : popped = SubSeq(stack, 1, n - 1)
  OBVIOUS
<1>4. /\ popped \in Seq(T) /\ Len(popped) = n - 1
      /\ \A i \in 1 .. n - 1 : popped[i] = stack[i]
  <2>1. 1 \in Int /\ n - 1 \in Int
    BY <1>1
  <2>2. /\ SubSeq(stack, 1, n - 1) \in Seq(T)
        /\ Len(SubSeq(stack, 1, n - 1)) = IF 1 <= n - 1 THEN (n - 1) - 1 + 1 ELSE 0
        /\ \A i \in 1 .. (n - 1) - 1 + 1 : SubSeq(stack, 1, n - 1)[i] = stack[1 + i - 1]
    BY <1>2, <2>1, SubSeqProperties
  <2>3. \A i \in 1 .. n - 1 : i \in 1 .. (n - 1) - 1 + 1 /\ 1 + i - 1 = i
    BY <1>1
  <2> QED
    BY <1>1, <1>3, <2>2, <2>3
<1>5. ASSUME Chain(stack, envs)
      PROVE  Chain(popped, envs)
  <2> SUFFICES ASSUME NEW k \in 1 .. (n - 1) - 1
               PROVE  envs[popped[k + 1]].parent = popped[k]
    BY <1>4 DEF Chain
  <2>1. k \in 1 .. n - 1 /\ k + 1 \in 1 .. n - 1
    BY <1>1
  <2>2. envs[stack[k + 1]].parent = stack[k]
    BY <1>1, <1>5, <2>1 DEF Chain
  <2> QED
    BY <1>4, <2>1, <2>2
<1>6. n > 1 => popped[1] = stack[1]
  BY <1>1, <1>4
<1> QED
  BY <1>1, <1>3, <1>4, <1>5, <1>6
-----------------------------------------------------------------------------
(* What a turn of the loop finds. *)

LEMMA ItemIsThere ==
    ASSUME Text, ~AtEnd
    PROVE  /\ cursor + 1 \in 0 .. Len(text) /\ cursor + 1 \in DOMAIN text
           /\ item \in Definitions \cup Marks
<1>1. PICK n \in Nat : n = Len(text) /\ DOMAIN text = 1 .. n
  BY LenProperties DEF Text
<1>2. cursor \in 0 .. n /\ cursor # n
  BY <1>1 DEF Text, AtEnd
<1>3. cursor + 1 \in 1 .. n
  BY <1>2
<1>4. cursor + 1 \in 0 .. n
  BY <1>3
<1> QED
  BY <1>1, <1>3, <1>4, ElementOfSeq DEF Text, item

LEMMA ExtractReads ==
    ASSUME Text, NEW kind, Extract(kind), text' = text
    PROVE  Text' /\ status = "parsing" /\ item.kind = kind /\ item \in Definitions \cup Marks
<1>1. ~AtEnd /\ cursor' = cursor + 1 /\ item.kind = kind /\ status = "parsing"
  BY DEF Extract, Peek
<1> QED
  BY <1>1, ItemIsThere DEF Text

LEMMA DefinitionIsNamed ==
    ASSUME item \in Definitions \cup Marks, item.kind = "definition" \/ item.kind = "module"
    PROVE  item.name \in Names
<1>1. item \notin Marks
  BY DEF Marks
<1> QED
  BY <1>1 DEF Definitions

LEMMA ImplementationIsThere ==
    ASSUME Text, Extract("impl") \/ Extract("impl_fails")
    PROVE  HasImplementation
<1>1. ~AtEnd /\ (item.kind = "impl" \/ item.kind = "impl_fails")
  BY DEF Extract, Peek
<1>2. cursor + 1 \in DOMAIN text
  BY <1>1, ItemIsThere
<1> QED
  BY <1>1, <1>2 DEF item, HasImplementation

(* An environment is open whenever parser and collector agree, and then    *)
(* env_id names it.                                                        *)
LEMMA AgreementOpens ==
    ASSUME Stack, Depth, Agree
    PROVE  HasEnvironment
<1>1. Len(env_id_stack) = block_depth + 1 /\ block_depth \in Nat
  BY DEF Agree, Depth
<1>2. Len(<<>>) = 0
  BY EmptySeq
<1> QED
  BY <1>1, <1>2 DEF HasEnvironment

LEMMA OpenIsNamed ==
    ASSUME Stack, HasEnvironment
    PROVE  env_id \in 1 .. Len(environments)
<1>1. Len(env_id_stack) \in Nat \ {0}
  BY EmptySeq DEF Stack, HasEnvironment
<1> QED
  BY <1>1, ElementOfSeq DEF Stack, env_id

(* What does not depend on the turn: the agreement is about the text, and  *)
(* a step that changes neither side of it keeps it.                        *)
LEMMA SameText ==
    ASSUME text' = text
    PROVE  HasImplementation' = HasImplementation
BY DEF HasImplementation

LEMMA SameAgreement ==
    ASSUME block_depth' = block_depth, env_id_stack' = env_id_stack,
           Keeps(environments, environments'), Stack
    PROVE  Depth = Depth' /\ Stack' /\ (Agree => Agree')
<1>1. Stack'
  BY DEF Stack, Keeps
<1>2. Agree => Chain(env_id_stack, environments')
  BY ChainIsKept DEF Agree, Stack
<1> QED
  BY <1>1, <1>2 DEF Depth, Agree

LEMMA SameTables ==
    ASSUME Tables, symbols' = symbols, environments' = environments
    PROVE  Tables' /\ Keeps(environments, environments')
BY DEF Tables, Keeps
-----------------------------------------------------------------------------
(* Every operation preserves the invariant. *)

LEMMA InitIInv == Init => IInv
<1> SUFFICES ASSUME Init PROVE IInv
  OBVIOUS
<1>1. Text
  <2>1. text \in Seq(Definitions \cup Marks)
    BY TextsAssumption DEF Init
  <2>2. Len(text) \in Nat /\ cursor = 0
    BY <2>1, LenProperties DEF Init
  <2> QED
    BY <2>1, <2>2 DEF Text
<1>2. Status /\ Depth /\ ~Aborted
  BY DEF Init, Status, Depth, Aborted
<1>3. /\ Len(environments) = 1 /\ environments[1].parent = 0
      /\ Arena(environments, 0)
  <2> DEFINE root == [parent |-> None, map |-> [n \in {} |-> 0]]
  <2>1. [n \in {} |-> 0] \in Maps(0)
    <3>1. [n \in {} |-> 0] \in [{} -> 1 .. 0]
      OBVIOUS
    <3> QED
      BY <3>1 DEF Maps
  <2>2. root \in Environment(0) /\ root.parent = 0
    BY <2>1 DEF Environment, None
  <2>3. environments = <<root>>
    BY DEF Init
  <2> HIDE DEF root
  <2>4. environments \in Seq(Environment(0)) /\ Len(environments) = 1 /\ environments[1] = root
    BY <2>2, <2>3
  <2> QED
    BY <2>2, <2>4 DEF Arena
<1>4. Tables
  <2>1. symbols = <<>> /\ symbols \in Seq(Symbol) /\ Len(symbols) = 0
    BY EmptySeq DEF Init
  <2> QED
    BY <1>3, <2>1 DEF Tables, Placed
<1>5. Stack /\ Agree
  <2>1. env_id_stack = <<1>> /\ block_depth = 0
    BY DEF Init, Root
  <2>2. Len(env_id_stack) = 1 /\ env_id_stack[1] = 1 /\ env_id_stack \in Seq(1 .. 1)
    BY <2>1
  <2> QED
    BY <1>3, <2>1, <2>2 DEF Stack, Agree, Chain, Root
<1> QED
  BY <1>1, <1>2, <1>4, <1>5 DEF IInv

(* A step that opens, closes and binds nothing. *)
LEMMA QuietIInv ==
    ASSUME IInv, Text', Status', text' = text, ~Aborted',
           UNCHANGED <<block_depth, env_id_stack, environments, symbols>>
    PROVE  IInv'
<1>1. Tables' /\ Keeps(environments, environments')
  BY SameTables DEF IInv
<1>2. Depth' /\ Stack' /\ (Agree => Agree')
  BY <1>1, SameAgreement DEF IInv
<1>3. HasImplementation' = HasImplementation
  BY SameText
<1> QED
  BY <1>1, <1>2, <1>3 DEF IInv

(* The assertion fails only where the agreement is already lost. *)
LEMMA AbortIInv ==
    ASSUME IInv, Text', Depth', ~HasEnvironment, Abort
    PROVE  IInv'
<1>1. HasImplementation
  BY AgreementOpens DEF IInv
<1>2. HasImplementation'
  BY <1>1, SameText DEF Abort
<1>3. Tables'
  BY SameTables DEF IInv, Abort
<1>4. Stack' /\ Status'
  BY DEF IInv, Stack, Status, Abort
<1> QED
  BY <1>2, <1>3, <1>4 DEF IInv

LEMMA CollectDefinitionIInv ==
    ASSUME IInv, CollectDefinition
    PROVE  IInv'
<1>1. /\ Text' /\ status = "parsing" /\ item.kind = "definition"
      /\ item \in Definitions \cup Marks
  BY ExtractReads DEF IInv, CollectDefinition, Abort
<1>2. CASE HasEnvironment
  <2>1. /\ Bind(item.name, None, environments) /\ text' = text /\ status' = status
        /\ env_id_stack' = env_id_stack /\ block_depth' = block_depth
    BY <1>2 DEF CollectDefinition
  <2>2. item.name \in Names /\ env_id \in 1 .. Len(environments) /\ None \in Nat
    BY <1>1, <1>2, DefinitionIsNamed, OpenIsNamed DEF IInv, None
  <2>3. Tables' /\ Keeps(environments, environments')
    BY <2>1, <2>2, BindTables DEF IInv, Tables
  <2>4. Depth' /\ Stack' /\ (Agree => Agree')
    BY <2>1, <2>3, SameAgreement DEF IInv
  <2>5. Status' /\ ~Aborted'
    BY <1>1, <2>1 DEF Status, Aborted
  <2> QED
    BY <1>1, <2>1, <2>3, <2>4, <2>5, SameText DEF IInv
<1>3. CASE ~HasEnvironment
  <2>1. Abort /\ Depth'
    BY <1>3 DEF CollectDefinition, IInv, Depth
  <2> QED
    BY <1>1, <1>3, <2>1, AbortIInv
<1> QED
  BY <1>2, <1>3

LEMMA CollectModuleIInv ==
    ASSUME IInv, CollectModule
    PROVE  IInv'
<1>1. /\ Text' /\ status = "parsing" /\ item.kind = "module"
      /\ item \in Definitions \cup Marks
  BY ExtractReads DEF IInv, CollectModule, Abort
<1>2. Depth' /\ block_depth' = block_depth + 1
  BY DEF CollectModule, IInv, Depth
<1>3. CASE HasEnvironment
  <2>1. PICK many \in Nat : many = Len(environments)
    BY LenProperties DEF IInv, Tables, Arena
  <2>2. PICK envs : envs = Grown(environments, env_id)
    OBVIOUS
  <2>3. /\ Bind(item.name, many + 1, envs)
        /\ env_id_stack' = Append(env_id_stack, many + 1)
        /\ text' = text /\ status' = status
    BY <1>3, <2>1, <2>2 DEF CollectModule, Grown
  <2>4. item.name \in Names /\ env_id \in 1 .. many
    BY <1>1, <1>3, <2>1, DefinitionIsNamed, OpenIsNamed DEF IInv
  <2>5. /\ Arena(envs, Len(symbols)) /\ Len(envs) = many + 1
        /\ envs[many + 1].parent = env_id
        /\ \A i \in 1 .. many : envs[i].parent = environments[i].parent
    <3>1. Len(symbols) \in Nat
      BY LenProperties DEF IInv, Tables
    <3> QED
      BY <2>1, <2>2, <2>4, <3>1, ArenaGrows DEF IInv, Tables
  <2>6. Placed(symbols, envs)
    BY <2>1, <2>5 DEF IInv, Tables, Placed
  <2>7. Tables' /\ Keeps(envs, environments')
    <3>1. env_id \in 1 .. Len(envs) /\ many + 1 \in Nat
      BY <2>4, <2>5
    <3> QED
      BY <2>3, <2>4, <2>5, <2>6, <3>1, BindTables DEF IInv
  <2>8. /\ env_id_stack \in Seq(1 .. many) /\ env_id_stack # <<>>
        /\ env_id = env_id_stack[Len(env_id_stack)]
    BY <1>3, <2>1 DEF IInv, Stack, HasEnvironment, env_id
  <2>9. Stack'
    <3>1. Len(environments') = many + 1
      BY <2>5, <2>7 DEF Keeps
    <3>2. Append(env_id_stack, many + 1) \in Seq(1 .. many + 1)
      <4>1. 1 .. many \subseteq 1 .. many + 1 /\ many + 1 \in 1 .. many + 1
        OBVIOUS
      <4>2. env_id_stack \in Seq(1 .. many + 1)
        BY <2>8, <4>1, SeqMonotonic
      <4> QED
        BY <4>1, <4>2, AppendProperties
    <3> QED
      BY <2>3, <3>1, <3>2 DEF Stack
  <2>10. ASSUME Agree
         PROVE  Agree'
    <3>1. /\ Len(env_id_stack) = block_depth + 1 /\ env_id_stack[1] = Root
          /\ Chain(env_id_stack, environments)
      BY <2>10 DEF Agree
    <3>2. Chain(env_id_stack, envs)
      <4> SUFFICES ASSUME NEW k \in 1 .. Len(env_id_stack) - 1
                   PROVE  envs[env_id_stack[k + 1]].parent = env_id_stack[k]
        BY DEF Chain
      <4>1. Len(env_id_stack) \in Nat
        BY <2>8, LenProperties
      <4>2. k + 1 \in 1 .. Len(env_id_stack)
        BY <4>1
      <4>3. env_id_stack[k + 1] \in 1 .. many
        BY <2>8, <4>2, ElementOfSeq
      <4> QED
        BY <2>5, <3>1, <4>3 DEF Chain
    <3>3. /\ Len(Append(env_id_stack, many + 1)) = Len(env_id_stack) + 1
          /\ Append(env_id_stack, many + 1)[1] = env_id_stack[1]
          /\ Chain(Append(env_id_stack, many + 1), envs)
          /\ Append(env_id_stack, many + 1) \in Seq(1 .. many + 1)
      BY <2>5, <2>8, <3>2, ChainPushes
    <3>4. Chain(env_id_stack', environments')
      BY <2>3, <2>5, <2>7, <3>3, ChainIsKept
    <3>5. Len(env_id_stack') = block_depth' + 1 /\ env_id_stack'[1] = Root
      BY <1>2, <2>3, <3>1, <3>3
    <3> QED
      BY <3>4, <3>5 DEF Agree
  <2>11. Status' /\ ~Aborted'
    BY <1>1, <2>3 DEF Status, Aborted
  <2> QED
    BY <1>1, <1>2, <2>3, <2>7, <2>9, <2>10, <2>11, SameText DEF IInv
<1>4. CASE ~HasEnvironment
  <2>1. Abort
    BY <1>4 DEF CollectModule
  <2> QED
    BY <1>1, <1>2, <1>4, <2>1, AbortIInv
<1> QED
  BY <1>3, <1>4
(* An impl block is counted by the parser only: the agreement is lost, and *)
(* the invariant says no more than that.                                   *)
LEMMA ImplementationIInv ==
    ASSUME IInv, CollectImplementation \/ FailImplementation
    PROVE  IInv'
<1>1. text' = text /\ block_depth' = block_depth + 1 /\ env_id_stack' = env_id_stack
      /\ environments' = environments /\ symbols' = symbols
  BY DEF CollectImplementation, FailImplementation, Fail
<1>2. Extract("impl") \/ Extract("impl_fails")
  BY DEF CollectImplementation, FailImplementation
<1>3. Text' /\ HasImplementation'
  BY <1>1, <1>2, ExtractReads, ImplementationIsThere, SameText DEF IInv
<1>4. Depth' /\ Stack'
  BY <1>1 DEF IInv, Depth, Stack
<1>5. Status'
  BY DEF IInv, Status, CollectImplementation, FailImplementation, Fail
<1>6. Tables'
  BY <1>1, SameTables DEF IInv
<1> QED
  BY <1>3, <1>4, <1>5, <1>6 DEF IInv

(* A brace that is counted closes the environment that its block opened:   *)
(* above the root there is one for every open block.                       *)
LEMMA CollectBlockEndIInv ==
    ASSUME IInv, CollectBlockEnd
    PROVE  IInv'
<1>1. Text' /\ status = "parsing"
  BY ExtractReads DEF IInv, CollectBlockEnd, Abort
<1>2. Depth' /\ block_depth' = block_depth - 1 /\ block_depth \in Nat \ {0}
  <2>1. block_depth \in Nat /\ block_depth > 0 /\ block_depth' = block_depth - 1
    BY DEF CollectBlockEnd, IInv, Depth
  <2> QED
    BY <2>1 DEF Depth
<1>3. CASE HasEnvironment
  <2>1. PICK popped : popped = SubSeq(env_id_stack, 1, Len(env_id_stack) - 1)
    OBVIOUS
  <2>2. /\ env_id_stack' = popped /\ text' = text /\ status' = status
        /\ environments' = environments /\ symbols' = symbols
    BY <1>3, <2>1 DEF CollectBlockEnd
  <2>3. env_id_stack \in Seq(1 .. Len(environments)) /\ env_id_stack # <<>>
    BY <1>3 DEF IInv, Stack, HasEnvironment
  <2>4. /\ popped \in Seq(1 .. Len(environments)) /\ Len(popped) = Len(env_id_stack) - 1
        /\ Len(env_id_stack) > 1 => popped[1] = env_id_stack[1]
        /\ Chain(env_id_stack, environments) => Chain(popped, environments)
    BY <2>1, <2>3, ChainPops
  <2>5. Stack'
    BY <2>2, <2>4 DEF Stack
  <2>6. Agree => Agree'
    BY <1>2, <2>2, <2>4 DEF Agree
  <2>7. Tables'
    BY <2>2, SameTables DEF IInv
  <2>8. Status' /\ ~Aborted'
    BY <1>1, <2>2 DEF Status, Aborted
  <2> QED
    BY <1>1, <1>2, <2>2, <2>5, <2>6, <2>7, <2>8, SameText DEF IInv
<1>4. CASE ~HasEnvironment
  <2>1. Abort
    BY <1>4 DEF CollectBlockEnd
  <2> QED
    BY <1>1, <1>2, <1>4, <2>1, AbortIInv
<1> QED
  BY <1>3, <1>4

(* Failures, recovery and the end of the input. *)
LEMMA RecoveryIInv ==
    ASSUME IInv, FailDefinition \/ FailBlockEnd \/ FailToken \/ Skip \/ Recover \/ Finish
    PROVE  IInv'
<1>1. /\ text' = text
      /\ UNCHANGED <<block_depth, env_id_stack, environments, symbols>>
      /\ status' \in {"skipping", "parsing", "finished"}
  BY DEF FailDefinition, FailBlockEnd, FailToken, Fail, Skip, Recover, Finish
<1>2. Text'
  <2>1. CASE FailDefinition \/ FailBlockEnd \/ FailToken
    BY <1>1, <2>1, ExtractReads DEF FailDefinition, FailBlockEnd, FailToken, IInv
  <2>2. CASE Skip
    <3>1. ~AtEnd /\ cursor' = cursor + 1
      BY <2>2 DEF Skip, IsRecoveryPoint
    <3> QED
      BY <1>1, <3>1, ItemIsThere DEF IInv, Text
  <2>3. CASE Recover \/ Finish
    BY <1>1, <2>3 DEF Recover, Finish, IInv, Text
  <2> QED
    BY <2>1, <2>2, <2>3
<1>3. Status' /\ ~Aborted'
  BY <1>1 DEF Status, Aborted
<1> QED
  BY <1>1, <1>2, <1>3, QuietIInv

LEMMA StutterIInv == IInv /\ UNCHANGED vars => IInv'
BY DEF vars, IInv, Text, Status, Depth, Stack, Tables, Placed, Arena, Agree, Chain, Aborted,
       HasImplementation

-----------------------------------------------------------------------------
(* The invariant holds throughout, for every set of documents. *)
THEOREM Inductive == Spec => []IInv
<1>1. IInv /\ [Next]_vars => IInv'
  BY CollectDefinitionIInv, CollectModuleIInv, ImplementationIInv, CollectBlockEndIInv,
     RecoveryIInv, StutterIInv DEF Next
<1> QED
  BY <1>1, InitIInv, PTL DEF Spec

(* The arenas' indices stay valid: an environment's parent is older than   *)
(* itself, names mean symbols that exist, the stack holds environments.    *)
THEOREM TypeCorrect == Spec => []TypeOK
<1>1. IInv => TypeOK
  <2> SUFFICES ASSUME IInv PROVE TypeOK
    OBVIOUS
  <2>1. /\ environments \in Seq(Environment(Len(symbols)))
        /\ Environments = 1 .. Len(environments)
    BY LenProperties DEF IInv, Tables, Arena, Environments
  <2>2. symbols \in Seq(Symbol) /\ Symbols = 1 .. Len(symbols)
    BY LenProperties DEF IInv, Tables, Symbols
  <2>3. ASSUME NEW e \in Environments
        PROVE  /\ environments[e].parent \in 0 .. e - 1
               /\ DOMAIN environments[e].map \subseteq Names
               /\ \A n \in DOMAIN environments[e].map : environments[e].map[n] \in Symbols
    <3>1. environments[e].map \in Maps(Len(symbols))
      <4>1. environments[e] \in Environment(Len(symbols))
        BY <2>1, ElementOfSeq
      <4> QED
        BY <4>1 DEF Environment
    <3>2. PICK S \in SUBSET Names : environments[e].map \in [S -> 1 .. Len(symbols)]
      BY <3>1 DEF Maps
    <3> QED
      BY <2>1, <2>2, <3>2 DEF IInv, Tables, Arena
  <2>4. \A s \in Symbols : symbols[s].env \in Environments
    BY <2>1, <2>2 DEF IInv, Tables, Placed
  <2>5. env_id_stack \in Seq(Environments)
    BY <2>1 DEF IInv, Stack
  <2> QED
    BY <2>2, <2>3, <2>4, <2>5 DEF TypeOK, IInv, Text, Status, Depth, Symbol
<1> QED
  BY <1>1, Inductive, PTL

(* For every document without impl blocks, however broken: the collector's *)
(* stack is the parser's open blocks, each the parent of the next, and the *)
(* collector's assertions hold.                                            *)
THEOREM StackAgrees == Spec => []StackFollowsBlocks
<1>1. IInv => StackFollowsBlocks
  <2> SUFFICES ASSUME IInv, ~HasImplementation
               PROVE  /\ status # "aborted"
                      /\ Len(env_id_stack) = block_depth + 1
                      /\ env_id_stack[1] = Root
                      /\ \A k \in 1 .. block_depth :
                            environments[env_id_stack[k + 1]].parent = env_id_stack[k]
    BY DEF StackFollowsBlocks
  <2>1. Agree /\ block_depth \in Nat
    BY DEF IInv, Depth
  <2>2. Len(env_id_stack) - 1 = block_depth
    BY <2>1 DEF Agree
  <2>3. status # "aborted"
    BY DEF IInv, Aborted
  <2>4. /\ Len(env_id_stack) = block_depth + 1
        /\ env_id_stack[1] = Root
        /\ \A k \in 1 .. block_depth :
              environments[env_id_stack[k + 1]].parent = env_id_stack[k]
    BY <2>1, <2>2 DEF Agree, Chain
  <2> QED
    BY <2>3, <2>4
<1> QED
  BY <1>1, Inductive, PTL

-----------------------------------------------------------------------------
(* What becomes of the definitions.  What a name means needs what the maps *)
(* hold; where a definition is placed needs the place of every module on   *)
(* the collector's stack.  That place is found in the text alone: between  *)
(* the brace that opened the k-th module of the stack and the cursor, as   *)
(* many more blocks are opened than closed as there are modules above it.  *)

(* Count, Around and WhereWritten, with the text they are about as a       *)
(* parameter.                                                              *)
Having(t, kinds, from, to) == {i \in from .. to : t[i].kind \in kinds}
Many(t, kinds, from, to)   == Cardinality(Having(t, kinds, from, to))
Balanced(t, from, to)      == Many(t, {"close"}, from, to) <= Many(t, Opening, from, to)
Surrounding(t, i) ==
    {j \in 1 .. i - 1 : /\ t[j].kind = "module"
                        /\ \A k \in j + 1 .. i - 1 : Balanced(t, j + 1, k)}
Latest(modules) == CHOOSE i \in modules : \A j \in modules : j <= i
Right(t, some, s) ==
    LET modules == Surrounding(t, some[s].at) IN
    IF modules = {} THEN some[s].env = Root
    ELSE \E m \in 1 .. Len(some) : /\ some[m].at = Latest(modules)
                                   /\ some[s].env = some[m].opened

(* Every definition so far is a symbol, in textual order.                  *)
Redefined(at) == [what |-> "redefinition", at |-> at]
Listed ==
    /\ \A s \in 1 .. Len(symbols) : symbols[s].at \in 1 .. cursor /\ Definition(symbols[s].at)
    /\ ~Aborted => \A i \in 1 .. cursor :
           Definition(i) => \E s \in 1 .. Len(symbols) : symbols[s].at = i
    /\ symbol_order = [s \in 1 .. Len(symbols) |-> s]
    /\ \A r, s \in 1 .. Len(symbols) : r < s => symbols[r].at < symbols[s].at
    /\ status = "finished" => cursor = Len(text)

(* A name means a symbol of its environment that has it, and each symbol   *)
(* is there or behind the one that is.                                     *)
Meant(envs, some) ==
    \A e \in 1 .. Len(envs) : \A n \in DOMAIN envs[e].map :
        LET s == envs[e].map[n] IN s \in 1 .. Len(some) /\ some[s].env = e /\ some[s].name = n
Found(envs, some, reports) ==
    \A s \in 1 .. Len(some) :
        LET map == envs[some[s].env].map IN
        /\ some[s].name \in DOMAIN map /\ map[some[s].name] <= s
        /\ map[some[s].name] < s <=> Redefined(some[s].at) \in reports
Past == \A d \in diagnostics : d.what = "redefinition" => d.at \in 1 .. cursor

(* Without syntax errors, where the modules on the stack begin.            *)
OpenAt(t, c, n, stack, some, open) ==
    /\ open \in [1 .. n -> 1 .. c]
    /\ Surrounding(t, c + 1) = {open[k] : k \in 1 .. n}
    /\ \A k, l \in 1 .. n : k < l => open[k] < open[l]
    /\ \A k \in 1 .. n : Many(t, {"close"}, open[k] + 1, c) + (n - k)
                         = Many(t, Opening, open[k] + 1, c)
    /\ \A k \in 1 .. n : \E m \in 1 .. Len(some) :
           some[m].at = open[k] /\ some[m].opened = stack[k + 1]
Straight ==
    SyntaxErrors = {} =>
        /\ status \in {"parsing", "finished"}
        /\ Len(env_id_stack) = block_depth + 1 /\ env_id_stack[1] = Root
        /\ \E open : OpenAt(text, cursor, block_depth, env_id_stack, symbols, open)
        /\ \A s \in 1 .. Len(symbols) : Right(text, symbols, s)

Kept == /\ Listed /\ Past /\ Straight
        /\ Meant(environments, symbols) /\ Found(environments, symbols, diagnostics)

-----------------------------------------------------------------------------
(* What one more item does to the blocks around the cursor. *)

LEMMA ManyStep ==
    ASSUME NEW t, NEW kinds, NEW from \in Int, NEW to \in Int, from <= to + 1
    PROVE  /\ Many(t, kinds, from, to) \in Nat
           /\ Many(t, kinds, from, to + 1)
              = Many(t, kinds, from, to) + (IF t[to + 1].kind \in kinds THEN 1 ELSE 0)
<1>1. IsFiniteSet(Having(t, kinds, from, to)) /\ Many(t, kinds, from, to) \in Nat
  <2>1. IsFiniteSet(from .. to)
    BY FS_Interval
  <2>2. Having(t, kinds, from, to) \subseteq from .. to
    BY DEF Having
  <2>3. IsFiniteSet(Having(t, kinds, from, to))
    BY <2>1, <2>2, FS_Subset
  <2> QED
    BY <2>3, FS_CardinalityType DEF Many
<1>2. CASE t[to + 1].kind \in kinds
  <2>1. Having(t, kinds, from, to + 1) = Having(t, kinds, from, to) \cup {to + 1}
    BY <1>2 DEF Having
  <2>2. to + 1 \notin Having(t, kinds, from, to)
    BY DEF Having
  <2> QED
    BY <1>1, <1>2, <2>1, <2>2, FS_AddElement DEF Many
<1>3. CASE t[to + 1].kind \notin kinds
  <2>1. Having(t, kinds, from, to + 1) = Having(t, kinds, from, to)
    BY <1>3 DEF Having
  <2> QED
    BY <1>1, <1>3, <2>1 DEF Many
<1> QED
  BY <1>2, <1>3

LEMMA NoneYet ==
    ASSUME NEW t, NEW kinds, NEW i \in Int
    PROVE  Many(t, kinds, i + 1, i) = 0
<1>1. Having(t, kinds, i + 1, i) = {}
  BY DEF Having
<1> QED
  BY <1>1, FS_EmptySet DEF Many

LEMMA SurroundingStep ==
    ASSUME NEW t, NEW c \in Nat, NEW j
    PROVE  j \in Surrounding(t, c + 2) <=>
               \/ j = c + 1 /\ t[c + 1].kind = "module"
               \/ j \in Surrounding(t, c + 1) /\ Balanced(t, j + 1, c + 1)
<1>1. (c + 2) - 1 = c + 1 /\ (c + 1) - 1 = c
  OBVIOUS
<1>2. CASE j = c + 1
  <2>1. j \notin 1 .. c /\ j \in 1 .. c + 1 /\ j + 1 .. c + 1 = {}
    BY <1>2
  <2> QED
    BY <1>1, <1>2, <2>1 DEF Surrounding
<1>3. CASE j # c + 1 /\ j \in 1 .. c
  <2>1. j \in 1 .. c + 1 /\ c + 1 \in j + 1 .. c + 1
    BY <1>3
  <2>2. \A k : k \in j + 1 .. c + 1 <=> k \in j + 1 .. c \/ k = c + 1
    BY <1>3
  <2> QED
    BY <1>1, <1>3, <2>1, <2>2 DEF Surrounding
<1>4. CASE j # c + 1 /\ j \notin 1 .. c
  <2>1. j \notin 1 .. c + 1
    BY <1>4
  <2> QED
    BY <1>1, <1>4, <2>1 DEF Surrounding
<1> QED
  BY <1>2, <1>3, <1>4

(* An item that is no brace. *)
LEMMA OpenStays ==
    ASSUME NEW t, NEW c \in Nat, NEW n \in Nat, NEW stack, NEW some, NEW open,
           OpenAt(t, c, n, stack, some, open),
           t[c + 1].kind \notin Opening, t[c + 1].kind # "close"
    PROVE  OpenAt(t, c + 1, n, stack, some, open)
<1>1. \A k \in 1 .. n : open[k] \in 1 .. c /\ open[k] \in 1 .. c + 1
  BY DEF OpenAt
<1>2. open \in [1 .. n -> 1 .. c + 1]
  BY DEF OpenAt
<1>3. ASSUME NEW k \in 1 .. n
      PROVE  Many(t, {"close"}, open[k] + 1, c + 1) + (n - k)
             = Many(t, Opening, open[k] + 1, c + 1)
  <2>1. open[k] + 1 \in Int /\ open[k] + 1 <= c + 1
    BY <1>1
  <2>2. /\ Many(t, {"close"}, open[k] + 1, c) \in Nat
        /\ Many(t, {"close"}, open[k] + 1, c + 1) = Many(t, {"close"}, open[k] + 1, c) + 0
        /\ Many(t, Opening, open[k] + 1, c) \in Nat
        /\ Many(t, Opening, open[k] + 1, c + 1) = Many(t, Opening, open[k] + 1, c) + 0
    BY <2>1, ManyStep
  <2>3. Many(t, {"close"}, open[k] + 1, c) + (n - k) = Many(t, Opening, open[k] + 1, c)
    BY DEF OpenAt
  <2> QED
    BY <2>2, <2>3
<1>4. Surrounding(t, (c + 1) + 1) = {open[k] : k \in 1 .. n}
  <2>1. t[c + 1].kind # "module"
    BY DEF Opening
  <2>2. ASSUME NEW k \in 1 .. n
        PROVE  Balanced(t, open[k] + 1, c + 1)
    <3>1. /\ Many(t, {"close"}, open[k] + 1, c + 1) \in Nat
          /\ Many(t, Opening, open[k] + 1, c + 1) \in Nat
      <4>1. open[k] + 1 \in Int /\ open[k] + 1 <= (c + 1) + 1
        BY <1>1
      <4> QED
        BY <4>1, ManyStep
    <3> QED
      BY <1>3, <3>1 DEF Balanced
  <2>3. Surrounding(t, c + 1) = {open[k] : k \in 1 .. n}
    BY DEF OpenAt
  <2>4. \A j : j \in Surrounding(t, c + 2) <=> j \in Surrounding(t, c + 1)
    BY <2>1, <2>2, <2>3, SurroundingStep
  <2> QED
    BY <2>3, <2>4
<1> QED
  BY <1>2, <1>3, <1>4 DEF OpenAt

(* The opening brace of a module, whose symbol is new. *)
LEMMA OpenPushes ==
    ASSUME NEW t, NEW c \in Nat, NEW n \in Nat, NEW stack, NEW some, NEW open,
           OpenAt(t, c, n, stack, some, open), t[c + 1].kind = "module",
           NEW count \in Nat, Len(some) = count,
           NEW more, Len(more) = count + 1, \A m \in 1 .. count : more[m] = some[m],
           NEW higher, \A k \in 1 .. n + 1 : higher[k] = stack[k],
           more[count + 1].at = c + 1, more[count + 1].opened = higher[n + 2]
    PROVE  \E wider : OpenAt(t, c + 1, n + 1, higher, more, wider)
<1> DEFINE wider == [k \in 1 .. n + 1 |-> IF k = n + 1 THEN c + 1 ELSE open[k]]
<1>0. \A k \in 1 .. n + 1 : k = n + 1 \/ k \in 1 .. n
  OBVIOUS
<1>1. \A k \in 1 .. n : open[k] \in 1 .. c /\ k \in 1 .. n + 1 /\ k # n + 1
  BY DEF OpenAt
<1>2. wider \in [1 .. n + 1 -> 1 .. c + 1]
  BY <1>0, <1>1
<1>3. /\ \A k \in 1 .. n : wider[k] = open[k]
      /\ wider[n + 1] = c + 1
  BY <1>1
<1> HIDE DEF wider
<1>4. ASSUME NEW k \in 1 .. n + 1
      PROVE  /\ Many(t, {"close"}, wider[k] + 1, c + 1) + (n + 1 - k)
                = Many(t, Opening, wider[k] + 1, c + 1)
             /\ Balanced(t, wider[k] + 1, c + 1)
  <2>1. CASE k = n + 1
    <3>1. PICK i \in Int : i = c + 1 /\ wider[k] = i
      BY <1>3, <2>1
    <3>2. Many(t, {"close"}, i + 1, i) = 0 /\ Many(t, Opening, i + 1, i) = 0
      BY NoneYet
    <3> QED
      BY <2>1, <3>1, <3>2 DEF Balanced
  <2>2. CASE k \in 1 .. n
    <3>1. wider[k] = open[k] /\ open[k] + 1 \in Int /\ open[k] + 1 <= c + 1
      BY <1>1, <1>3, <2>2
    <3>2. t[c + 1].kind \in Opening /\ t[c + 1].kind \notin {"close"}
      BY DEF Opening
    <3>3. /\ Many(t, {"close"}, open[k] + 1, c) \in Nat
          /\ Many(t, {"close"}, open[k] + 1, c + 1) = Many(t, {"close"}, open[k] + 1, c) + 0
          /\ Many(t, Opening, open[k] + 1, c) \in Nat
          /\ Many(t, Opening, open[k] + 1, c + 1) = Many(t, Opening, open[k] + 1, c) + 1
      <4>1. PICK from \in Int : from = open[k] + 1 /\ from <= c + 1
        BY <3>1
      <4>2. /\ Many(t, {"close"}, from, c) \in Nat
            /\ Many(t, {"close"}, from, c + 1) = Many(t, {"close"}, from, c) + 0
        <5>1. PICK kinds : kinds = {"close"}
          OBVIOUS
        <5>2. c \in Int /\ from \in Int /\ from <= c + 1
          BY <4>1
        <5>3. /\ Many(t, kinds, from, c) \in Nat
              /\ Many(t, kinds, from, c + 1)
                 = Many(t, kinds, from, c) + (IF t[c + 1].kind \in kinds THEN 1 ELSE 0)
          BY <5>2, ManyStep
        <5>4. t[c + 1].kind \notin kinds
          BY <3>2, <5>1
        <5>5. Many(t, kinds, from, c + 1) = Many(t, kinds, from, c) + 0
          BY <5>3, <5>4, Zenon
        <5> QED
          BY <5>1, <5>3, <5>5
      <4>3. /\ Many(t, Opening, from, c) \in Nat
            /\ Many(t, Opening, from, c + 1) = Many(t, Opening, from, c) + 1
        <5>1. /\ Many(t, Opening, from, c) \in Nat
              /\ Many(t, Opening, from, c + 1)
                 = Many(t, Opening, from, c) + (IF t[c + 1].kind \in Opening THEN 1 ELSE 0)
          <6>1. PICK kinds : kinds = Opening
            OBVIOUS
          <6>2. c \in Int /\ from \in Int /\ from <= c + 1
            BY <4>1
          <6>3. /\ Many(t, kinds, from, c) \in Nat
                /\ Many(t, kinds, from, c + 1)
                   = Many(t, kinds, from, c) + (IF t[c + 1].kind \in kinds THEN 1 ELSE 0)
            BY <6>2, ManyStep
          <6> QED
            BY <6>1, <6>3
        <5> QED
          BY <3>2, <5>1
      <4> QED
        BY <4>1, <4>2, <4>3
    <3>4. Many(t, {"close"}, open[k] + 1, c) + (n - k) = Many(t, Opening, open[k] + 1, c)
      BY <2>2 DEF OpenAt
    <3> QED
      BY <2>2, <3>1, <3>3, <3>4 DEF Balanced
  <2> QED
    BY <1>0, <2>1, <2>2
<1>5. Surrounding(t, (c + 1) + 1) = {wider[k] : k \in 1 .. n + 1}
  <2>1. Surrounding(t, c + 1) = {open[k] : k \in 1 .. n}
    BY DEF OpenAt
  <2>2. \A k \in 1 .. n : Balanced(t, open[k] + 1, c + 1)
    BY <1>1, <1>3, <1>4
  <2>3. \A j : j \in Surrounding(t, c + 2) <=> j = c + 1 \/ \E k \in 1 .. n : j = open[k]
    BY <2>1, <2>2, SurroundingStep
  <2>4. \A j : (j = c + 1 \/ \E k \in 1 .. n : j = open[k])
               <=> \E k \in 1 .. n + 1 : j = wider[k]
    <3>1. n + 1 \in 1 .. n + 1
      OBVIOUS
    <3> QED
      BY <1>0, <1>1, <1>3, <3>1
  <2>5. ASSUME NEW j
        PROVE  j \in Surrounding(t, c + 2) <=> \E k \in 1 .. n + 1 : j = wider[k]
    <3>1. j \in Surrounding(t, c + 2) <=> j = c + 1 \/ \E k \in 1 .. n : j = open[k]
      BY <2>3
    <3>2. (j = c + 1 \/ \E k \in 1 .. n : j = open[k]) <=> \E k \in 1 .. n + 1 : j = wider[k]
      BY <2>4
    <3> QED
      BY <3>1, <3>2
  <2>6. c + 2 = (c + 1) + 1
    OBVIOUS
  <2> QED
    BY <2>5, <2>6
<1>6. \A k, l \in 1 .. n + 1 : k < l => wider[k] < wider[l]
  <2> SUFFICES ASSUME NEW k \in 1 .. n + 1, NEW l \in 1 .. n + 1, k < l
               PROVE  wider[k] < wider[l]
    OBVIOUS
  <2>1. k \in 1 .. n
    OBVIOUS
  <2>2. CASE l = n + 1
    BY <1>1, <1>3, <2>1, <2>2
  <2>3. CASE l \in 1 .. n
    BY <1>3, <2>1, <2>3 DEF OpenAt
  <2> QED
    BY <1>0, <2>2, <2>3
<1>7. ASSUME NEW k \in 1 .. n + 1
      PROVE  \E m \in 1 .. Len(more) : more[m].at = wider[k] /\ more[m].opened = higher[k + 1]
  <2>1. CASE k = n + 1
    <3>1. count + 1 \in 1 .. Len(more) /\ k + 1 = n + 2
      BY <2>1
    <3> QED
      BY <1>3, <2>1, <3>1
  <2>2. CASE k \in 1 .. n
    <3>1. PICK m \in 1 .. count : some[m].at = open[k] /\ some[m].opened = stack[k + 1]
      BY <2>2 DEF OpenAt
    <3>2. m \in 1 .. Len(more) /\ k + 1 \in 1 .. n + 1
      BY <2>2
    <3> QED
      BY <1>3, <2>2, <3>1, <3>2
  <2> QED
    BY <1>0, <2>1, <2>2
<1>8. OpenAt(t, c + 1, n + 1, higher, more, wider)
  BY <1>2, <1>4, <1>5, <1>6, <1>7 DEF OpenAt
<1> QED
  BY <1>8

(* A closing brace leaves the innermost module. *)
LEMMA OpenPops ==
    ASSUME NEW t, NEW c \in Nat, NEW n \in Nat, NEW stack, NEW some, NEW open,
           OpenAt(t, c, n + 1, stack, some, open), t[c + 1].kind = "close",
           NEW lower, \A k \in 1 .. n + 1 : lower[k] = stack[k]
    PROVE  \E narrower : OpenAt(t, c + 1, n, lower, some, narrower)
<1> DEFINE narrower == [k \in 1 .. n |-> open[k]]
<1>0. \A k \in 1 .. n + 1 : k = n + 1 \/ k \in 1 .. n
  OBVIOUS
<1>1. /\ \A k \in 1 .. n + 1 : open[k] \in 1 .. c
      /\ \A k \in 1 .. n : k \in 1 .. n + 1 /\ k # n + 1
  BY DEF OpenAt
<1>2. narrower \in [1 .. n -> 1 .. c + 1]
  BY <1>1
<1>3. \A k \in 1 .. n : narrower[k] = open[k]
  OBVIOUS
<1> HIDE DEF narrower
<1>4. ASSUME NEW k \in 1 .. n + 1
      PROVE  /\ Many(t, {"close"}, open[k] + 1, c + 1) + (n - k)
                = Many(t, Opening, open[k] + 1, c + 1)
             /\ Balanced(t, open[k] + 1, c + 1) <=> k # n + 1
  <2>1. open[k] + 1 \in Int /\ open[k] + 1 <= c + 1
    BY <1>1
  <2>2. t[c + 1].kind \notin Opening /\ t[c + 1].kind \in {"close"}
    BY DEF Opening
  <2>3. /\ Many(t, {"close"}, open[k] + 1, c) \in Nat
        /\ Many(t, {"close"}, open[k] + 1, c + 1) = Many(t, {"close"}, open[k] + 1, c) + 1
        /\ Many(t, Opening, open[k] + 1, c) \in Nat
        /\ Many(t, Opening, open[k] + 1, c + 1) = Many(t, Opening, open[k] + 1, c) + 0
    BY <2>1, <2>2, ManyStep
  <2>4. Many(t, {"close"}, open[k] + 1, c) + (n + 1 - k) = Many(t, Opening, open[k] + 1, c)
    BY DEF OpenAt
  <2>5. /\ Many(t, {"close"}, open[k] + 1, c + 1) \in Int
        /\ Many(t, {"close"}, open[k] + 1, c + 1) + (n - k)
           = Many(t, Opening, open[k] + 1, c + 1)
    BY <2>3, <2>4
  <2> QED
    BY <2>5 DEF Balanced
<1>5. Surrounding(t, (c + 1) + 1) = {narrower[k] : k \in 1 .. n}
  <2>1. Surrounding(t, c + 1) = {open[k] : k \in 1 .. n + 1}
    BY DEF OpenAt
  <2>2. \A j : j \in Surrounding(t, c + 2)
               <=> \E k \in 1 .. n + 1 : j = open[k] /\ k # n + 1
    BY <1>4, <2>1, SurroundingStep
  <2>3. \A j : j \in Surrounding(t, c + 2) <=> \E k \in 1 .. n : j = narrower[k]
    BY <1>0, <1>1, <1>3, <2>2
  <2> QED
    BY <2>3
<1>6. \A k, l \in 1 .. n : k < l => narrower[k] < narrower[l]
  BY <1>1, <1>3 DEF OpenAt
<1>7. ASSUME NEW k \in 1 .. n
      PROVE  \E m \in 1 .. Len(some) : some[m].at = narrower[k] /\ some[m].opened = lower[k + 1]
  <2>1. k + 1 \in 1 .. n + 1
    OBVIOUS
  <2> QED
    BY <1>1, <1>3, <2>1 DEF OpenAt
<1>8. OpenAt(t, c + 1, n, lower, some, narrower)
  BY <1>1, <1>2, <1>3, <1>4, <1>5, <1>6, <1>7 DEF OpenAt
<1> QED
  BY <1>8

-----------------------------------------------------------------------------
(* What binding does to the symbols and to the meaning of names. *)

(* One more symbol, and it is the last one listed. *)
Added(n, opened, count) ==
    /\ Len(symbols') = count + 1
    /\ \A s \in 1 .. count : symbols'[s] = symbols[s]
    /\ symbols'[count + 1].name = n /\ symbols'[count + 1].at = cursor + 1
    /\ symbols'[count + 1].env = env_id /\ symbols'[count + 1].opened = opened
    /\ symbol_order = [s \in 1 .. count |-> s]
       => symbol_order' = [s \in 1 .. count + 1 |-> s]

LEMMA BindAdds ==
    ASSUME Text, Tables, NEW envs, env_id \in Nat, NEW n \in Names, NEW opened \in Nat,
           Bind(n, opened, envs), NEW count \in Nat, count = Len(symbols)
    PROVE  Added(n, opened, count)
<1>1. PICK symbol : symbol = [name |-> n, at |-> cursor + 1, env |-> env_id, opened |-> opened]
  OBVIOUS
<1>2. symbol \in Symbol
  <2>1. cursor + 1 \in Nat
    BY LenProperties DEF Text
  <2> QED
    BY <1>1, <2>1 DEF Symbol
<1>3. symbols \in Seq(Symbol) /\ symbols' = Append(symbols, symbol)
  BY <1>1 DEF Bind, Tables
<1>4. /\ Len(symbols') = count + 1
      /\ \A s \in 1 .. count : symbols'[s] = symbols[s]
      /\ symbols'[count + 1] = symbol
  <2> DEFINE T == Symbol
  <2>1. symbols \in Seq(T) /\ symbol \in T
    BY <1>2, <1>3
  <2> HIDE DEF T
  <2>2. /\ Len(Append(symbols, symbol)) = Len(symbols) + 1
        /\ \A s \in 1 .. Len(symbols) : Append(symbols, symbol)[s] = symbols[s]
        /\ Append(symbols, symbol)[Len(symbols) + 1] = symbol
    BY <2>1, AppendProperties
  <2> QED
    BY <1>3, <2>2, Zenon
<1>5. ASSUME symbol_order = [s \in 1 .. count |-> s]
      PROVE  symbol_order' = [s \in 1 .. count + 1 |-> s]
  <2>1. symbol_order' = Append(symbol_order, count + 1)
    BY DEF Bind
  <2>2. symbol_order \in [1 .. count -> Nat]
    BY <1>5
  <2>3. symbol_order \in Seq(Nat) /\ Len(symbol_order) = count
    BY <2>2
  <2>4. PICK order : order = Append(symbol_order, count + 1)
    OBVIOUS
  <2>5. /\ order \in Seq(Nat) /\ Len(order) = count + 1
        /\ \A s \in 1 .. count : order[s] = symbol_order[s]
        /\ order[count + 1] = count + 1
    <3>1. count + 1 \in Nat
      OBVIOUS
    <3> QED
      BY <2>3, <2>4, <3>1, AppendProperties
  <2>6. order = [s \in 1 .. count + 1 |-> order[s]]
    BY <2>5
  <2>7. \A s \in 1 .. count + 1 : order[s] = s
    <3>1. \A s \in 1 .. count + 1 : s = count + 1 \/ s \in 1 .. count
      OBVIOUS
    <3> QED
      BY <1>5, <2>5, <3>1
  <2> QED
    BY <2>1, <2>4, <2>6, <2>7
<1>6. /\ symbol.name = n /\ symbol.at = cursor + 1
      /\ symbol.env = env_id /\ symbol.opened = opened
  BY <1>1
<1> QED
  BY <1>4, <1>5, <1>6, Zenon DEF Added

(* What names mean, in a body of environments envs that holds the symbols  *)
(* so far, and in the one that Bind makes of it.                           *)
LEMMA BindMeans ==
    ASSUME NEW envs, NEW count \in Nat, count = Len(symbols),
           Arena(envs, count), Placed(symbols, envs), env_id \in 1 .. Len(envs),
           NEW n \in Names, NEW opened \in Nat, Bind(n, opened, envs),
           Text, Tables, Past, \A s \in 1 .. count : symbols[s].at <= cursor,
           Meant(envs, symbols), Found(envs, symbols, diagnostics)
    PROVE  /\ Meant(environments', symbols')
           /\ Found(environments', symbols', diagnostics')
           /\ \A d \in diagnostics' : d.what = "redefinition" => d.at \in 1 .. cursor + 1
           /\ SyntaxErrors' = SyntaxErrors
<1>0. Len(envs) \in Nat /\ env_id \in Nat /\ cursor \in Nat
  <2>1. Len(envs) \in Nat /\ cursor \in Nat
    BY LenProperties DEF Arena, Text
  <2> QED
    BY <2>1
<1>1. PICK e \in 1 .. Len(envs) : e = env_id
  OBVIOUS
<1>2. PICK more : more = symbols'
  OBVIOUS
<1>3. /\ Len(more) = count + 1
      /\ \A s \in 1 .. count : more[s] = symbols[s]
      /\ more[count + 1].name = n /\ more[count + 1].env = e /\ more[count + 1].at = cursor + 1
  <2>1. Added(n, opened, count)
    BY <1>0, BindAdds
  <2> QED
    BY <1>1, <1>2, <2>1 DEF Added
<1>4. \A s \in 1 .. count + 1 : s = count + 1 \/ s \in 1 .. count
  OBVIOUS
<1>5. Redefined(cursor + 1) \notin diagnostics
  BY <1>0 DEF Redefined, Past
<1>6. CASE n \in DOMAIN envs[e].map
  <2>1. /\ environments' = envs
        /\ diagnostics' = diagnostics \cup {Redefined(cursor + 1)}
    BY <1>1, <1>6 DEF Bind, Report, Redefined
  <2>2. Meant(envs, more)
    BY <1>3 DEF Meant
  <2>3. Found(envs, more, diagnostics')
    <3> SUFFICES ASSUME NEW s \in 1 .. count + 1
                 PROVE  LET map == envs[more[s].env].map IN
                        /\ more[s].name \in DOMAIN map /\ map[more[s].name] <= s
                        /\ map[more[s].name] < s <=> Redefined(more[s].at) \in diagnostics'
      BY <1>3 DEF Found
    <3>1. CASE s \in 1 .. count
      <4>1. more[s] = symbols[s] /\ symbols[s].at <= cursor /\ symbols[s].at \in Nat
        <5>1. symbols[s] \in Symbol
          BY <3>1, ElementOfSeq DEF Tables
        <5> QED
          BY <1>3, <3>1, <5>1 DEF Symbol
      <4>2. Redefined(symbols[s].at) # Redefined(cursor + 1)
        <5>1. Redefined(symbols[s].at).at # Redefined(cursor + 1).at
          BY <1>0, <4>1 DEF Redefined
        <5> QED
          BY <5>1
      <4> QED
        BY <2>1, <3>1, <4>1, <4>2 DEF Found
    <3>2. CASE s = count + 1
      <4>1. envs[e].map[n] \in 1 .. count
        BY <1>6 DEF Meant
      <4> QED
        BY <1>3, <1>6, <2>1, <3>2, <4>1
    <3> QED
      BY <1>4, <3>1, <3>2
  <2>4. SyntaxErrors' = SyntaxErrors
    BY <2>1 DEF SyntaxErrors, Redefined
  <2>5. \A d \in diagnostics' : d.what = "redefinition" => d.at \in 1 .. cursor + 1
    <3>1. \A d \in diagnostics : d.what = "redefinition" => d.at \in 1 .. cursor
      BY DEF Past
    <3> QED
      BY <1>0, <2>1, <3>1 DEF Redefined
  <2> QED
    BY <1>2, <2>1, <2>2, <2>3, <2>4, <2>5
<1>7. CASE n \notin DOMAIN envs[e].map
  <2>1. PICK bound : bound = Bound(envs, e, n, count)
    OBVIOUS
  <2>2. environments' = bound /\ diagnostics' = diagnostics
    BY <1>1, <1>7, <2>1 DEF Bind, Bound
  <2>3. PICK map : map = envs[e].map
    OBVIOUS
  <2>4. /\ Len(bound) = Len(envs)
        /\ \A i \in 1 .. Len(envs) : i # e => bound[i].map = envs[i].map
        /\ bound[e].map = With(map, n, count + 1)
    <3>1. envs \in Seq(Environment(count + 1))
      BY MapsGrow, SeqMonotonic DEF Arena
    <3>2. envs[e] \in Environment(count)
      BY ElementOfSeq DEF Arena
    <3> DEFINE changed == [envs[e] EXCEPT !.map = With(@, n, count + 1)]
    <3>3. changed \in Environment(count + 1) /\ changed.map = With(map, n, count + 1)
      <4>1. With(envs[e].map, n, count + 1) \in Maps(count + 1)
        BY <3>2, WithIsMap DEF Environment
      <4> QED
        BY <2>3, <3>2, <4>1 DEF Environment
    <3> HIDE DEF changed
    <3>4. bound = [envs EXCEPT ![e] = changed]
      BY <2>1 DEF changed, Bound
    <3>5. /\ Len(bound) = Len(envs)
          /\ \A i \in 1 .. Len(envs) : bound[i] = IF i = e THEN changed ELSE envs[i]
      BY <3>1, <3>3, <3>4, ExceptSeq
    <3> QED
      BY <3>3, <3>5
  <2>5. /\ DOMAIN bound[e].map = DOMAIN map \cup {n}
        /\ bound[e].map[n] = count + 1
        /\ \A m \in DOMAIN map : m # n /\ bound[e].map[m] = map[m]
    BY <1>7, <2>3, <2>4 DEF With
  <2>6. Meant(bound, more)
    <3> SUFFICES ASSUME NEW i \in 1 .. Len(envs), NEW m \in DOMAIN bound[i].map
                 PROVE  LET s == bound[i].map[m] IN
                        s \in 1 .. count + 1 /\ more[s].env = i /\ more[s].name = m
      BY <1>3, <2>4 DEF Meant
    <3>1. CASE i = e /\ m = n
      BY <1>3, <2>5, <3>1
    <3>2. CASE ~(i = e /\ m = n)
      <4>1. m \in DOMAIN envs[i].map /\ bound[i].map[m] = envs[i].map[m]
        BY <2>3, <2>4, <2>5, <3>2
      <4>2. LET s == envs[i].map[m] IN
            s \in 1 .. count /\ symbols[s].env = i /\ symbols[s].name = m
        BY <4>1 DEF Meant
      <4> QED
        BY <1>3, <4>1, <4>2
    <3> QED
      BY <3>1, <3>2
  <2>7. Found(bound, more, diagnostics)
    <3> SUFFICES ASSUME NEW s \in 1 .. count + 1
                 PROVE  LET here == bound[more[s].env].map IN
                        /\ more[s].name \in DOMAIN here /\ here[more[s].name] <= s
                        /\ here[more[s].name] < s <=> Redefined(more[s].at) \in diagnostics
      BY <1>3 DEF Found
    <3>1. CASE s \in 1 .. count
      <4>1. /\ more[s] = symbols[s] /\ symbols[s].env \in 1 .. Len(envs)
            /\ symbols[s].name \in DOMAIN envs[symbols[s].env].map
        BY <1>3, <3>1 DEF Found, Placed
      <4>2. /\ symbols[s].name \in DOMAIN bound[symbols[s].env].map
            /\ bound[symbols[s].env].map[symbols[s].name]
               = envs[symbols[s].env].map[symbols[s].name]
        <5>1. CASE symbols[s].env = e
          BY <2>3, <2>5, <4>1, <5>1
        <5>2. CASE symbols[s].env # e
          BY <2>4, <4>1, <5>2
        <5> QED
          BY <5>1, <5>2
      <4> QED
        BY <3>1, <4>1, <4>2 DEF Found
    <3>2. CASE s = count + 1
      BY <1>3, <1>5, <2>5, <3>2
    <3> QED
      BY <1>4, <3>1, <3>2
  <2>8. SyntaxErrors' = SyntaxErrors
    BY <2>2 DEF SyntaxErrors
  <2>9. \A d \in diagnostics' : d.what = "redefinition" => d.at \in 1 .. cursor + 1
    <3>1. \A d \in diagnostics : d.what = "redefinition" => d.at \in 1 .. cursor
      BY DEF Past
    <3> QED
      BY <1>0, <2>2, <3>1
  <2> QED
    BY <1>2, <2>2, <2>6, <2>7, <2>8, <2>9
<1> QED
  BY <1>6, <1>7

-----------------------------------------------------------------------------
(* Where symbols are placed. *)

LEMMA OpenGrows ==
    ASSUME NEW t, NEW c \in Nat, NEW n \in Nat, NEW stack, NEW some, NEW open,
           OpenAt(t, c, n, stack, some, open),
           NEW count \in Nat, Len(some) = count,
           NEW more, Len(more) = count + 1, \A m \in 1 .. count : more[m] = some[m]
    PROVE  OpenAt(t, c, n, stack, more, open)
<1>1. ASSUME NEW k \in 1 .. n
      PROVE  \E m \in 1 .. Len(more) : more[m].at = open[k] /\ more[m].opened = stack[k + 1]
  <2>1. PICK m \in 1 .. count : some[m].at = open[k] /\ some[m].opened = stack[k + 1]
    BY DEF OpenAt
  <2>2. m \in 1 .. Len(more) /\ more[m] = some[m]
    OBVIOUS
  <2> QED
    BY <2>1, <2>2
<1> QED
  BY <1>1 DEF OpenAt

LEMMA RightStays ==
    ASSUME NEW t, NEW count \in Nat, NEW some, Len(some) = count,
           NEW more, Len(more) = count + 1, \A m \in 1 .. count : more[m] = some[m],
           NEW s \in 1 .. count, Right(t, some, s)
    PROVE  Right(t, more, s)
<1>1. more[s] = some[s] /\ \A m \in 1 .. count : m \in 1 .. count + 1
  OBVIOUS
<1> QED
  BY <1>1 DEF Right

(* A symbol that is bound now lands in the innermost open module. *)
LEMMA RightIsTop ==
    ASSUME NEW t, NEW c \in Nat, NEW n \in Nat, NEW stack, stack[1] = Root,
           NEW more, NEW open, OpenAt(t, c, n, stack, more, open),
           NEW s, more[s].at = c + 1, more[s].env = stack[n + 1]
    PROVE  Right(t, more, s)
<1>1. Surrounding(t, c + 1) = {open[k] : k \in 1 .. n}
  BY DEF OpenAt
<1>2. CASE n = 0
  <2>1. Surrounding(t, c + 1) = {} /\ n + 1 = 1
    BY <1>1, <1>2
  <2> QED
    BY <2>1 DEF Right
<1>3. CASE n # 0
  <2>1. n \in 1 .. n
    BY <1>3
  <2>2. \A k \in 1 .. n : open[k] \in Nat /\ open[k] <= open[n]
    <3>1. \A k \in 1 .. n : open[k] \in 1 .. c
      BY DEF OpenAt
    <3>2. \A k \in 1 .. n : k < n => open[k] < open[n]
      BY <2>1 DEF OpenAt
    <3>3. \A k \in 1 .. n : k = n \/ k < n
      OBVIOUS
    <3> QED
      BY <2>1, <3>1, <3>2, <3>3
  <2>3. PICK modules : modules = Surrounding(t, c + 1)
    OBVIOUS
  <2>4. open[n] \in modules /\ \A j \in modules : j \in Nat /\ j <= open[n]
    BY <1>1, <2>1, <2>2, <2>3
  <2>5. Latest(modules) = open[n]
    <3>1. Latest(modules) \in modules /\ \A j \in modules : j <= Latest(modules)
      BY <2>4 DEF Latest
    <3> QED
      BY <2>4, <3>1
  <2>6. PICK m \in 1 .. Len(more) : more[m].at = open[n] /\ more[m].opened = stack[n + 1]
    BY <2>1 DEF OpenAt
  <2>7. modules # {}
    BY <2>4
  <2> QED
    BY <2>3, <2>5, <2>6, <2>7 DEF Right
<1> QED
  BY <1>2, <1>3

-----------------------------------------------------------------------------
(* Every operation preserves the invariant. *)

LEMMA SpoiltBy ==
    ASSUME NEW what, what # "redefinition", Report(what)
    PROVE  /\ SyntaxErrors' # {} /\ diagnostics \subseteq diagnostics'
           /\ \A d \in diagnostics' : d.what = "redefinition" => d \in diagnostics
<1>1. PICK d : d = [what |-> what, at |-> cursor + 1]
  OBVIOUS
<1>2. diagnostics' = diagnostics \cup {d} /\ d.what = what
  BY <1>1 DEF Report
<1>3. d \in SyntaxErrors'
  BY <1>2 DEF SyntaxErrors
<1> QED
  BY <1>2, <1>3

(* A turn that binds nothing. *)
LEMMA QuietKeeps ==
    ASSUME IInv, Kept, ~Aborted, text' = text,
           UNCHANGED <<environments, symbols, symbol_order>>,
           cursor' = cursor \/ (cursor' = cursor + 1 /\ (Definition(cursor + 1) => Aborted')),
           status' = "finished" => cursor' = Len(text),
           diagnostics \subseteq diagnostics',
           \A d \in diagnostics' : d.what = "redefinition" => d \in diagnostics
    PROVE  /\ Listed' /\ Past'
           /\ Meant(environments, symbols)' /\ Found(environments, symbols, diagnostics)'
<1>1. cursor \in Nat /\ cursor' \in {cursor, cursor + 1}
  BY LenProperties DEF IInv, Text
<1>2. \A i : Definition(i)' <=> Definition(i)
  BY DEF Definition
<1>3. Listed'
  <2>1. \A s \in 1 .. Len(symbols) : symbols[s].at \in 1 .. cursor' /\ Definition(symbols[s].at)
    BY <1>1 DEF Kept, Listed
  <2>2. ASSUME ~Aborted', NEW i \in 1 .. cursor', Definition(i)
        PROVE  \E s \in 1 .. Len(symbols) : symbols[s].at = i
    <3>1. i \in 1 .. cursor
      BY <1>1, <2>2
    <3> QED
      BY <2>2, <3>1 DEF Kept, Listed
  <2> QED
    BY <1>2, <2>1, <2>2 DEF Kept, Listed
<1>4. Past'
  BY <1>1 DEF Kept, Past
<1>5. Found(environments, symbols, diagnostics)'
  <2>1. \A at : Redefined(at) \in diagnostics' <=> Redefined(at) \in diagnostics
    BY DEF Redefined
  <2> QED
    BY <2>1 DEF Kept, Found
<1> QED
  BY <1>3, <1>4, <1>5 DEF Kept, Meant

(* Where there is no syntax error, the collector has an environment. *)
LEMMA StraightOpens ==
    ASSUME IInv, Straight, SyntaxErrors = {}
    PROVE  HasEnvironment
<1>1. Len(env_id_stack) = block_depth + 1 /\ block_depth \in Nat
  BY DEF Straight, IInv, Depth
<1>2. Len(<<>>) = 0
  BY EmptySeq
<1> QED
  BY <1>1, <1>2 DEF HasEnvironment

LEMMA AbortKeeps ==
    ASSUME IInv, Kept, ~Aborted, status # "finished", cursor' = cursor + 1,
           ~HasEnvironment, Abort
    PROVE  Kept'
<1>1. Straight'
  <2>1. SyntaxErrors # {}
    BY StraightOpens DEF Kept
  <2>2. SyntaxErrors' # {}
    BY <2>1 DEF Abort, SyntaxErrors
  <2> QED
    BY <2>2 DEF Straight
<1>2. /\ Aborted' /\ status' # "finished" /\ text' = text /\ diagnostics' = diagnostics
      /\ UNCHANGED <<environments, symbols, symbol_order>>
  BY DEF Abort, Aborted
<1> QED
  BY <1>1, <1>2, QuietKeeps DEF Kept

(* What binding does to Listed, whatever was bound. *)
LEMMA ListedBinds ==
    ASSUME IInv, Kept, status = "parsing", status' = status, text' = text,
           cursor' = cursor + 1, Definition(cursor + 1),
           NEW envs, env_id \in Nat, NEW n \in Names, NEW opened \in Nat,
           Bind(n, opened, envs)
    PROVE  Listed'
<1>1. PICK count \in Nat : count = Len(symbols)
  BY LenProperties DEF IInv, Tables
<1>2. cursor \in Nat /\ \A i \in 1 .. cursor + 1 : i = cursor + 1 \/ i \in 1 .. cursor
  BY LenProperties DEF IInv, Text
<1>3. \A s \in 1 .. count + 1 : s = count + 1 \/ s \in 1 .. count
  OBVIOUS
<1>4. PICK more : more = symbols'
  OBVIOUS
<1>5. /\ Len(more) = count + 1
      /\ \A s \in 1 .. count : more[s] = symbols[s]
      /\ more[count + 1].at = cursor + 1
      /\ symbol_order' = [s \in 1 .. count + 1 |-> s]
  <2>1. symbol_order = [s \in 1 .. count |-> s]
    BY <1>1 DEF Kept, Listed
  <2>2. Added(n, opened, count)
    <3>1. Text /\ Tables
      BY DEF IInv
    <3> QED
      BY <1>1, <3>1, BindAdds
  <2> QED
    BY <1>4, <2>1, <2>2, Zenon DEF Added
<1>6. \A s \in 1 .. count : symbols[s].at \in 1 .. cursor /\ Definition(symbols[s].at)
  BY <1>1 DEF Kept, Listed
<1>7. \A s \in 1 .. count + 1 : more[s].at \in 1 .. cursor + 1 /\ Definition(more[s].at)
  BY <1>2, <1>3, <1>5, <1>6
<1>8. ASSUME NEW i \in 1 .. cursor + 1, Definition(i)
      PROVE  \E s \in 1 .. count + 1 : more[s].at = i
  <2>1. CASE i = cursor + 1
    <3>1. count + 1 \in 1 .. count + 1
      OBVIOUS
    <3> QED
      BY <1>5, <2>1, <3>1
  <2>2. CASE i \in 1 .. cursor
    <3>1. ~Aborted
      BY DEF Aborted
    <3>2. PICK s \in 1 .. count : symbols[s].at = i
      BY <1>1, <1>8, <2>2, <3>1 DEF Kept, Listed
    <3> QED
      BY <1>5, <3>2
  <2> QED
    BY <1>2, <2>1, <2>2
<1>9. \A r, s \in 1 .. count + 1 : r < s => more[r].at < more[s].at
  <2> SUFFICES ASSUME NEW r \in 1 .. count + 1, NEW s \in 1 .. count + 1, r < s
               PROVE  more[r].at < more[s].at
    OBVIOUS
  <2>1. r \in 1 .. count
    OBVIOUS
  <2>2. CASE s = count + 1
    BY <1>2, <1>5, <1>6, <2>1, <2>2
  <2>3. CASE s \in 1 .. count
    BY <1>1, <1>5, <2>1, <2>3 DEF Kept, Listed
  <2> QED
    BY <1>3, <2>2, <2>3
<1>10. \A i : Definition(i)' <=> Definition(i)
  BY DEF Definition
<1>11. status' # "finished"
  OBVIOUS
<1> QED
  BY <1>4, <1>5, <1>7, <1>8, <1>9, <1>10, <1>11 DEF Listed

LEMMA CollectDefinitionKeeps ==
    ASSUME IInv, Kept, CollectDefinition
    PROVE  Kept'
<1>1. /\ status = "parsing" /\ item.kind = "definition" /\ item \in Definitions \cup Marks
      /\ cursor' = cursor + 1 /\ text' = text /\ block_depth' = block_depth /\ ~Aborted
  BY ExtractReads DEF IInv, CollectDefinition, Abort, Extract, Aborted
<1>2. Definition(cursor + 1) /\ text[cursor + 1].kind = "definition"
  BY <1>1 DEF Definition, item
<1>3. CASE HasEnvironment
  <2>1. /\ Bind(item.name, None, environments)
        /\ status' = status /\ env_id_stack' = env_id_stack
    BY <1>3 DEF CollectDefinition
  <2>2. /\ item.name \in Names /\ env_id \in 1 .. Len(environments) /\ None \in Nat
        /\ Text /\ Tables /\ Depth
    BY <1>1, <1>3, DefinitionIsNamed, OpenIsNamed DEF IInv, None
  <2>3. PICK count \in Nat : count = Len(symbols)
    BY <2>2, LenProperties DEF Tables
  <2>4. Arena(environments, count) /\ Placed(symbols, environments)
    BY <2>2, <2>3 DEF Tables
  <2>5. cursor \in Nat /\ env_id \in Nat
    <3>1. cursor \in Nat /\ Len(environments) \in Nat
      BY <2>2, LenProperties DEF Text, Tables, Arena
    <3> QED
      BY <2>2, <3>1
  <2>6. \A s \in 1 .. count : symbols[s].at <= cursor
    BY <2>3, <2>5 DEF Kept, Listed
  <2>7. /\ Meant(environments', symbols') /\ Found(environments', symbols', diagnostics')
        /\ Past' /\ SyntaxErrors' = SyntaxErrors
    <3>1. /\ Meant(environments, symbols) /\ Found(environments, symbols, diagnostics)
          /\ Past
      BY DEF Kept
    <3>2. PICK opened \in Nat : opened = None
      BY <2>2
    <3>3. /\ Meant(environments', symbols')
          /\ Found(environments', symbols', diagnostics')
          /\ \A d \in diagnostics' : d.what = "redefinition" => d.at \in 1 .. cursor + 1
          /\ SyntaxErrors' = SyntaxErrors
      BY <2>1, <2>2, <2>3, <2>4, <2>6, <3>1, <3>2, BindMeans
    <3> QED
      BY <1>1, <3>3 DEF Past
  <2>8. Listed'
    BY <1>1, <1>2, <2>1, <2>2, <2>5, ListedBinds
  <2>9. Straight'
    <3> SUFFICES ASSUME SyntaxErrors = {}
                 PROVE  Straight'
      BY <2>7 DEF Straight
    <3>1. /\ Len(env_id_stack) = block_depth + 1 /\ env_id_stack[1] = Root
          /\ \A s \in 1 .. count : Right(text, symbols, s)
      BY <2>3 DEF Kept, Straight
    <3>2. PICK open : OpenAt(text, cursor, block_depth, env_id_stack, symbols, open)
      BY DEF Kept, Straight
    <3>3. PICK more : more = symbols'
      OBVIOUS
    <3>4. PICK n \in Nat : n = block_depth
      BY <2>2 DEF Depth
    <3>5. /\ Len(more) = count + 1
          /\ \A s \in 1 .. count : more[s] = symbols[s]
          /\ more[count + 1].at = cursor + 1
          /\ more[count + 1].env = env_id
      <4>1. PICK opened \in Nat, name \in Names : opened = None /\ name = item.name
        BY <2>2
      <4>2. Text /\ Tables /\ Bind(name, opened, environments) /\ env_id \in Nat
        BY <2>1, <2>2, <2>3, <2>5, <4>1
      <4>3. Added(name, opened, count)
        BY <2>3, <4>1, <4>2, BindAdds
      <4> QED
        BY <3>3, <4>1, <4>3, Zenon DEF Added
    <3>6. env_id = env_id_stack[n + 1]
      BY <3>1, <3>4 DEF env_id
    <3>7. OpenAt(text, cursor, n, env_id_stack, more, open)
      BY <2>3, <2>5, <3>2, <3>4, <3>5, OpenGrows
    <3>8. OpenAt(text, cursor + 1, n, env_id_stack, more, open)
      <4>1. text[cursor + 1].kind \notin Opening /\ text[cursor + 1].kind # "close"
        BY <1>2 DEF Opening
      <4> QED
        BY <2>5, <3>7, <4>1, OpenStays
    <3>9. Right(text, more, count + 1)
      BY <2>5, <3>1, <3>5, <3>6, <3>7, RightIsTop
    <3>10. \A s \in 1 .. Len(more) : Right(text, more, s)
      <4>1. \A s \in 1 .. count : Right(text, more, s)
        BY <2>3, <3>1, <3>5, RightStays
      <4>2. \A s \in 1 .. Len(more) : s = count + 1 \/ s \in 1 .. count
        BY <3>5
      <4> QED
        BY <3>9, <4>1, <4>2
    <3> QED
      BY <1>1, <2>1, <3>1, <3>3, <3>4, <3>8, <3>10 DEF Straight
  <2> QED
    BY <2>7, <2>8, <2>9 DEF Kept
<1>4. CASE ~HasEnvironment
  <2>1. Abort
    BY <1>4 DEF CollectDefinition
  <2> QED
    BY <1>1, <1>4, <2>1, AbortKeeps
<1> QED
  BY <1>3, <1>4

(* A new environment names nothing yet. *)
LEMMA GrownMeans ==
    ASSUME NEW envs, NEW count \in Nat, Arena(envs, count), NEW e \in 1 .. Len(envs),
           NEW some, Len(some) = count, Placed(some, envs),
           NEW reports, Meant(envs, some), Found(envs, some, reports),
           NEW grown, grown = Grown(envs, e)
    PROVE  Meant(grown, some) /\ Found(grown, some, reports)
<1>1. PICK many \in Nat : many = Len(envs)
  BY LenProperties DEF Arena
<1>2. /\ Len(grown) = many + 1
      /\ \A i \in 1 .. many : grown[i] = envs[i]
      /\ DOMAIN grown[many + 1].map = {}
  <2> DEFINE child == [parent |-> e, map |-> [n \in {} |-> 0]]
  <2> DEFINE T == Environment(count) \cup {child}
  <2>1. envs \in Seq(T) /\ child \in T
    <3>1. envs \in Seq(Environment(count))
      BY DEF Arena
    <3>2. Environment(count) \subseteq T
      OBVIOUS
    <3> QED
      BY <3>1, <3>2, SeqMonotonic
  <2>2. DOMAIN child.map = {}
    OBVIOUS
  <2>3. grown = Append(envs, child)
    BY DEF Grown
  <2> HIDE DEF T, child
  <2>4. /\ Len(Append(envs, child)) = Len(envs) + 1
        /\ \A i \in 1 .. Len(envs) : Append(envs, child)[i] = envs[i]
        /\ Append(envs, child)[Len(envs) + 1] = child
    BY <2>1, AppendProperties
  <2> QED
    BY <1>1, <2>2, <2>3, <2>4
<1>3. Meant(grown, some)
  <2>1. \A i \in 1 .. many + 1 : i = many + 1 \/ i \in 1 .. many
    OBVIOUS
  <2> QED
    BY <1>1, <1>2, <2>1 DEF Meant
<1>4. Found(grown, some, reports)
  <2>1. \A s \in 1 .. count : grown[some[s].env] = envs[some[s].env]
    BY <1>1, <1>2 DEF Placed
  <2> QED
    BY <2>1 DEF Found
<1> QED
  BY <1>3, <1>4

LEMMA CollectModuleKeeps ==
    ASSUME IInv, Kept, CollectModule
    PROVE  Kept'
<1>1. /\ status = "parsing" /\ item.kind = "module" /\ item \in Definitions \cup Marks
      /\ cursor' = cursor + 1 /\ text' = text /\ block_depth' = block_depth + 1 /\ ~Aborted
  BY ExtractReads DEF IInv, CollectModule, Abort, Extract, Aborted
<1>2. Definition(cursor + 1) /\ text[cursor + 1].kind = "module"
  BY <1>1 DEF Definition, item
<1>3. CASE HasEnvironment
  <2>1. PICK many \in Nat : many = Len(environments)
    BY LenProperties DEF IInv, Tables, Arena
  <2>2. PICK envs : envs = Grown(environments, env_id)
    OBVIOUS
  <2>3. /\ Bind(item.name, many + 1, envs)
        /\ env_id_stack' = Append(env_id_stack, many + 1) /\ status' = status
    BY <1>3, <2>1, <2>2 DEF CollectModule, Grown
  <2>4. /\ item.name \in Names /\ env_id \in 1 .. many /\ many + 1 \in Nat /\ env_id \in Nat
        /\ Text /\ Tables /\ Depth
    <3>1. item.name \in Names /\ env_id \in 1 .. many /\ Text /\ Tables /\ Depth
      BY <1>1, <1>3, <2>1, DefinitionIsNamed, OpenIsNamed DEF IInv
    <3> QED
      BY <3>1
  <2>5. PICK count \in Nat : count = Len(symbols)
    BY <2>4, LenProperties DEF Tables
  <2>6. Arena(environments, count) /\ Placed(symbols, environments)
    BY <2>4, <2>5 DEF Tables
  <2>7. Arena(envs, count) /\ Len(envs) = many + 1
    BY <2>1, <2>2, <2>4, <2>6, ArenaGrows
  <2>8. Placed(symbols, envs) /\ env_id \in 1 .. Len(envs)
    BY <2>1, <2>4, <2>6, <2>7 DEF Placed
  <2>9. cursor \in Nat /\ \A s \in 1 .. count : symbols[s].at <= cursor
    <3>1. cursor \in Nat
      BY <2>4, LenProperties DEF Text
    <3> QED
      BY <2>5, <3>1 DEF Kept, Listed
  <2>10. /\ Meant(environments', symbols') /\ Found(environments', symbols', diagnostics')
         /\ Past' /\ SyntaxErrors' = SyntaxErrors
    <3>1. Meant(envs, symbols) /\ Found(envs, symbols, diagnostics)
      BY <2>1, <2>2, <2>4, <2>5, <2>6, GrownMeans DEF Kept
    <3>2. Past
      BY DEF Kept
    <3>3. PICK opened \in Nat : opened = many + 1
      OBVIOUS
    <3>4. Bind(item.name, opened, envs)
      BY <2>3, <3>3
    <3>5. /\ Meant(environments', symbols')
          /\ Found(environments', symbols', diagnostics')
          /\ \A d \in diagnostics' : d.what = "redefinition" => d.at \in 1 .. cursor + 1
          /\ SyntaxErrors' = SyntaxErrors
      BY <2>4, <2>5, <2>7, <2>8, <2>9, <3>1, <3>2, <3>4, BindMeans
    <3> QED
      BY <1>1, <3>5 DEF Past
  <2>11. Listed'
    BY <1>1, <1>2, <2>3, <2>4, ListedBinds
  <2>12. Straight'
    <3> SUFFICES ASSUME SyntaxErrors = {}
                 PROVE  Straight'
      BY <2>10 DEF Straight
    <3>1. /\ Len(env_id_stack) = block_depth + 1 /\ env_id_stack[1] = Root
          /\ \A s \in 1 .. count : Right(text, symbols, s)
      BY <2>5 DEF Kept, Straight
    <3>2. PICK open : OpenAt(text, cursor, block_depth, env_id_stack, symbols, open)
      BY DEF Kept, Straight
    <3>3. PICK more : more = symbols'
      OBVIOUS
    <3>4. PICK n \in Nat : n = block_depth
      BY <2>4 DEF Depth
    <3>5. /\ Len(more) = count + 1
          /\ \A s \in 1 .. count : more[s] = symbols[s]
          /\ more[count + 1].at = cursor + 1
          /\ more[count + 1].env = env_id /\ more[count + 1].opened = many + 1
      <4>1. PICK opened \in Nat, name \in Names : opened = many + 1 /\ name = item.name
        BY <2>4
      <4>2. Text /\ Tables /\ Bind(name, opened, envs) /\ env_id \in Nat
        BY <2>3, <2>4, <2>5, <4>1
      <4>3. Added(name, opened, count)
        BY <2>5, <4>1, <4>2, BindAdds
      <4> QED
        BY <3>3, <4>1, <4>3, Zenon DEF Added
    <3>6. env_id = env_id_stack[n + 1]
      BY <3>1, <3>4 DEF env_id
    <3>7. OpenAt(text, cursor, n, env_id_stack, more, open)
      BY <2>5, <2>9, <3>2, <3>4, <3>5, OpenGrows
    <3>8. PICK higher : higher = env_id_stack'
      OBVIOUS
    <3>9. /\ Len(higher) = n + 2 /\ higher[1] = Root /\ higher[n + 2] = many + 1
          /\ \A k \in 1 .. n + 1 : higher[k] = env_id_stack[k]
      <4>1. env_id_stack \in Seq(Nat)
        <5>1. env_id_stack \in Seq(1 .. many) /\ 1 .. many \subseteq Nat
          BY <2>1 DEF IInv, Stack
        <5> QED
          BY <5>1, SeqMonotonic
      <4>2. /\ Len(Append(env_id_stack, many + 1)) = Len(env_id_stack) + 1
            /\ \A k \in 1 .. Len(env_id_stack) :
                  Append(env_id_stack, many + 1)[k] = env_id_stack[k]
            /\ Append(env_id_stack, many + 1)[Len(env_id_stack) + 1] = many + 1
        BY <2>4, <4>1, AppendProperties
      <4>3. Len(env_id_stack) = n + 1 /\ 1 \in 1 .. n + 1
        BY <3>1, <3>4
      <4> QED
        BY <2>3, <3>1, <3>8, <4>2, <4>3
    <3>10. \E wider : OpenAt(text, cursor + 1, n + 1, higher, more, wider)
      <4>1. OpenAt(text, cursor, n, env_id_stack, symbols, open)
        BY <3>2, <3>4
      <4>2. /\ cursor \in Nat /\ text[cursor + 1].kind = "module" /\ Len(symbols) = count
            /\ more[count + 1].opened = higher[n + 2]
        BY <1>2, <2>5, <2>9, <3>5, <3>9
      <4>3. PICK t, stack, some, c : /\ t = text /\ stack = env_id_stack /\ some = symbols
                                    /\ c = cursor /\ c \in Nat
        BY <4>2
      <4>4. OpenAt(t, c, n, stack, some, open) /\ t[c + 1].kind = "module"
        BY <4>1, <4>2, <4>3
      <4>5. /\ Len(some) = count /\ Len(more) = count + 1
            /\ \A m \in 1 .. count : more[m] = some[m]
            /\ \A k \in 1 .. n + 1 : higher[k] = stack[k]
            /\ more[count + 1].at = c + 1 /\ more[count + 1].opened = higher[n + 2]
        BY <3>5, <3>9, <4>2, <4>3
      <4>6. \E wider : OpenAt(t, c + 1, n + 1, higher, more, wider)
        BY <4>3, <4>4, <4>5, OpenPushes, SMTT(30)
      <4> QED
        BY <4>3, <4>6
    <3>11. Right(text, more, count + 1)
      BY <2>9, <3>1, <3>5, <3>6, <3>7, RightIsTop
    <3>12. \A s \in 1 .. Len(more) : Right(text, more, s)
      <4>1. \A s \in 1 .. count : Right(text, more, s)
        BY <2>5, <3>1, <3>5, RightStays
      <4>2. \A s \in 1 .. Len(more) : s = count + 1 \/ s \in 1 .. count
        BY <3>5
      <4> QED
        BY <3>11, <4>1, <4>2
    <3>13. Len(higher) = (n + 1) + 1
      BY <3>9
    <3> QED
      BY <1>1, <2>3, <3>3, <3>4, <3>8, <3>9, <3>10, <3>12, <3>13 DEF Straight
  <2> QED
    BY <2>10, <2>11, <2>12 DEF Kept
<1>4. CASE ~HasEnvironment
  <2>1. Abort
    BY <1>4 DEF CollectModule
  <2> QED
    BY <1>1, <1>4, <2>1, AbortKeeps
<1> QED
  BY <1>3, <1>4

LEMMA CollectBlockEndKeeps ==
    ASSUME IInv, Kept, CollectBlockEnd
    PROVE  Kept'
<1>1. /\ status = "parsing" /\ item.kind = "close" /\ cursor' = cursor + 1 /\ text' = text
      /\ block_depth' = block_depth - 1 /\ block_depth > 0 /\ ~Aborted
  BY ExtractReads DEF IInv, CollectBlockEnd, Abort, Extract, Aborted
<1>2. ~Definition(cursor + 1) /\ text[cursor + 1].kind = "close"
  BY <1>1 DEF Definition, item
<1>3. CASE HasEnvironment
  <2>1. PICK popped : popped = SubSeq(env_id_stack, 1, Len(env_id_stack) - 1)
    OBVIOUS
  <2>2. /\ env_id_stack' = popped
        /\ UNCHANGED <<status, environments, symbols, symbol_order, diagnostics>>
    BY <1>3, <2>1 DEF CollectBlockEnd
  <2>3. /\ Listed' /\ Past' /\ Meant(environments, symbols)'
        /\ Found(environments, symbols, diagnostics)'
    BY <1>1, <1>2, <2>2, QuietKeeps
  <2>4. Straight'
    <3> SUFFICES ASSUME SyntaxErrors = {}
                 PROVE  Straight'
      BY <2>2 DEF Straight, SyntaxErrors
    <3>1. /\ Len(env_id_stack) = block_depth + 1 /\ env_id_stack[1] = Root
          /\ \A s \in 1 .. Len(symbols) : Right(text, symbols, s)
      BY DEF Kept, Straight
    <3>2. PICK open : OpenAt(text, cursor, block_depth, env_id_stack, symbols, open)
      BY DEF Kept, Straight
    <3>3. PICK n \in Nat : n + 1 = block_depth
      <4>1. block_depth \in Nat /\ block_depth > 0
        BY <1>1 DEF IInv, Depth
      <4>2. block_depth - 1 \in Nat /\ (block_depth - 1) + 1 = block_depth
        BY <4>1
      <4> QED
        BY <4>2
    <3>4. /\ Len(popped) = n + 1 /\ popped[1] = Root
          /\ \A k \in 1 .. n + 1 : popped[k] = env_id_stack[k]
      <4>1. env_id_stack \in Seq(1 .. Len(environments))
        BY DEF IInv, Stack
      <4>2. Len(env_id_stack) = n + 2
        BY <3>1, <3>3
      <4>3. popped = SubSeq(env_id_stack, 1, n + 1) /\ 1 \in Int /\ n + 1 \in Int
        BY <2>1, <4>2
      <4>4. /\ Len(popped) = IF 1 <= n + 1 THEN (n + 1) - 1 + 1 ELSE 0
            /\ \A k \in 1 .. (n + 1) - 1 + 1 : popped[k] = env_id_stack[1 + k - 1]
        BY <4>1, <4>2, <4>3, SubSeqProperties
      <4>5. \A k \in 1 .. n + 1 : k \in 1 .. (n + 1) - 1 + 1 /\ 1 + k - 1 = k
        OBVIOUS
      <4>6. 1 \in 1 .. n + 1
        OBVIOUS
      <4> QED
        BY <3>1, <4>4, <4>5, <4>6
    <3>5. \E narrower : OpenAt(text, cursor + 1, n, popped, symbols, narrower)
      <4>1. OpenAt(text, cursor, n + 1, env_id_stack, symbols, open)
        BY <3>2, <3>3
      <4>2. cursor \in Nat
        BY LenProperties DEF IInv, Text
      <4> QED
        BY <1>2, <3>4, <4>1, <4>2, OpenPops
    <3>6. block_depth' = n
      BY <1>1, <3>3
    <3> QED
      BY <1>1, <2>2, <3>1, <3>4, <3>5, <3>6 DEF Straight
  <2> QED
    BY <2>3, <2>4 DEF Kept
<1>4. CASE ~HasEnvironment
  <2>1. Abort
    BY <1>4 DEF CollectBlockEnd
  <2> QED
    BY <1>1, <1>4, <2>1, AbortKeeps
<1> QED
  BY <1>3, <1>4

(* An item that is reported: the document has a syntax error from here on. *)
LEMMA ReportKeeps ==
    ASSUME IInv, Kept, CollectImplementation \/ FailImplementation \/ FailDefinition
                       \/ FailBlockEnd \/ FailToken
    PROVE  Kept'
<1>1. PICK what, kind :
          /\ Report(what) /\ what # "redefinition" /\ Extract(kind)
          /\ kind \in {"impl", "impl_fails", "broken", "close", "stray"}
          /\ UNCHANGED <<text, environments, symbols, symbol_order>>
          /\ status' \in {status, "skipping"}
  <2>1. CASE CollectImplementation
    BY <2>1 DEF CollectImplementation
  <2>2. CASE FailImplementation \/ FailDefinition \/ FailBlockEnd \/ FailToken
    BY <2>2 DEF FailImplementation, FailDefinition, FailBlockEnd, FailToken, Fail
  <2> QED
    BY <2>1, <2>2
<1>2. status = "parsing" /\ item.kind = kind /\ cursor' = cursor + 1 /\ ~Aborted
  BY <1>1 DEF Extract, Peek, Aborted
<1>3. ~Definition(cursor + 1)
  BY <1>1, <1>2 DEF Definition, item
<1>4. /\ SyntaxErrors' # {} /\ diagnostics \subseteq diagnostics'
      /\ \A d \in diagnostics' : d.what = "redefinition" => d \in diagnostics
  BY <1>1, SpoiltBy
<1>5. status' # "finished"
  BY <1>1, <1>2
<1>6. /\ Listed' /\ Past' /\ Meant(environments, symbols)'
      /\ Found(environments, symbols, diagnostics)'
  BY <1>1, <1>2, <1>3, <1>4, <1>5, QuietKeeps
<1> QED
  BY <1>4, <1>6 DEF Kept, Straight

(* Recovery follows a syntax error, and takes no definition. *)
LEMMA RecoveryKeeps ==
    ASSUME IInv, Kept, Skip \/ Recover
    PROVE  Kept'
<1>1. /\ status = "skipping" /\ status' \in {"skipping", "parsing"}
      /\ UNCHANGED <<text, environments, symbols, symbol_order, diagnostics>>
  BY DEF Skip, Recover
<1>2. cursor' = cursor \/ (cursor' = cursor + 1 /\ ~Definition(cursor + 1))
  BY DEF Skip, Recover, IsRecoveryPoint, Peek, Definition, item
<1>3. ~Aborted /\ status' # "finished"
  BY <1>1 DEF Aborted
<1>4. /\ Listed' /\ Past' /\ Meant(environments, symbols)'
      /\ Found(environments, symbols, diagnostics)'
  BY <1>1, <1>2, <1>3, QuietKeeps
<1>5. SyntaxErrors # {}
  BY <1>1 DEF Kept, Straight
<1> QED
  BY <1>1, <1>4, <1>5 DEF Kept, Straight, SyntaxErrors

LEMMA FinishKeeps ==
    ASSUME IInv, Kept, Finish
    PROVE  Kept'
<1>1. /\ status = "parsing" /\ status' = "finished" /\ AtEnd
      /\ UNCHANGED <<text, cursor, block_depth, env_id_stack, environments, symbols,
                     symbol_order>>
  BY DEF Finish
<1>2. \/ diagnostics' = diagnostics
      \/ /\ SyntaxErrors' # {} /\ diagnostics \subseteq diagnostics'
         /\ \A d \in diagnostics' : d.what = "redefinition" => d \in diagnostics
  <2>1. CASE block_depth # 0
    <3>1. PICK what : what = "expected braces"
      OBVIOUS
    <3>2. Report(what) /\ what # "redefinition"
      BY <2>1, <3>1 DEF Finish
    <3> QED
      BY <3>2, SpoiltBy
  <2>2. CASE block_depth = 0
    BY <2>2 DEF Finish
  <2> QED
    BY <2>1, <2>2
<1>3. /\ Listed' /\ Past' /\ Meant(environments, symbols)'
      /\ Found(environments, symbols, diagnostics)'
  <2>1. ~Aborted /\ cursor' = Len(text)
    BY <1>1 DEF Aborted, AtEnd
  <2> QED
    BY <1>1, <1>2, <2>1, QuietKeeps
<1>4. Straight'
  <2>1. CASE diagnostics' = diagnostics
    BY <1>1, <2>1 DEF Kept, Straight, SyntaxErrors
  <2>2. CASE SyntaxErrors' # {}
    BY <2>2 DEF Straight
  <2> QED
    BY <1>2, <2>1, <2>2
<1> QED
  BY <1>3, <1>4 DEF Kept

LEMMA StutterKeeps == Kept /\ UNCHANGED vars => Kept'
BY DEF vars, Kept, Listed, Past, Straight, Meant, Found, SyntaxErrors, Aborted, Definition

LEMMA InitKeeps == Init => Kept
<1> SUFFICES ASSUME Init PROVE Kept
  OBVIOUS
<1>1. /\ symbols = <<>> /\ symbol_order = <<>> /\ diagnostics = {} /\ cursor = 0
      /\ status = "parsing" /\ block_depth = 0 /\ env_id_stack = <<1>>
      /\ environments = <<[parent |-> 0, map |-> [n \in {} |-> 0]]>>
  BY DEF Init, Root, None
<1>2. Len(symbols) = 0 /\ 1 .. 0 = {}
  BY <1>1
<1>3. Listed
  BY <1>1, <1>2 DEF Listed
<1>4. Past /\ Found(environments, symbols, diagnostics)
  BY <1>1, <1>2 DEF Past, Found
<1>5. Meant(environments, symbols)
  <2>1. Len(environments) = 1 /\ DOMAIN environments[1].map = {}
    BY <1>1
  <2> QED
    BY <2>1 DEF Meant
<1>6. Straight
  <2>1. Len(env_id_stack) = 0 + 1 /\ env_id_stack[1] = Root
    BY <1>1 DEF Root
  <2>2. Surrounding(text, 0 + 1) = {}
    BY DEF Surrounding
  <2>3. OpenAt(text, 0, 0, env_id_stack, symbols, [k \in 1 .. 0 |-> k])
    BY <2>2 DEF OpenAt
  <2> QED
    BY <1>1, <1>2, <2>1, <2>3 DEF Straight
<1> QED
  BY <1>3, <1>4, <1>5, <1>6 DEF Kept

-----------------------------------------------------------------------------
(* What the invariant says of a finished document. *)

LEMMA KeptMeansKept == IInv /\ Kept => DefinitionsAreKept
<1> SUFFICES ASSUME IInv, Kept PROVE DefinitionsAreKept
  OBVIOUS
<1>1. PICK count \in Nat : count = Len(symbols) /\ Symbols = 1 .. count
  BY LenProperties DEF IInv, Tables, Symbols
<1>2. PICK n \in Nat : n = Len(text) /\ DOMAIN text = 1 .. n
  BY LenProperties DEF IInv, Text
<1>3. PICK many \in Nat : many = Len(environments) /\ Environments = 1 .. many
  BY LenProperties DEF IInv, Tables, Arena, Environments
<1>4. ASSUME status = "finished"
      PROVE  /\ {symbols[s].at : s \in Symbols} = {i \in DOMAIN text : Definition(i)}
             /\ symbol_order = [s \in Symbols |-> s]
             /\ \A r, s \in Symbols : r < s => symbols[r].at < symbols[s].at
  <2>1. cursor = n /\ ~Aborted
    BY <1>2, <1>4 DEF Kept, Listed, Aborted
  <2>2. \A s \in 1 .. count : symbols[s].at \in 1 .. n /\ Definition(symbols[s].at)
    BY <1>1, <2>1 DEF Kept, Listed
  <2>3. \A i \in 1 .. n : Definition(i) => \E s \in 1 .. count : symbols[s].at = i
    BY <1>1, <2>1 DEF Kept, Listed
  <2>4. {symbols[s].at : s \in Symbols} = {i \in DOMAIN text : Definition(i)}
    BY <1>1, <1>2, <2>2, <2>3
  <2> QED
    BY <1>1, <2>4 DEF Kept, Listed
<1>5. ASSUME NEW e \in Environments, NEW s \in Symbols, symbols[s].env = e
      PROVE  /\ symbols[s].name \in DOMAIN environments[e].map
             /\ LET first == environments[e].map[symbols[s].name] IN
                /\ symbols[first].env = e /\ symbols[first].name = symbols[s].name
                /\ first <= s
                /\ first < s <=> [what |-> "redefinition", at |-> symbols[s].at] \in diagnostics
  <2>1. /\ symbols[s].name \in DOMAIN environments[e].map
        /\ environments[e].map[symbols[s].name] <= s
        /\ environments[e].map[symbols[s].name] < s <=> Redefined(symbols[s].at) \in diagnostics
    BY <1>1, <1>5 DEF Kept, Found
  <2>2. LET first == environments[e].map[symbols[s].name] IN
        symbols[first].env = e /\ symbols[first].name = symbols[s].name
    BY <1>3, <2>1 DEF Kept, Meant
  <2> QED
    BY <2>1, <2>2 DEF Redefined
<1>6. ASSUME SyntaxErrors = {}, NEW s \in Symbols
      PROVE  WhereWritten(s)
  <2>1. Right(text, symbols, s)
    BY <1>1, <1>6 DEF Kept, Straight
  <2>2. \A i : Around(i) = Surrounding(text, i)
    BY DEF Around, Surrounding, Balanced, Many, Having, Count
  <2> QED
    BY <1>1, <2>1, <2>2 DEF Right, WhereWritten, Latest
<1> QED
  BY <1>4, <1>5, <1>6 DEF DefinitionsAreKept, EveryDefinitionIsCollected, PlacedAsWritten

(* For every set of documents: when a document has been collected, every   *)
(* complete definition of it has been listed once, in textual order, its   *)
(* name means the first definition of that name in its environment, later  *)
(* ones are reported, and, unless there was a syntax error, each is in the *)
(* environment of the module that the braces put it in.                    *)
THEOREM DefinitionsStayKept == Spec => []DefinitionsAreKept
<1>1. IInv /\ Kept /\ [Next]_vars => Kept'
  BY CollectDefinitionKeeps, CollectModuleKeeps, CollectBlockEndKeeps, ReportKeeps,
     RecoveryKeeps, FinishKeeps, StutterKeeps DEF Next
<1> QED
  BY <1>1, InitKeeps, Inductive, KeptMeansKept, PTL DEF Spec
=============================================================================
