----------------------------- MODULE LexerProofs -----------------------------
(***************************************************************************)
(* Proofs about Lexer, for every set of texts: the lexer stays inside the  *)
(* text, its tokens follow each other without overlapping, their positions *)
(* agree with their offsets, and they are those of the text.               *)
(*                                                                         *)
(* TokensAreDisjoint is not inductive: that no token is empty rests on     *)
(* what is true where a token begins, HasBegun.  TokensFollowText compares *)
(* tokens with recursive functions of the text.  Those exist because each  *)
(* value is made of values further behind; what is proved of the lexer's   *)
(* turns is that they solve the same equations one character at a time.    *)
(***************************************************************************)
EXTENDS Lexer, Minimum, SequenceTheorems, FiniteSetTheorems, TLAPS

(* A token of which nothing has been taken yet can take the character that *)
(* it was begun for.                                                       *)
HasBegun ==
    InToken /\ start.offset = offset =>
        mode \notin {"string", "floating"} /\ ~Finished /\ current \in Consumed

IInv == TypeOK /\ TokensAreDisjoint /\ HasBegun

TokenType == [type : Types, offset : Nat, length : Nat, start : Position, stop : Position]

(* The tokens alone: each ends where something has been read, and none     *)
(* begins before another one ends.                                         *)
Follow(some, limit) ==
    \A k \in DOMAIN some :
        /\ some[k].offset + some[k].length <= limit
        /\ some[k].type # "end of input" => some[k].length > 0
        /\ \A j \in 1 .. k - 1 : some[j].offset + some[j].length <= some[k].offset

-----------------------------------------------------------------------------
(* What the helpers return. *)

LEMMA TextIsFinite ==
    ASSUME TypeOK
    PROVE  /\ Len(text) \in Nat /\ DOMAIN text = 1 .. Len(text)
           /\ \A i \in 1 .. Len(text) : text[i] \in Characters
           /\ offset \in Nat /\ offset <= Len(text)
<1>1. text \in Seq(Characters) /\ offset \in 0 .. Len(text)
  BY DEF TypeOK
<1>2. Len(text) \in Nat /\ DOMAIN text = 1 .. Len(text)
  BY <1>1, LenProperties
<1>3. \A i \in 1 .. Len(text) : text[i] \in Characters
  BY <1>1, ElementOfSeq
<1> QED
  BY <1>1, <1>2, <1>3

LEMMA CharactersAreClasses ==
    ASSUME TypeOK, NEW i \in Nat
    PROVE  IF i < Len(text) THEN At(i) \in Characters ELSE At(i) = "end"
<1>1. CASE i < Len(text)
  <2>1. i + 1 \in 1 .. Len(text)
    BY <1>1, TextIsFinite
  <2>2. text[i + 1] \in Characters
    BY <2>1, TextIsFinite
  <2> QED
    BY <1>1, <2>2 DEF At
<1>2. CASE ~(i < Len(text))
  BY <1>2 DEF At
<1> QED
  BY <1>1, <1>2

LEMMA ForwardIsTyped ==
    ASSUME NEW p \in Position, NEW c
    PROVE  Forward(p, c) \in Position
BY DEF Forward, Position

LEMMA AdvanceOneStays ==
    ASSUME TypeOK, ~Finished, AdvanceOne
    PROVE  offset' = offset + 1 /\ offset' <= Len(text) /\ position' \in Position
<1>1. position \in Position
  BY DEF TypeOK
<1>2. Forward(position, current) \in Position
  BY <1>1, ForwardIsTyped
<1> QED
  BY <1>2, TextIsFinite DEF Finished, AdvanceOne

LEMMA AdvanceTwoStays ==
    ASSUME TypeOK, offset + 1 < Len(text), AdvanceTwo
    PROVE  offset' = offset + 2 /\ offset' <= Len(text) /\ position' \in Position
<1>1. position \in Position
  BY DEF TypeOK
<1>2. Forward(position, current) \in Position
  BY <1>1, ForwardIsTyped
<1>3. Forward(Forward(position, current), At(offset + 1)) \in Position
  BY <1>2, ForwardIsTyped
<1> QED
  BY <1>3, TextIsFinite DEF AdvanceTwo

(* Two characters that are there are inside the text. *)
LEMMA AheadIsInside ==
    ASSUME TypeOK, NEW a, NEW b, Ahead(a, b), b # "end"
    PROVE  offset + 1 < Len(text)
BY TextIsFinite DEF Ahead, At

(* A step that returns nothing leaves the tokens where they are. *)
LEMMA FollowStays ==
    ASSUME NEW some \in Seq(TokenType), NEW limit \in Nat, NEW later \in Nat,
           limit <= later, Follow(some, limit)
    PROVE  Follow(some, later)
<1> SUFFICES ASSUME NEW k \in DOMAIN some
             PROVE  some[k].offset + some[k].length <= later
  BY DEF Follow
<1>1. some[k] \in TokenType
  BY LenProperties, ElementOfSeq
<1>2. some[k].offset \in Nat /\ some[k].length \in Nat
  BY <1>1 DEF TokenType
<1>3. some[k].offset + some[k].length <= limit
  BY DEF Follow
<1> QED
  BY <1>2, <1>3

LEMMA LastOrEarlier ==
    ASSUME NEW n \in Nat, NEW k \in 1 .. n + 1
    PROVE  /\ k = n + 1 => 1 .. k - 1 = 1 .. n
           /\ k # n + 1 => k \in 1 .. n /\ 1 .. k - 1 \subseteq 1 .. n
OBVIOUS

(* A token that begins where all others have ended follows them. *)
LEMMA FollowGrows ==
    ASSUME NEW some \in Seq(TokenType), NEW limit \in Nat, NEW later \in Nat,
           NEW token \in TokenType, limit <= later, Follow(some, limit),
           \A i \in DOMAIN some : some[i].offset + some[i].length <= token.offset,
           token.offset + token.length <= later,
           token.type # "end of input" => token.length > 0
    PROVE  Append(some, token) \in Seq(TokenType) /\ Follow(Append(some, token), later)
<1>1. PICK n \in Nat : n = Len(some) /\ DOMAIN some = 1 .. n
  BY LenProperties
<1>2. PICK grown \in Seq(TokenType) :
         /\ grown = Append(some, token)
         /\ Len(grown) = n + 1
         /\ \A i \in 1 .. n : grown[i] = some[i]
         /\ grown[n + 1] = token
  BY <1>1, AppendProperties, Zenon
<1>3. (\A i \in 1 .. n : grown[i] = some[i]) /\ grown[n + 1] = token
  BY <1>2
<1>4. DOMAIN grown = 1 .. n + 1
  BY <1>2, LenProperties
<1>5. Follow(some, later)
  BY FollowStays
<1>6. ASSUME NEW k \in 1 .. n + 1
      PROVE  /\ grown[k].offset + grown[k].length <= later
             /\ grown[k].type # "end of input" => grown[k].length > 0
             /\ \A j \in 1 .. k - 1 :
                   grown[j].offset + grown[j].length <= grown[k].offset
  <2>1. CASE k = n + 1
    <3>2. grown[k] = token
      BY <1>3, <2>1
    <3>1. 1 .. k - 1 = 1 .. n
      BY <2>1, LastOrEarlier, Zenon
    <3>3. \A j \in 1 .. k - 1 : j \in DOMAIN some /\ grown[j] = some[j]
      BY <1>1, <1>3, <3>1, Zenon
    <3> QED
      BY <3>2, <3>3
  <2>2. CASE k # n + 1
    <3>1. k \in 1 .. n /\ 1 .. k - 1 \subseteq 1 .. n
      BY <2>2, LastOrEarlier, Zenon
    <3>2. k \in DOMAIN some /\ grown[k] = some[k]
      BY <1>1, <1>3, <3>1, Zenon
    <3>3. \A j \in 1 .. k - 1 : grown[j] = some[j]
      BY <1>3, <3>1, Zenon
    <3> QED
      BY <1>5, <3>2, <3>3 DEF Follow
  <2> QED
    BY <2>1, <2>2
<1>7. Follow(grown, later)
  BY <1>4, <1>6 DEF Follow
<1> QED
  BY <1>2, <1>7

LEMMA DisjointMeansFollow ==
    TokensAreDisjoint <=>
        /\ Follow(tokens, offset)
        /\ InToken => /\ start.offset <= offset
                      /\ \A k \in DOMAIN tokens : Stop(k) <= start.offset
BY DEF TokensAreDisjoint, Follow, Stop

-----------------------------------------------------------------------------
(* Steps that return no token, and steps that return the one that was      *)
(* begun.                                                                  *)

Reads == /\ offset' \in Nat /\ offset <= offset' /\ offset' <= Len(text)
         /\ position' \in Position

(* The token that is being read begins where all others have ended. *)
Begins == InToken => /\ start.offset <= offset
                     /\ \A k \in DOMAIN tokens : Stop(k) <= start.offset
Taken  == start.offset < offset'
ReturnedTypes == Types \ {"end of input"}

(* Comments are open exactly while they are being skipped. *)
CountsComments == depth \in Nat /\ (depth > 0 <=> mode = "block comment")

LEMMA QuietStep ==
    ASSUME IInv, Reads, text' = text, tokens' = tokens,
           mode' \in Modes, CountsComments',
           start' \in [offset : 0 .. Len(text), position : Position],
           Begins'
    PROVE  TypeOK' /\ TokensAreDisjoint'
<1>0. TypeOK
  BY DEF IInv
<1>1. TypeOK'
  <2>3. Len(text) \in Nat /\ offset \in Nat /\ offset <= Len(text)
    BY <1>0, TextIsFinite, Zenon
  <2>1. offset' \in 0 .. Len(text)
    BY <2>3 DEF Reads
  <2>2. text \in Seq(Characters) /\ tokens \in Seq(TokenType)
    BY <1>0 DEF TypeOK, TokenType
  <2> QED
    BY <2>1, <2>2 DEF TypeOK, Reads, TokenType, CountsComments
<1>2. tokens \in Seq(TokenType) /\ offset \in Nat
  BY TextIsFinite DEF IInv, TypeOK, TokenType
<1>3. Follow(tokens, offset)
  BY DisjointMeansFollow DEF IInv
<1>4. Follow(tokens, offset')
  BY <1>2, <1>3, FollowStays DEF Reads
<1>5. TokensAreDisjoint'
  BY <1>4 DEF TokensAreDisjoint, Follow, Stop, Begins
<1> QED
  BY <1>1, <1>5

(* A token joins the others when it begins where they have ended. *)
Joins(token) ==
    /\ \A k \in DOMAIN tokens : Stop(k) <= token.offset
    /\ token.offset + token.length <= offset'
    /\ token.type # "end of input" => token.length > 0
Ended     == {"blank", "done"}
InComment == mode = "block comment"

LEMMA AppendStep ==
    ASSUME IInv, Reads, NEW token \in TokenType, tokens' = Append(tokens, token),
           Joins(token), mode' \in Ended, ~InComment,
           text' = text, depth' = depth, start' = start
    PROVE  IInv'
<1>1. TypeOK /\ Follow(tokens, offset)
  BY DisjointMeansFollow DEF IInv
<1>2. /\ tokens \in Seq(TokenType)
      /\ start \in [offset : 0 .. Len(text), position : Position]
      /\ text \in Seq(Characters) /\ CountsComments
  BY <1>1 DEF TypeOK, TokenType, CountsComments
<1>3. Len(text) \in Nat /\ offset \in Nat /\ offset' \in Nat /\ offset <= offset'
      /\ offset' \in 0 .. Len(text)
  <2>1. Len(text) \in Nat /\ offset \in Nat
    BY <1>1, TextIsFinite, Zenon
  <2> QED
    BY <2>1 DEF Reads
<1>4. Append(tokens, token) \in Seq(TokenType) /\ Follow(Append(tokens, token), offset')
  BY <1>1, <1>2, <1>3, FollowGrows, Zenon DEF Joins, Stop
<1>5. TypeOK'
  BY <1>2, <1>3, <1>4 DEF TypeOK, Modes, TokenType, Ended, InComment, CountsComments, Reads
<1>6. TokensAreDisjoint' /\ HasBegun'
  BY <1>4 DEF TokensAreDisjoint, Follow, Stop, HasBegun, InToken, Ended
<1> QED
  BY <1>5, <1>6 DEF IInv

LEMMA ReturnStep ==
    ASSUME IInv, Reads, NEW type \in ReturnedTypes, Return(type),
           InToken, Taken, text' = text, depth' = depth, start' = start
    PROVE  IInv'
<1>1. TypeOK
  BY DEF IInv
<1>2. start \in [offset : 0 .. Len(text), position : Position]
  BY <1>1 DEF TypeOK
<1>3. /\ start.offset \in Nat /\ start.position \in Position
      /\ offset' \in Nat /\ position' \in Position
  BY <1>1, <1>2, TextIsFinite DEF Reads
<1>4. /\ offset' - start.offset \in Nat /\ offset' - start.offset > 0
      /\ start.offset + (offset' - start.offset) <= offset'
  BY <1>3 DEF Taken
<1>5. PICK token : token = Token(type, start, Here')
  OBVIOUS
<1>6. token = [type |-> type, offset |-> start.offset, length |-> offset' - start.offset,
               start |-> start.position, stop |-> position']
  BY <1>5 DEF Token, Here
<1>7. token \in TokenType
  BY <1>3, <1>4, <1>6 DEF TokenType, ReturnedTypes
<1>8. \A k \in DOMAIN tokens : Stop(k) <= start.offset
  BY DEF IInv, TokensAreDisjoint
<1>9. Joins(token)
  BY <1>4, <1>6, <1>8 DEF Joins
<1>10. tokens' = Append(tokens, token) /\ mode' \in Ended /\ ~InComment
  BY <1>5 DEF Return, Ended, InComment, InToken
<1> QED
  BY <1>7, <1>9, <1>10, AppendStep

(* A single step of offset and position that belongs to a token. *)
LEMMA TakeStep ==
    ASSUME IInv, AdvanceOne \/ (AdvanceTwo /\ offset + 1 < Len(text)), ~Finished,
           InToken, InToken', mode' \in Modes,
           text' = text, depth' = depth, start' = start, tokens' = tokens
    PROVE  IInv'
<1>1. TypeOK
  BY DEF IInv
<1>2. offset \in Nat /\ Len(text) \in Nat
  BY <1>1, TextIsFinite
<1>3. offset' \in Nat /\ offset < offset' /\ Reads
  BY <1>1, <1>2, AdvanceOneStays, AdvanceTwoStays DEF Reads
<1>4. start \in [offset : 0 .. Len(text), position : Position] /\ start.offset \in Nat
      /\ start.offset <= offset
  <2>1. start \in [offset : 0 .. Len(text), position : Position]
    BY <1>1 DEF TypeOK
  <2>2. start.offset <= offset
    BY DEF IInv, TokensAreDisjoint
  <2> QED
    BY <1>2, <2>1, <2>2
<1>5. start.offset <= offset' /\ start.offset # offset'
  BY <1>2, <1>3, <1>4
<1>6. Begins'
  BY <1>5 DEF Begins, IInv, TokensAreDisjoint, Stop
<1>7. CountsComments'
  BY <1>1 DEF TypeOK, CountsComments, InToken
<1>8. TypeOK' /\ TokensAreDisjoint'
  BY <1>3, <1>4, <1>6, <1>7, QuietStep
<1>9. HasBegun'
  BY <1>5 DEF HasBegun
<1> QED
  BY <1>8, <1>9 DEF IInv
-----------------------------------------------------------------------------
(* Every operation preserves the invariant. *)

LEMMA InitIInv == Init => IInv
<1> SUFFICES ASSUME Init PROVE IInv
  OBVIOUS
<1>1. text \in Seq(Characters) /\ Len(text) \in Nat
  BY TextsAssumption, LenProperties DEF Init
<1>2. Origin \in Position
  BY DEF Origin, Position
<1>3. <<>> \in Seq(TokenType) /\ DOMAIN <<>> = {}
  BY EmptySeq
<1>4. TypeOK
  BY <1>1, <1>2, <1>3 DEF Init, TypeOK, Modes, TokenType
<1>5. TokensAreDisjoint /\ HasBegun
  BY <1>3 DEF Init, TokensAreDisjoint, HasBegun, InToken
<1> QED
  BY <1>4, <1>5 DEF IInv

(* At the end of the text there is no character. *)
LEMMA EndHasNoCharacter ==
    ASSUME TypeOK, Finished
    PROVE  current = "end"
BY TextIsFinite DEF current, At, Finished

(* Blanks and comments hold no tokens. *)
Between == {"blank", "line comment", "block comment"}
LEMMA SkipStep ==
    ASSUME IInv, Reads, mode' \in Between, CountsComments',
           text' = text, start' = start, tokens' = tokens
    PROVE  IInv'
<1>1. TypeOK
  BY DEF IInv
<1>2. start \in [offset : 0 .. Len(text), position : Position]
  BY <1>1 DEF TypeOK
<1>3. ~InToken' /\ mode' \in Modes
  BY DEF InToken, Between, Modes
<1>4. Begins' /\ HasBegun'
  BY <1>3 DEF Begins, HasBegun
<1> QED
  BY <1>2, <1>3, <1>4, QuietStep DEF IInv

LEMMA StayReads ==
    ASSUME TypeOK, Stay
    PROVE  Reads
<1>1. offset \in Nat /\ offset <= Len(text)
  BY TextIsFinite
<1>2. position \in Position
  BY DEF TypeOK
<1> QED
  BY <1>1, <1>2 DEF Reads, Stay

LEMMA OneReads ==
    ASSUME TypeOK, ~Finished, AdvanceOne
    PROVE  Reads
BY TextIsFinite, AdvanceOneStays DEF Reads

LEMMA TwoReads ==
    ASSUME TypeOK, offset + 1 < Len(text), AdvanceTwo
    PROVE  Reads
BY TextIsFinite, AdvanceTwoStays DEF Reads

LEMMA SkippingIInv ==
    ASSUME IInv, Blank \/ BeginLineComment \/ LineComment
    PROVE  IInv'
<1>1. TypeOK /\ CountsComments
  BY DEF IInv, TypeOK, CountsComments
<1>2. CASE Blank
  <2>1. ~Finished
    BY <1>1, <1>2, EndHasNoCharacter DEF Blank, Whitespace
  <2>2. Reads
    BY <1>1, <1>2, <2>1, OneReads DEF Blank
  <2> QED
    BY <1>1, <1>2, <2>2, SkipStep DEF Blank, Between, CountsComments
<1>3. CASE BeginLineComment
  <2>1. offset + 1 < Len(text)
    BY <1>1, <1>3, AheadIsInside DEF BeginLineComment
  <2>2. Reads
    BY <1>1, <1>3, <2>1, TwoReads DEF BeginLineComment
  <2> QED
    BY <1>1, <1>3, <2>2, SkipStep DEF BeginLineComment, Between, CountsComments
<1>4. CASE LineComment
  <2>1. Reads
    BY <1>1, <1>4, OneReads, StayReads DEF LineComment
  <2> QED
    BY <1>1, <1>4, <2>1, SkipStep DEF LineComment, Between, CountsComments
<1> QED
  BY <1>2, <1>3, <1>4

(* The count of open comments, without the mode. *)
LEMMA CountIsPositive ==
    ASSUME CountsComments
    PROVE  depth \in Nat /\ (InComment => depth \in Nat \ {0})
<1>1. depth \in Nat
  BY DEF CountsComments
<1>2. InComment => depth > 0
  BY DEF CountsComments, InComment
<1> QED
  BY <1>1, <1>2

LEMMA CountMatches ==
    ASSUME IF InComment' THEN depth' \in Nat \ {0} ELSE depth' = 0
    PROVE  CountsComments'
<1>1. CASE InComment'
  <2>1. depth' \in Nat /\ depth' > 0
    BY <1>1
  <2> QED
    BY <1>1, <2>1 DEF InComment, CountsComments
<1>2. CASE ~InComment'
  <2>1. depth' \in Nat /\ ~(depth' > 0)
    BY <1>2
  <2> QED
    BY <1>2, <2>1 DEF InComment, CountsComments
<1> QED
  BY <1>1, <1>2

LEMMA CommentIInv ==
    ASSUME IInv, BeginBlockComment \/ CloseComment \/ OpenComment \/ BlockComment
    PROVE  IInv'
<1>1. TypeOK /\ CountsComments
  BY DEF IInv, TypeOK, CountsComments
<1>2. CASE BeginBlockComment
  <2>1. offset + 1 < Len(text)
    BY <1>1, <1>2, AheadIsInside DEF BeginBlockComment
  <2>2. Reads
    BY <1>1, <1>2, <2>1, TwoReads DEF BeginBlockComment
  <2>3. depth' = 1 /\ mode' \in Between /\ InComment'
    BY <1>2 DEF BeginBlockComment, Between, InComment
  <2>4. CountsComments'
    BY <2>3, CountMatches
  <2> QED
    BY <1>2, <2>2, <2>3, <2>4, SkipStep DEF BeginBlockComment
<1>3. CASE CloseComment
  <2>1. offset + 1 < Len(text)
    BY <1>1, <1>3, AheadIsInside DEF CloseComment
  <2>2. Reads
    BY <1>1, <1>3, <2>1, TwoReads DEF CloseComment
  <2>4. /\ InComment /\ depth' = depth - 1 /\ mode' \in Between
        /\ InComment' <=> depth # 1
    BY <1>3 DEF CloseComment, Between, InComment
  <2>5. depth \in Nat \ {0}
    BY <1>1, <2>4, CountIsPositive
  <2>3. mode' \in Between /\ CountsComments'
    BY <2>4, <2>5, CountMatches
  <2> QED
    BY <1>3, <2>2, <2>3, SkipStep DEF CloseComment
<1>4. CASE OpenComment
  <2>1. offset + 1 < Len(text)
    BY <1>1, <1>4, AheadIsInside DEF OpenComment
  <2>2. Reads
    BY <1>1, <1>4, <2>1, TwoReads DEF OpenComment
  <2>4. InComment /\ depth' = depth + 1 /\ mode' \in Between /\ InComment'
    BY <1>4 DEF OpenComment, Between, InComment
  <2>5. depth \in Nat \ {0}
    BY <1>1, <2>4, CountIsPositive
  <2>3. mode' \in Between /\ CountsComments'
    BY <2>4, <2>5, CountMatches
  <2> QED
    BY <1>4, <2>2, <2>3, SkipStep DEF OpenComment
<1>5. CASE BlockComment
  <2>1. Reads
    BY <1>1, <1>5, OneReads, StayReads DEF BlockComment
  <2>3. /\ InComment /\ mode' \in Between
        /\ \/ ~InComment' /\ depth' = 0
           \/ InComment' /\ depth' = depth
    <3>1. CASE Finished
      <4>1. mode = "block comment" /\ mode' = "blank" /\ depth' = 0
        BY <1>5, <3>1 DEF BlockComment
      <4>2. InComment /\ ~InComment' /\ mode' \in Between
        BY <4>1 DEF Between, InComment
      <4> QED
        BY <1>5, <4>1, <4>2, Zenon DEF BlockComment
    <3>2. CASE ~Finished
      BY <1>5, <3>2 DEF BlockComment, Between, InComment
    <3> QED
      BY <3>1, <3>2
  <2>4. depth \in Nat \ {0}
    BY <1>1, <2>3, CountIsPositive
  <2>2. mode' \in Between /\ CountsComments'
    BY <2>3, <2>4, CountMatches
  <2> QED
    BY <1>5, <2>1, <2>2, SkipStep DEF BlockComment
<1> QED
  BY <1>2, <1>3, <1>4, <1>5
(* The end of input is a token of no length, where the text ends. *)
LEMMA EndOfInputIInv ==
    ASSUME IInv, EndOfInput
    PROVE  IInv'
<1>1. TypeOK
  BY DEF IInv
<1>2. offset \in Nat /\ position \in Position
  BY <1>1, TextIsFinite DEF TypeOK
<1>3. Reads
  BY <1>1, StayReads DEF EndOfInput, Stay
<1>4. PICK token : token = Token("end of input", Here, Here)
  OBVIOUS
<1>5. token = [type |-> "end of input", offset |-> offset, length |-> 0,
               start |-> position, stop |-> position]
  <2>1. offset - offset = 0
    BY <1>2
  <2> QED
    BY <1>4, <2>1 DEF Token, Here
<1>6. token \in TokenType
  BY <1>2, <1>5 DEF TokenType, Types
<1>7. Joins(token)
  <2>1. \A k \in DOMAIN tokens : Stop(k) <= offset
    BY DEF IInv, TokensAreDisjoint
  <2>3. offset' = offset
    BY DEF EndOfInput
  <2>4. token.offset = offset /\ token.length = 0
    BY <1>5
  <2>2. token.offset + token.length <= offset'
    BY <1>2, <2>3, <2>4
  <2> QED
    BY <1>5, <2>1, <2>2 DEF Joins
<1>8. tokens' = Append(tokens, token) /\ mode' \in Ended /\ ~InComment
  BY <1>4 DEF EndOfInput, AtToken, Ended, InComment
<1> QED
  BY <1>3, <1>6, <1>7, <1>8, AppendStep DEF EndOfInput

LEMMA SimpleTokenIInv ==
    ASSUME IInv, SimpleToken
    PROVE  IInv'
<1>1. TypeOK
  BY DEF IInv
<1>2. offset \in Nat /\ position \in Position
  BY <1>1, TextIsFinite DEF TypeOK
<1>3. ~Finished
  BY <1>1, EndHasNoCharacter DEF SimpleToken, Simple
<1>4. Reads /\ offset' = offset + 1 /\ position' \in Position
  BY <1>1, <1>3, OneReads, AdvanceOneStays DEF SimpleToken
<1>5. PICK token : token = Token(current, Here, Here')
  OBVIOUS
<1>6. token = [type |-> current, offset |-> offset, length |-> 1,
               start |-> position, stop |-> position']
  BY <1>2, <1>4, <1>5 DEF Token, Here
<1>7. token \in TokenType
  BY <1>2, <1>4, <1>6 DEF TokenType, Types, SimpleToken
<1>8. Joins(token)
  <2>1. \A k \in DOMAIN tokens : Stop(k) <= offset
    BY DEF IInv, TokensAreDisjoint
  <2>2. token.offset + token.length <= offset'
    BY <1>2, <1>4, <1>6
  <2> QED
    BY <1>6, <2>1, <2>2 DEF Joins
<1>9. tokens' = Append(tokens, token) /\ mode' \in Ended /\ ~InComment
  BY <1>5 DEF SimpleToken, AtToken, Ended, InComment
<1> QED
  BY <1>4, <1>7, <1>8, <1>9, AppendStep DEF SimpleToken

(* A character begins the token that can take it: this is what HasBegun is *)
(* about, and why no run of invalid characters is empty.                   *)
LEMMA KindCanTake ==
    ASSUME TypeOK, AtToken, ~Finished, current \notin Simple, mode' = Kind,
           current # "quote"
    PROVE  /\ mode' \in {"name", "operator", "integer", "invalid"}
           /\ current \in Consumed'
<1>1. offset \in Nat /\ offset < Len(text)
  BY TextIsFinite DEF Finished
<1>2. current \in Characters
  BY <1>1, CharactersAreClasses DEF current
<1>3. current \notin Whitespace
  BY DEF AtToken
<1>4. CASE current \in NameHead
  BY <1>4 DEF Kind, NameHead, Name, Consumed
<1>5. CASE current \in Operator /\ current \notin NameHead
  BY <1>5 DEF Kind, Consumed, Operator
<1>6. CASE current = "digit"
  BY <1>6 DEF Kind, NameHead, Operator, Name, Consumed
<1>7. CASE current \notin NameHead /\ current \notin Operator /\ current # "digit"
  <2>1. mode' = "invalid"
    BY <1>7 DEF Kind
  <2>2. current \notin Valid
    BY <1>3, <1>7 DEF Valid, Name, NameHead, Operator, Simple
  <2> QED
    BY <1>2, <2>1, <2>2 DEF Consumed
<1> QED
  BY <1>4, <1>5, <1>6, <1>7

LEMMA BeginTokenIInv ==
    ASSUME IInv, BeginToken
    PROVE  IInv'
<1>1. TypeOK /\ CountsComments
  BY DEF IInv, TypeOK, CountsComments
<1>2. /\ offset \in Nat /\ Len(text) \in Nat /\ position \in Position
      /\ offset \in 0 .. Len(text)
  BY <1>1, TextIsFinite DEF TypeOK
<1>3. start' = [offset |-> offset, position |-> position]
  BY DEF BeginToken, Here
<1>4. start' \in [offset : 0 .. Len(text), position : Position]
  BY <1>2, <1>3
<1>5. Reads
  BY <1>1, OneReads, StayReads DEF BeginToken
<1>6. Begins'
  <2>1. \A k \in DOMAIN tokens : Stop(k) <= offset
    BY DEF IInv, TokensAreDisjoint
  <2>2. start'.offset = offset /\ offset <= offset' /\ tokens' = tokens
    BY <1>3, <1>5 DEF Reads, BeginToken
  <2> QED
    BY <2>1, <2>2 DEF Begins, Stop
<1>7. CASE current = "quote"
  <2>1. mode' = "string" /\ offset' = offset + 1
    BY <1>7 DEF BeginToken, Kind, AdvanceOne, NameHead, Operator
  <2>2. mode' \in Modes /\ CountsComments'
    BY <1>1, <2>1 DEF Modes, CountsComments, BeginToken, AtToken
  <2>3. start'.offset # offset'
    BY <1>2, <1>3, <2>1
  <2>4. HasBegun'
    BY <2>3 DEF HasBegun
  <2> QED
    BY <1>4, <1>5, <1>6, <2>2, <2>4, QuietStep DEF BeginToken, IInv
<1>8. CASE current # "quote"
  <2>1. /\ mode' \in {"name", "operator", "integer", "invalid"}
        /\ current \in Consumed' /\ offset' = offset /\ text' = text /\ ~Finished
    BY <1>1, <1>8, KindCanTake DEF BeginToken, Stay
  <2>2. mode' \in Modes
    BY <2>1 DEF Modes
  <2>3. CountsComments'
    BY <1>1, <2>1 DEF CountsComments, BeginToken, AtToken
  <2>4. HasBegun'
    BY <2>1 DEF HasBegun, Finished, current, At
  <2> QED
    BY <1>4, <1>5, <1>6, <2>2, <2>3, <2>4, QuietStep DEF BeginToken, IInv
<1> QED
  BY <1>7, <1>8
LEMMA TakingIInv ==
    ASSUME IInv, Consume \/ Fraction \/ StringCharacter
    PROVE  IInv'
<1>1. TypeOK
  BY DEF IInv
<1>2. ~Finished
  BY <1>1, EndHasNoCharacter DEF Consume, Fraction, IsFraction, StringCharacter
<1>3. /\ InToken /\ InToken' /\ mode' \in Modes /\ AdvanceOne /\ text' = text
      /\ depth' = depth /\ start' = start /\ tokens' = tokens
  BY DEF Consume, Fraction, IsFraction, StringCharacter, InToken, Modes
<1> QED
  BY <1>2, <1>3, TakeStep, Zenon

(* A token that ends has taken something: the character after it is not    *)
(* one that it was begun for.                                              *)
LEMMA EndTokenIInv ==
    ASSUME IInv, EndToken
    PROVE  IInv'
<1>1. TypeOK
  BY DEF IInv
<1>2. Reads
  BY <1>1, StayReads DEF EndToken
<1>3. InToken /\ mode \in ReturnedTypes
  BY DEF EndToken, InToken, ReturnedTypes, Types
<1>4. start.offset # offset /\ start.offset <= offset
  BY <1>3 DEF IInv, HasBegun, EndToken, TokensAreDisjoint
<1>5. Taken
  <2>1. start \in [offset : 0 .. Len(text), position : Position]
    BY <1>1 DEF TypeOK
  <2>2. start.offset \in Nat /\ offset \in Nat
    BY <1>1, <2>1, TextIsFinite
  <2>3. offset' = offset
    BY DEF EndToken, Stay
  <2> QED
    BY <1>4, <2>2, <2>3 DEF Taken
<1> QED
  BY <1>2, <1>3, <1>5, ReturnStep DEF EndToken

(* A string has taken its opening quote. *)
LEMMA StringHasBegun ==
    ASSUME IInv, mode = "string"
    PROVE  /\ InToken /\ start.offset \in Nat /\ offset \in Nat
           /\ start.offset < offset
<1>1. TypeOK
  BY DEF IInv
<1>2. start \in [offset : 0 .. Len(text), position : Position]
  BY <1>1 DEF TypeOK
<1>3. start.offset \in Nat /\ offset \in Nat
  BY <1>1, <1>2, TextIsFinite
<1>4. InToken
  BY DEF InToken
<1>5. start.offset # offset /\ start.offset <= offset
  BY <1>4 DEF IInv, HasBegun, TokensAreDisjoint
<1> QED
  BY <1>3, <1>4, <1>5

LEMMA EndingStringIInv ==
    ASSUME IInv, EndString \/ UnterminatedString
    PROVE  IInv'
<1>1. TypeOK
  BY DEF IInv
<1>2. /\ InToken /\ start.offset \in Nat /\ offset \in Nat
      /\ start.offset < offset
  BY StringHasBegun DEF EndString, UnterminatedString
<1>3. Reads
  BY <1>1, EndHasNoCharacter, OneReads, StayReads DEF EndString, UnterminatedString
<1>4. Taken
  BY <1>2, <1>3 DEF Taken, Reads
<1>5. PICK type \in ReturnedTypes : Return(type)
  BY DEF EndString, UnterminatedString, ReturnedTypes, Types
<1>6. text' = text /\ depth' = depth /\ start' = start
  BY DEF EndString, UnterminatedString
<1> QED
  BY <1>2, <1>3, <1>4, <1>5, <1>6, ReturnStep

LEMMA EscapeIInv ==
    ASSUME IInv, Escape
    PROVE  IInv'
<1>1. TypeOK
  BY DEF IInv
<1>2. /\ InToken /\ start.offset \in Nat /\ offset \in Nat
      /\ start.offset < offset
  BY StringHasBegun DEF Escape
<1>3. ~Finished
  BY <1>1, EndHasNoCharacter DEF Escape
<1>4. text' = text /\ depth' = depth /\ start' = start
  BY DEF Escape
<1>5. CASE offset + 1 = Len(text)
  <2>1. AdvanceOne /\ Return("unterminated string")
    BY <1>5 DEF Escape
  <2>2. Reads
    BY <1>1, <1>3, <2>1, OneReads
  <2>3. Taken
    BY <1>2, <2>2 DEF Taken, Reads
  <2>4. "unterminated string" \in ReturnedTypes
    BY DEF ReturnedTypes, Types
  <2> QED
    BY <1>2, <1>4, <2>1, <2>2, <2>3, <2>4, ReturnStep
<1>6. CASE offset + 1 # Len(text)
  <2>1. AdvanceTwo /\ mode' = mode /\ tokens' = tokens
    BY <1>6 DEF Escape
  <2>2. offset + 1 < Len(text)
    BY <1>1, <1>3, <1>6, TextIsFinite DEF Finished
  <2>3. InToken' /\ mode' \in Modes
    BY <1>1, <1>2, <2>1 DEF InToken, TypeOK
  <2> QED
    BY <1>2, <1>3, <1>4, <2>1, <2>2, <2>3, TakeStep
<1> QED
  BY <1>5, <1>6

LEMMA StutterIInv == IInv /\ UNCHANGED vars => IInv'
<1> SUFFICES ASSUME IInv, UNCHANGED vars PROVE IInv'
  OBVIOUS
<1>1. TypeOK' /\ TokensAreDisjoint' /\ HasBegun'
  BY DEF IInv, vars, TypeOK, TokensAreDisjoint, Stop, HasBegun, InToken, Finished, current,
         At, Consumed
<1> QED
  BY <1>1 DEF IInv

-----------------------------------------------------------------------------
(* The invariant holds throughout, for every set of texts. *)
THEOREM Inductive == Spec => []IInv
<1>1. IInv /\ [Next]_vars => IInv'
  BY SkippingIInv, CommentIInv, EndOfInputIInv, SimpleTokenIInv, BeginTokenIInv, TakingIInv,
     EndTokenIInv, EscapeIInv, EndingStringIInv, StutterIInv DEF Next
<1> QED
  BY <1>1, InitIInv, PTL DEF Spec

(* The lexer never leaves its text: the offset, also after an escape or a  *)
(* comment's end, stays inside, and comments are open exactly while        *)
(* skip_block_comment runs.                                                *)
THEOREM TypeCorrect == Spec => []TypeOK
<1>1. IInv => TypeOK
  BY DEF IInv
<1> QED
  BY <1>1, Inductive, PTL

(* Tokens follow each other without overlapping, none is empty and none    *)
(* reaches past what has been read, for every text: the ranges that next   *)
(* returns are in order.                                                   *)
THEOREM Disjoint == Spec => []TokensAreDisjoint
<1>1. IInv => TokensAreDisjoint
  BY DEF IInv
<1> QED
  BY <1>1, Inductive, PTL

-----------------------------------------------------------------------------
(***************************************************************************)
(* Proof that the two counters of the lexer agree, for every set of texts: *)
(* the offset and the position, which AdvanceOne and AdvanceTwo move       *)
(* separately, always name the same place of the text.                     *)
(*                                                                         *)
(* PositionsAgree alone does not account for the token that is being read, *)
(* nor for the column: the last newline before the offset is found with    *)
(* CHOOSE, and that it is there is carried along instead of being proved   *)
(* from the finiteness of the text.                                        *)
(***************************************************************************)

(* PositionOf, with the text it is about as a parameter. *)
NewlinesIn(t, i) == {j \in 1 .. i : t[j] = "newline"}
LastOf(set)      == IF set = {} THEN 0 ELSE CHOOSE j \in set : \A k \in set : k <= j
LastNewline(t, i) == LastOf(NewlinesIn(t, i))
Place(t, i) == [line   |-> Cardinality(NewlinesIn(t, i)), column |-> i - LastNewline(t, i)]

Placed ==
    /\ position = Place(text, offset) /\ LastNewline(text, offset) \in Nat
    /\ start.position = Place(text, start.offset)
    /\ \A k \in DOMAIN tokens :
          /\ tokens[k].start = Place(text, tokens[k].offset)
          /\ tokens[k].stop = Place(text, tokens[k].offset + tokens[k].length)

LEMMA PlaceIsPositionOf ==
    ASSUME NEW i
    PROVE  PositionOf(i) = Place(text, i)
BY DEF PositionOf, LineStart, Newlines, Place, LastNewline, LastOf, NewlinesIn

LEMMA PlacedMeansAgree == Placed => PositionsAgree
BY PlaceIsPositionOf DEF Placed, PositionsAgree, Stop

-----------------------------------------------------------------------------
(* Forward moves from one place to the next. *)
LEMMA PlaceStep ==
    ASSUME NEW t, NEW i \in Nat, LastNewline(t, i) \in Nat
    PROVE  /\ Place(t, i + 1) = Forward(Place(t, i), t[i + 1])
           /\ LastNewline(t, i + 1) \in Nat
<1>1. CASE t[i + 1] = "newline"
  <2>1. NewlinesIn(t, i + 1) = NewlinesIn(t, i) \cup {i + 1} /\ i + 1 \notin NewlinesIn(t, i)
    BY <1>1 DEF NewlinesIn
  <2>2. IsFiniteSet(NewlinesIn(t, i))
    <3>1. IsFiniteSet(1 .. i)
      BY FS_Interval
    <3>2. NewlinesIn(t, i) \subseteq 1 .. i
      BY DEF NewlinesIn
    <3> QED
      BY <3>1, <3>2, FS_Subset
  <2>3. Cardinality(NewlinesIn(t, i + 1)) = Cardinality(NewlinesIn(t, i)) + 1
    BY <2>1, <2>2, FS_AddElement
  <2>4. LastNewline(t, i + 1) = i + 1
    <3>1. \A k \in NewlinesIn(t, i + 1) : k \in Int /\ k <= i + 1
      BY DEF NewlinesIn
    <3>2. i + 1 \in NewlinesIn(t, i + 1)
      BY <2>1
    <3> DEFINE last == LastOf(NewlinesIn(t, i + 1))
    <3>3. last \in NewlinesIn(t, i + 1) /\ \A k \in NewlinesIn(t, i + 1) : k <= last
      BY <3>1, <3>2 DEF LastOf
    <3> HIDE DEF last
    <3>4. last = i + 1
      BY <3>1, <3>2, <3>3
    <3> QED
      BY <3>4 DEF last, LastNewline
  <2> QED
    BY <1>1, <2>3, <2>4 DEF Place, Forward
<1>2. CASE t[i + 1] # "newline"
  <2>1. NewlinesIn(t, i + 1) = NewlinesIn(t, i)
    BY <1>2 DEF NewlinesIn
  <2>2. LastNewline(t, i + 1) = LastNewline(t, i)
    BY <2>1 DEF LastNewline
  <2> QED
    BY <1>2, <2>1, <2>2 DEF Place, Forward
<1> QED
  BY <1>1, <1>2

LEMMA PlaceOfOrigin ==
    ASSUME NEW t
    PROVE  Place(t, 0) = Origin /\ LastNewline(t, 0) \in Nat
<1>1. NewlinesIn(t, 0) = {}
  BY DEF NewlinesIn
<1> QED
  BY <1>1, FS_EmptySet DEF Place, LastNewline, LastOf, Origin

-----------------------------------------------------------------------------
(* What a step does to the counters and the tokens. *)
Moves == \/ Stay
         \/ offset < Len(text) /\ AdvanceOne
         \/ offset + 1 < Len(text) /\ AdvanceTwo
Returns == \E type : \E from \in {start, Here} :
               tokens' = Append(tokens, Token(type, from, Here'))
Places == /\ Moves /\ text' = text
          /\ start' = start \/ start' = Here
          /\ tokens' = tokens \/ Returns

LEMMA NextPlaces ==
    ASSUME TypeOK, Next
    PROVE  Places
<1>0. /\ offset \in Nat /\ Len(text) \in Nat /\ offset <= Len(text)
      /\ offset = Len(text) \/ offset < Len(text)
  BY TextIsFinite
<1> USE <1>0 DEF Places, Moves
<1>1. CASE Blank
  BY <1>1 DEF Blank, Whitespace, current, At
<1>2. CASE BeginLineComment \/ BeginBlockComment \/ CloseComment \/ OpenComment
  BY <1>2 DEF BeginLineComment, BeginBlockComment, CloseComment, OpenComment, Ahead, At
<1>3. CASE LineComment
  BY <1>3 DEF LineComment, Finished
<1>4. CASE BlockComment
  BY <1>4 DEF BlockComment, Finished
<1>5. CASE EndOfInput
  <2>1. Here' = Here
    BY <1>5 DEF EndOfInput, Here
  <2> QED
    BY <1>5, <2>1 DEF EndOfInput, Returns, Stay
<1>6. CASE SimpleToken
  <2>1. offset < Len(text)
    BY <1>6 DEF SimpleToken, Simple, current, At
  <2> QED
    BY <1>6, <2>1 DEF SimpleToken, Returns
<1>7. CASE BeginToken
  BY <1>7 DEF BeginToken, Finished
<1>8. CASE Consume
  BY <1>8 DEF Consume, Finished
<1>9. CASE Fraction
  <2>1. offset < Len(text)
    BY <1>9 DEF Fraction, IsFraction, current, At
  <2> QED
    BY <1>9, <2>1 DEF Fraction
<1>10. CASE EndToken \/ UnterminatedString
  BY <1>10 DEF EndToken, UnterminatedString, Return, Returns
<1>11. CASE Escape
  <2>1. offset < Len(text)
    BY <1>11 DEF Escape, current, At
  <2>2. offset + 1 = Len(text) \/ offset + 1 < Len(text)
    BY <2>1
  <2> QED
    BY <1>11, <2>1, <2>2 DEF Escape, Return, Returns
<1>12. CASE StringCharacter
  BY <1>12 DEF StringCharacter, Finished
<1>13. CASE EndString
  <2>1. offset < Len(text)
    BY <1>13 DEF EndString, current, At
  <2> QED
    BY <1>13, <2>1 DEF EndString, Return, Returns
<1> QED
  BY <1>1, <1>2, <1>3, <1>4, <1>5, <1>6, <1>7, <1>8, <1>9, <1>10, <1>11, <1>12, <1>13 DEF Next

LEMMA MovesToPlace ==
    ASSUME TypeOK, Placed, Moves
    PROVE  position' = Place(text, offset') /\ LastNewline(text, offset') \in Nat
<1> USE TextIsFinite DEF Placed
<1>1. CASE Stay
  BY <1>1 DEF Stay
<1>2. CASE offset < Len(text) /\ AdvanceOne
  <2>1. current = text[offset + 1]
    BY <1>2 DEF current, At
  <2> QED
    BY <1>2, <2>1, PlaceStep DEF AdvanceOne
<1>3. CASE offset + 1 < Len(text) /\ AdvanceTwo
  <2>1. current = text[offset + 1] /\ At(offset + 1) = text[(offset + 1) + 1]
    BY <1>3 DEF current, At
  <2>2. /\ Place(text, offset + 1) = Forward(position, current)
        /\ LastNewline(text, offset + 1) \in Nat
    BY <2>1, PlaceStep
  <2>3. /\ Place(text, (offset + 1) + 1) = Forward(Place(text, offset + 1), At(offset + 1))
        /\ LastNewline(text, (offset + 1) + 1) \in Nat
    <3>1. PICK i \in Nat : i = offset + 1
      OBVIOUS
    <3>2. LastNewline(text, i) \in Nat
      BY <2>2, <3>1
    <3>3. At(i) = text[i + 1]
      BY <2>1, <3>1
    <3>4. /\ Place(text, i + 1) = Forward(Place(text, i), text[i + 1])
          /\ LastNewline(text, i + 1) \in Nat
      BY <3>2, PlaceStep
    <3> QED
      BY <3>1, <3>3, <3>4
  <2>4. offset' = (offset + 1) + 1
    BY <1>3 DEF AdvanceTwo
  <2> QED
    BY <1>3, <2>2, <2>3, <2>4 DEF AdvanceTwo
<1> QED
  BY <1>1, <1>2, <1>3 DEF Moves

(* A token that is returned ends where the lexer stands. *)
LEMMA TokenIsPlaced ==
    ASSUME TypeOK, Placed, Moves, NEW type, NEW from \in {start, Here}
    PROVE  LET token == Token(type, from, Here') IN
           /\ token.start = Place(text, token.offset)
           /\ token.stop = Place(text, token.offset + token.length)
<1>1. from.position = Place(text, from.offset) /\ from.offset \in Nat
  <2>1. CASE from = start
    <3>1. Len(text) \in Nat /\ start.offset \in 0 .. Len(text)
      BY TextIsFinite DEF TypeOK
    <3> QED
      BY <2>1, <3>1 DEF Placed
  <2>2. CASE from = Here
    BY <2>2, TextIsFinite DEF Placed, Here
  <2> QED
    BY <2>1, <2>2
<1>2. offset' \in Nat
  BY TextIsFinite DEF Moves, Stay, AdvanceOne, AdvanceTwo
<1>3. from.offset + (offset' - from.offset) = offset'
  BY <1>1, <1>2
<1>4. position' = Place(text, offset')
  BY MovesToPlace
<1> QED
  BY <1>1, <1>3, <1>4 DEF Token, Here

LEMMA InitPlaced == Init => Placed
BY PlaceOfOrigin DEF Init, Placed

LEMMA NextPlaced == IInv /\ Placed /\ [Next]_vars => Placed'
<1> SUFFICES ASSUME IInv, Placed, [Next]_vars PROVE Placed'
  OBVIOUS
<1>1. TypeOK
  BY DEF IInv
<1>2. CASE UNCHANGED vars
  BY <1>2 DEF vars, Placed
<1>3. CASE Next
  <2>1. Places
    BY <1>1, <1>3, NextPlaces
  <2>2. text' = text
    BY <2>1 DEF Places
  <2>3. position' = Place(text, offset') /\ LastNewline(text, offset') \in Nat
    BY <1>1, <2>1, MovesToPlace DEF Places
  <2>4. start'.position = Place(text, start'.offset)
    BY <2>1 DEF Places, Placed, Here
  <2>5. \A k \in DOMAIN tokens' :
            /\ tokens'[k].start = Place(text, tokens'[k].offset)
            /\ tokens'[k].stop = Place(text, tokens'[k].offset + tokens'[k].length)
    <3>1. CASE tokens' = tokens
      BY <3>1 DEF Placed
    <3>2. CASE Returns
      <4>0. PICK type : \E from \in {start, Here} :
                            tokens' = Append(tokens, Token(type, from, Here'))
        BY <3>2, Zenon DEF Returns
      <4>1. PICK from \in {start, Here} : tokens' = Append(tokens, Token(type, from, Here'))
        BY <4>0, Zenon
      <4>2. PICK token : token = Token(type, from, Here')
        OBVIOUS
      <4>3. /\ token.start = Place(text, token.offset)
            /\ token.stop = Place(text, token.offset + token.length)
        BY <1>1, <2>1, <4>2, TokenIsPlaced DEF Places
      <4>4. PICK n \in Nat : n = Len(tokens) /\ DOMAIN tokens = 1 .. n
        BY <1>1, LenProperties DEF TypeOK
      <4>5. /\ DOMAIN tokens' = 1 .. n + 1
            /\ \A k \in 1 .. n : tokens'[k] = tokens[k]
            /\ tokens'[n + 1] = token
        <5>1. PICK kind : tokens \in Seq(kind)
          BY <1>1 DEF TypeOK
        <5>2. tokens \in Seq(kind \cup {token})
          BY <5>1, SeqMonotonic
        <5> QED
          BY <4>1, <4>2, <4>4, <5>2, AppendProperties, LenProperties
      <4>6. \A k \in 1 .. n + 1 : k \in 1 .. n \/ k = n + 1
        BY <4>4
      <4> QED
        BY <4>3, <4>4, <4>5, <4>6 DEF Placed
    <3> QED
      BY <2>1, <3>1, <3>2 DEF Places
  <2> QED
    BY <2>2, <2>3, <2>4, <2>5 DEF Placed
<1> QED
  BY <1>2, <1>3

(* Every position the lexer is at, or puts into a token, is the one an     *)
(* editor that splits the text at its newlines would name.                 *)
THEOREM PositionsStayAgreed == Spec => []PositionsAgree
<1>1. Init => Placed
  BY InitPlaced
<1>2. IInv /\ Placed /\ [Next]_vars => Placed'
  BY NextPlaced
<1>3. Placed => PositionsAgree
  BY PlacedMeansAgree
<1> QED
  BY <1>1, <1>2, <1>3, Inductive, PTL DEF Spec

-----------------------------------------------------------------------------
(* The functions that say what a text means, as equations.  They hold of   *)
(* the text alone, whatever has been read of it.                           *)
Char(t, i)      == IF i < Len(t) THEN t[i + 1] ELSE "end"
Two(t, i, a, b) == Char(t, i) = a /\ Char(t, i + 1) = b
CommentsOf(t, ends) ==
    \A i \in 0 .. Len(t) : \A d \in Nat :
        /\ d = 0 \/ i = Len(t) => ends[i][d] = i
        /\ d # 0 /\ i # Len(t) =>
              /\ Two(t, i, "star", "slash") => ends[i][d] = ends[i + 2][d - 1]
              /\ Two(t, i, "slash", "star") => ends[i][d] = ends[i + 2][d + 1]
              /\ ~Two(t, i, "star", "slash") /\ ~Two(t, i, "slash", "star")
                    => ends[i][d] = ends[i + 1][d]
LineStop(t, i, e) ==
    /\ e \in i .. Len(t) /\ Char(t, e) \in {"newline", "end"}
    /\ \A j \in i .. e - 1 : Char(t, j) # "newline"
BlanksOf(t, ends, blank) ==
    \A i \in 0 .. Len(t) :
        /\ Char(t, i) \in Whitespace => blank[i] = blank[i + 1]
        /\ Two(t, i, "slash", "slash") =>
              \A e \in i .. Len(t) : LineStop(t, i, e) => blank[i] = blank[e]
        /\ Two(t, i, "slash", "star") => blank[i] = blank[ends[i + 2][1]]
        /\ ~(Char(t, i) \in Whitespace)
           /\ ~Two(t, i, "slash", "slash") /\ ~Two(t, i, "slash", "star") => blank[i] = i

(* At is Char of the text that is read. *)
LEMMA CharsAreAt == \A i : At(i) = Char(text, i)
BY DEF At, Char

LEMMA CharIsInside ==
    ASSUME TypeOK, NEW i \in 0 .. Len(text)
    PROVE  /\ i = Len(text) => Char(text, i) = "end"
           /\ Char(text, i) # "end" => i + 1 \in 0 .. Len(text)
           /\ \A a, b : Two(text, i, a, b) /\ a # "end" /\ b # "end"
                           => i + 1 \in 0 .. Len(text) /\ i + 2 \in 0 .. Len(text)
<1>1. Len(text) \in Nat
  BY TextIsFinite
<1>2. \A j \in Nat : Char(text, j) # "end" => j < Len(text)
  BY DEF Char
<1>3. i = Len(text) => Char(text, i) = "end"
  BY <1>1 DEF Char
<1>4. ASSUME NEW a, NEW b, Two(text, i, a, b), a # "end", b # "end"
      PROVE  i + 1 < Len(text)
  BY <1>1, <1>2, <1>4 DEF Two
<1>5. Char(text, i) # "end" => i + 1 \in 0 .. Len(text)
  BY <1>1, <1>3
<1>6. i + 1 < Len(text) => i + 1 \in 0 .. Len(text) /\ i + 2 \in 0 .. Len(text)
  BY <1>1
<1> QED
  BY <1>3, <1>4, <1>5, <1>6

Nesting(t, i, d, ends) ==
    IF d = 0 \/ i = Len(t) THEN i
    ELSE CASE Two(t, i, "star", "slash") -> ends[i + 2][d - 1]
           [] Two(t, i, "slash", "star") -> ends[i + 2][d + 1]
           [] OTHER -> ends[i + 1][d]

(* CommentEnd solves its equation: a comment is made of what is behind it. *)
LEMMA CommentEndIsNested ==
    ASSUME TypeOK
    PROVE  CommentEnd = [i \in 0 .. Len(text) |-> [d \in Nat |-> Nesting(text, i, d, CommentEnd)]]
<1> DEFINE n == Len(text)
           S == [Nat -> 0 .. n]
           value == [i \in 0 .. n |-> [g \in [0 .. n -> S] |->
                        [d \in Nat |-> Nesting(text, i, d, g)]]]
           Body(i, d, f) ==
               IF d = 0 \/ i = Len(text) THEN i
               ELSE CASE At(i) = "star" /\ At(i + 1) = "slash" -> f[i + 2][d - 1]
                      [] At(i) = "slash" /\ At(i + 1) = "star" -> f[i + 2][d + 1]
                      [] OTHER -> f[i + 1][d]
           Solution(f) == f = [i \in 0 .. Len(text) |-> [d \in Nat |-> Body(i, d, f)]]
<1>1. n \in Nat
  BY TextIsFinite
<1>2. PICK zero \in S : TRUE
  <2>1. [d \in Nat |-> 0] \in S
    BY <1>1
  <2> QED
    BY <2>1
<1>3. ASSUME NEW i \in 0 .. n, NEW g \in [0 .. n -> S]
      PROVE  /\ value[i][g] = [d \in Nat |-> Nesting(text, i, d, g)]
             /\ value[i][g] \in S
  <2>1. value[i][g] = [d \in Nat |-> Nesting(text, i, d, g)]
    OBVIOUS
  <2>2. ASSUME NEW d \in Nat PROVE Nesting(text, i, d, g) \in 0 .. n
    <3>1. CASE d = 0 \/ i = n
      BY <3>1 DEF Nesting
    <3>2. CASE ~(d = 0 \/ i = n)
      <4>1. i + 1 \in 0 .. n /\ d - 1 \in Nat /\ d + 1 \in Nat
        BY <1>1, <3>2
      <4>2. g[i + 1][d] \in 0 .. n
        BY <4>1
      <4>3. Two(text, i, "star", "slash") \/ Two(text, i, "slash", "star") => i + 2 \in 0 .. n
        BY CharIsInside
      <4>4. i + 2 \in 0 .. n => g[i + 2][d - 1] \in 0 .. n /\ g[i + 2][d + 1] \in 0 .. n
        BY <4>1
      <4> QED
        BY <3>2, <4>2, <4>3, <4>4 DEF Nesting
    <3> QED
      BY <3>1, <3>2
  <2> QED
    BY <2>1, <2>2
<1>4. ASSUME NEW i \in 0 .. n, NEW g \in [0 .. n -> S], NEW h \in [0 .. n -> S],
             \A j \in i + 1 .. n : g[j] = h[j]
      PROVE  value[i][g] = value[i][h]
  <2>1. ASSUME NEW d \in Nat PROVE Nesting(text, i, d, g) = Nesting(text, i, d, h)
    <3>1. CASE d = 0 \/ i = n
      BY <3>1 DEF Nesting
    <3>2. CASE ~(d = 0 \/ i = n)
      <4>1. i + 1 \in i + 1 .. n
        BY <1>1, <3>2
      <4>2. Two(text, i, "star", "slash") \/ Two(text, i, "slash", "star") => i + 2 \in 0 .. n
        BY CharIsInside
      <4>3. i + 2 \in 0 .. n => i + 2 \in i + 1 .. n
        BY <1>1
      <4>4. g[i + 1] = h[i + 1] /\ (i + 2 \in 0 .. n => g[i + 2] = h[i + 2])
        BY <1>4, <4>1, <4>3
      <4> QED
        <5>1. CASE Two(text, i, "star", "slash")
          <6>1. Nesting(text, i, d, g) = g[i + 2][d - 1] /\ Nesting(text, i, d, h) = h[i + 2][d - 1]
            BY <3>2, <5>1 DEF Nesting, Two
          <6> QED
            BY <4>2, <4>4, <5>1, <6>1
        <5>2. CASE Two(text, i, "slash", "star")
          <6>1. Nesting(text, i, d, g) = g[i + 2][d + 1] /\ Nesting(text, i, d, h) = h[i + 2][d + 1]
            BY <3>2, <5>2 DEF Nesting, Two
          <6> QED
            BY <4>2, <4>4, <5>2, <6>1
        <5>3. CASE ~Two(text, i, "star", "slash") /\ ~Two(text, i, "slash", "star")
          <6>1. Nesting(text, i, d, g) = g[i + 1][d] /\ Nesting(text, i, d, h) = h[i + 1][d]
            BY <3>2, <5>3 DEF Nesting
          <6> QED
            BY <4>4, <6>1
        <5> QED
          BY <5>1, <5>2, <5>3
    <3> QED
      BY <3>1, <3>2
  <2> QED
    BY <1>3, <2>1
<1>5. PICK f \in [0 .. n -> S] : \A i \in 0 .. n : f[i] = value[i][f]
  <2> HIDE DEF n, S, value
  <2>1. LooksAhead(n, S, value)
    <3> SUFFICES ASSUME NEW i \in 0 .. n, NEW g \in [0 .. n -> S], NEW h \in [0 .. n -> S]
                 PROVE  /\ value[i][g] \in S
                        /\ (\A j \in i + 1 .. n : g[j] = h[j]) => value[i][g] = value[i][h]
      BY DEF LooksAhead
    <3> QED
      BY <1>3, <1>4
  <2> QED
    BY <1>1, <1>2, <2>1, DefinedFromEnd
<1>6. \A g : Solution(g) <=> g = [i \in 0 .. n |-> [d \in Nat |-> Nesting(text, i, d, g)]]
  <2>1. \A g, i, d : Body(i, d, g) = Nesting(text, i, d, g)
    BY CharsAreAt, Zenon DEF Nesting, Two
  <2> HIDE DEF Body
  <2> QED
    BY <2>1
<1>7. Solution(f)
  <2>1. f = [i \in 0 .. n |-> [d \in Nat |-> Nesting(text, i, d, f)]]
    BY <1>3, <1>5
  <2> QED
    BY <1>6, <2>1
<1>8. CommentEnd = CHOOSE g : Solution(g)
  BY DEF CommentEnd
<1>9. Solution(CommentEnd)
  <2> HIDE DEF Solution
  <2> QED
    BY <1>7, <1>8
<1> QED
  BY <1>6, <1>9

(* CommentEnd, case by case. *)
LEMMA CommentsEnd == TypeOK => CommentsOf(text, CommentEnd)
<1> SUFFICES ASSUME TypeOK, NEW i \in 0 .. Len(text), NEW d \in Nat
             PROVE  /\ d = 0 \/ i = Len(text) => CommentEnd[i][d] = i
                    /\ d # 0 /\ i # Len(text) =>
                          /\ Two(text, i, "star", "slash") => CommentEnd[i][d] = CommentEnd[i + 2][d - 1]
                          /\ Two(text, i, "slash", "star") => CommentEnd[i][d] = CommentEnd[i + 2][d + 1]
                          /\ ~Two(text, i, "star", "slash") /\ ~Two(text, i, "slash", "star")
                                => CommentEnd[i][d] = CommentEnd[i + 1][d]
  BY DEF CommentsOf
<1>1. CommentEnd[i][d] = Nesting(text, i, d, CommentEnd)
  BY CommentEndIsNested
<1>2. CASE d = 0 \/ i = Len(text)
  BY <1>1, <1>2 DEF Nesting
<1>3. CASE d # 0 /\ i # Len(text)
  <2>1. CASE Two(text, i, "star", "slash")
    BY <1>1, <1>3, <2>1 DEF Nesting, Two
  <2>2. CASE Two(text, i, "slash", "star")
    BY <1>1, <1>3, <2>2 DEF Nesting, Two
  <2>3. CASE ~Two(text, i, "star", "slash") /\ ~Two(text, i, "slash", "star")
    BY <1>1, <1>3, <2>3 DEF Nesting
  <2> QED
    BY <2>1, <2>2, <2>3 DEF Two
<1> QED
  BY <1>2, <1>3

(* A comment ends where it begins or later. *)
LEMMA CommentsGoOn ==
    ASSUME TypeOK, NEW ends, CommentsOf(text, ends)
    PROVE  \A i \in 0 .. Len(text) : \A d \in Nat : ends[i][d] \in i .. Len(text)
<1> DEFINE n == Len(text)
           Wrong == {k \in 0 .. n : \E d \in Nat : ends[n - k][d] \notin n - k .. n}
<1>0. n \in Nat
  BY TextIsFinite
<1>1. ASSUME NEW k \in Wrong, \A l \in Wrong : k <= l
      PROVE  FALSE
  <2>1. PICK i \in 0 .. n : i = n - k
    BY <1>0
  <2>2. PICK d \in Nat : ends[i][d] \notin i .. n
    BY <2>1
  <2>3. ASSUME NEW j \in i + 1 .. n
        PROVE  \A e \in Nat : ends[j][e] \in j .. n
    <3>1. n - j \in 0 .. n /\ ~(k <= n - j) /\ n - (n - j) = j
      BY <1>0, <2>1
    <3>2. n - j \notin Wrong
      BY <1>1, <3>1
    <3> QED
      BY <3>1, <3>2
  <2>4. d # 0 /\ i # n
    BY <1>0, <2>2 DEF CommentsOf
  <2>5. i + 1 \in i + 1 .. n /\ d - 1 \in Nat /\ d + 1 \in Nat
    BY <1>0, <2>4
  <2>6. CASE Two(text, i, "star", "slash") \/ Two(text, i, "slash", "star")
    <3>1. i + 2 \in 0 .. n
      BY <2>6, CharIsInside
    <3>2. i + 2 \in i + 1 .. n
      BY <1>0, <3>1
    <3>3. \A e \in Nat : ends[i + 2][e] \in i + 2 .. n
      BY <2>3, <3>2
    <3>4. ends[i][d] = ends[i + 2][d - 1] \/ ends[i][d] = ends[i + 2][d + 1]
      BY <2>4, <2>6 DEF CommentsOf
    <3>5. ends[i][d] \in i + 2 .. n
      BY <2>5, <3>3, <3>4
    <3> QED
      BY <1>0, <2>2, <3>5
  <2>7. CASE ~Two(text, i, "star", "slash") /\ ~Two(text, i, "slash", "star")
    <3>1. ends[i][d] = ends[i + 1][d]
      BY <2>4, <2>7 DEF CommentsOf
    <3>2. ends[i][d] \in i + 1 .. n
      BY <2>3, <2>5, <3>1
    <3> QED
      BY <1>0, <2>2, <3>2
  <2> QED
    BY <2>6, <2>7
<1>2. Wrong = {}
  <2>1. Wrong \subseteq Nat
    BY <1>0
  <2> HIDE DEF Wrong
  <2> QED
    BY <1>1, <2>1, LeastNumber
<1>3. ASSUME NEW i \in 0 .. n, NEW d \in Nat
      PROVE  ends[i][d] \in i .. n
  <2>1. n - i \in 0 .. n /\ n - (n - i) = i
    BY <1>0
  <2>2. n - i \notin Wrong
    BY <1>2
  <2> QED
    BY <2>1, <2>2
<1> QED
  BY <1>3

(* A line ends at one place. *)
LEMMA LinesStop ==
    ASSUME TypeOK, NEW i \in 0 .. Len(text)
    PROVE  /\ \E e \in i .. Len(text) : LineStop(text, i, e)
           /\ \A e, f \in i .. Len(text) : LineStop(text, i, e) /\ LineStop(text, i, f) => e = f
           /\ LineStop(text, i, LineEnd(i))
<1> DEFINE Stops == {e \in i .. Len(text) : Char(text, e) \in {"newline", "end"}}
<1>0. Len(text) \in Nat
  BY TextIsFinite
<1>1. \E e \in i .. Len(text) : LineStop(text, i, e)
  <2>1. Len(text) \in Stops /\ Stops \subseteq Nat
    BY <1>0, CharIsInside
  <2>2. PICK e \in Stops : \A f \in Stops : e <= f
    BY <2>1, LeastNumber
  <2>3. ASSUME NEW j \in i .. e - 1 PROVE Char(text, j) # "newline"
    BY <1>0, <2>1, <2>2
  <2> QED
    BY <2>2, <2>3 DEF LineStop
<1>2. ASSUME NEW e \in i .. Len(text), NEW f \in i .. Len(text), e < f,
             LineStop(text, i, e), LineStop(text, i, f)
      PROVE  FALSE
  <2>1. e \in i .. f - 1 /\ e # Len(text) /\ e + 1 <= Len(text)
    BY <1>0, <1>2
  <2>2. e \in 0 .. Len(text) /\ e < Len(text)
    BY <1>0, <2>1
  <2>3. Char(text, e) # "newline" /\ Char(text, e) = "end"
    BY <1>2, <2>1 DEF LineStop
  <2>4. Char(text, e) \in Characters
    BY <2>2, CharactersAreClasses, CharsAreAt
  <2> QED
    BY <2>3, <2>4, CharactersAssumption DEF Valid, Name, NameHead, Operator, Whitespace, Simple
<1>3. ASSUME NEW e \in i .. Len(text), NEW f \in i .. Len(text),
             LineStop(text, i, e), LineStop(text, i, f)
      PROVE  e = f
  BY <1>0, <1>2, <1>3
<1>4. LineStop(text, i, LineEnd(i))
  <2>1. \A e \in i .. Len(text) : LineStop(text, i, e) <=>
            /\ At(e) \in {"newline", "end"} /\ \A j \in i .. e - 1 : At(j) # "newline"
    BY CharsAreAt DEF LineStop
  <2>2. \E e \in i .. Len(text) :
            /\ At(e) \in {"newline", "end"} /\ \A j \in i .. e - 1 : At(j) # "newline"
    BY <1>1, <2>1
  <2>3. LineEnd(i) \in i .. Len(text) /\ At(LineEnd(i)) \in {"newline", "end"}
        /\ \A j \in i .. LineEnd(i) - 1 : At(j) # "newline"
    BY <2>2 DEF LineEnd
  <2> QED
    BY <2>1, <2>3
<1> QED
  BY <1>1, <1>3, <1>4

Skipping(t, i, ends, stop, blank) ==
    CASE Char(t, i) \in Whitespace -> blank[i + 1]
      [] Two(t, i, "slash", "slash") -> blank[stop]
      [] Two(t, i, "slash", "star") -> blank[ends[i + 2][1]]
      [] OTHER -> i

(* What is skipped from a place on ends behind it. *)
LEMMA SkippingGoesOn ==
    ASSUME TypeOK, NEW i \in 0 .. Len(text), NEW ends, CommentsOf(text, ends)
    PROVE  /\ Char(text, i) \in Whitespace => i + 1 \in i + 1 .. Len(text)
           /\ Two(text, i, "slash", "slash") => LineEnd(i) \in i + 1 .. Len(text)
           /\ Two(text, i, "slash", "star") => ends[i + 2][1] \in i + 1 .. Len(text)
<1>0. Len(text) \in Nat
  BY TextIsFinite
<1>1. Char(text, i) \in Whitespace => i + 1 \in i + 1 .. Len(text)
  BY <1>0, CharIsInside DEF Whitespace
<1>2. ASSUME Two(text, i, "slash", "slash") PROVE LineEnd(i) \in i + 1 .. Len(text)
  <2>1. PICK e : e = LineEnd(i)
    OBVIOUS
  <2>2. e \in i .. Len(text) /\ Char(text, e) \in {"newline", "end"}
    BY <2>1, LinesStop DEF LineStop
  <2>3. e # i
    BY <1>2, <2>2 DEF Two
  <2> QED
    BY <1>0, <2>1, <2>2, <2>3
<1>3. ASSUME Two(text, i, "slash", "star") PROVE ends[i + 2][1] \in i + 1 .. Len(text)
  <2>1. i + 2 \in 0 .. Len(text)
    BY <1>3, CharIsInside
  <2>2. ends[i + 2][1] \in i + 2 .. Len(text)
    BY <2>1, CommentsGoOn
  <2> QED
    BY <1>0, <2>2
<1> QED
  BY <1>1, <1>2, <1>3

(* BlankEnd solves its equation. *)
LEMMA BlankEndSkips ==
    ASSUME TypeOK
    PROVE  BlankEnd = [i \in 0 .. Len(text) |-> Skipping(text, i, CommentEnd, LineEnd(i), BlankEnd)]
<1> DEFINE n == Len(text)
           S == 0 .. n
           value == [i \in 0 .. n |-> [g \in [0 .. n -> S] |->
                        Skipping(text, i, CommentEnd, LineEnd(i), g)]]
           Body(i, f) ==
               CASE At(i) \in Whitespace -> f[i + 1]
                 [] At(i) = "slash" /\ At(i + 1) = "slash" -> f[LineEnd(i)]
                 [] At(i) = "slash" /\ At(i + 1) = "star" -> f[CommentEnd[i + 2][1]]
                 [] OTHER -> i
           Solution(f) == f = [i \in 0 .. Len(text) |-> Body(i, f)]
<1>1. n \in Nat
  BY TextIsFinite
<1>2. PICK zero \in S : TRUE
  <2>1. 0 \in S
    BY <1>1
  <2> QED
    BY <2>1
<1>3. ASSUME NEW i \in 0 .. n, NEW g \in [0 .. n -> S], NEW h \in [0 .. n -> S]
      PROVE  /\ value[i][g] \in S
             /\ (\A j \in i + 1 .. n : g[j] = h[j]) => value[i][g] = value[i][h]
  <2>1. /\ value[i][g] = Skipping(text, i, CommentEnd, LineEnd(i), g)
        /\ value[i][h] = Skipping(text, i, CommentEnd, LineEnd(i), h)
    OBVIOUS
  <2>2. /\ Char(text, i) \in Whitespace => i + 1 \in i + 1 .. n
        /\ Two(text, i, "slash", "slash") => LineEnd(i) \in i + 1 .. n
        /\ Two(text, i, "slash", "star") => CommentEnd[i + 2][1] \in i + 1 .. n
    BY SkippingGoesOn, CommentsEnd
  <2>3. \A k \in i + 1 .. n : k \in 0 .. n
    OBVIOUS
  <2>4. PICK stop, end : stop = LineEnd(i) /\ end = CommentEnd[i + 2][1]
    OBVIOUS
  <2>5. CASE Char(text, i) \in Whitespace
    <3>1. value[i][g] = g[i + 1] /\ value[i][h] = h[i + 1]
      BY <2>1, <2>5 DEF Skipping, Two, Whitespace
    <3> QED
      BY <2>2, <2>3, <2>5, <3>1
  <2>6. CASE Two(text, i, "slash", "slash")
    <3>1. value[i][g] = g[stop] /\ value[i][h] = h[stop]
      BY <2>1, <2>4, <2>6 DEF Skipping, Two, Whitespace
    <3> QED
      BY <2>2, <2>3, <2>4, <2>6, <3>1
  <2>7. CASE Two(text, i, "slash", "star")
    <3>1. value[i][g] = g[end] /\ value[i][h] = h[end]
      BY <2>1, <2>4, <2>7 DEF Skipping, Two, Whitespace
    <3> QED
      BY <2>2, <2>3, <2>4, <2>7, <3>1
  <2>8. CASE ~(Char(text, i) \in Whitespace) /\ ~Two(text, i, "slash", "slash") /\ ~Two(text, i, "slash", "star")
    <3>1. value[i][g] = i /\ value[i][h] = i
      BY <2>1, <2>8 DEF Skipping
    <3> QED
      BY <3>1
  <2> QED
    BY <2>5, <2>6, <2>7, <2>8
<1>4. PICK f \in [0 .. n -> S] : \A i \in 0 .. n : f[i] = value[i][f]
  <2> HIDE DEF n, S, value
  <2>1. LooksAhead(n, S, value)
    BY <1>3 DEF LooksAhead
  <2> QED
    BY <1>1, <1>2, <2>1, DefinedFromEnd
<1>5. \A g : Solution(g) <=> g = [i \in 0 .. n |-> Skipping(text, i, CommentEnd, LineEnd(i), g)]
  <2>1. \A g, i : Body(i, g) = Skipping(text, i, CommentEnd, LineEnd(i), g)
    BY CharsAreAt, Zenon DEF Skipping, Two
  <2> HIDE DEF Body
  <2> QED
    BY <2>1
<1>6. Solution(f)
  <2>1. f = [i \in 0 .. n |-> Skipping(text, i, CommentEnd, LineEnd(i), f)]
    BY <1>4
  <2> QED
    BY <1>5, <2>1
<1>7. BlankEnd = CHOOSE g : Solution(g)
  BY DEF BlankEnd
<1>8. Solution(BlankEnd)
  <2> HIDE DEF Solution
  <2> QED
    BY <1>6, <1>7
<1> QED
  BY <1>5, <1>8

(* BlankEnd, case by case. *)
LEMMA BlanksEnd == TypeOK => BlanksOf(text, CommentEnd, BlankEnd)
<1> SUFFICES ASSUME TypeOK, NEW i \in 0 .. Len(text)
             PROVE  /\ Char(text, i) \in Whitespace => BlankEnd[i] = BlankEnd[i + 1]
                    /\ Two(text, i, "slash", "slash") =>
                          \A e \in i .. Len(text) : LineStop(text, i, e) => BlankEnd[i] = BlankEnd[e]
                    /\ Two(text, i, "slash", "star") => BlankEnd[i] = BlankEnd[CommentEnd[i + 2][1]]
                    /\ ~(Char(text, i) \in Whitespace)
                       /\ ~Two(text, i, "slash", "slash") /\ ~Two(text, i, "slash", "star")
                          => BlankEnd[i] = i
  BY DEF BlanksOf
<1>1. PICK stop, end : stop = LineEnd(i) /\ end = CommentEnd[i + 2][1]
  OBVIOUS
<1>2. BlankEnd[i] = Skipping(text, i, CommentEnd, stop, BlankEnd)
  BY <1>1, BlankEndSkips
<1>3. CASE Char(text, i) \in Whitespace
  BY <1>2, <1>3 DEF Skipping, Two, Whitespace
<1>4. CASE Two(text, i, "slash", "slash")
  <2>1. BlankEnd[i] = BlankEnd[stop]
    BY <1>2, <1>4 DEF Skipping, Two, Whitespace
  <2>2. \A e \in i .. Len(text) : LineStop(text, i, e) => e = stop
    <3>1. stop \in i .. Len(text) /\ LineStop(text, i, stop)
      BY <1>1, LinesStop DEF LineStop
    <3> QED
      BY <3>1, LinesStop
  <2> QED
    BY <1>4, <2>1, <2>2 DEF Two, Whitespace
<1>5. CASE Two(text, i, "slash", "star")
  <2>1. BlankEnd[i] = BlankEnd[end]
    BY <1>1, <1>2, <1>5 DEF Skipping, Two, Whitespace
  <2> QED
    BY <1>1, <1>5, <2>1 DEF Two, Whitespace
<1>6. CASE ~(Char(text, i) \in Whitespace) /\ ~Two(text, i, "slash", "slash") /\ ~Two(text, i, "slash", "star")
  BY <1>2, <1>6 DEF Skipping
<1> QED
  BY <1>3, <1>4, <1>5, <1>6

(* Between the end of one token and the beginning of the next are only     *)
(* blanks, and what is being skipped is what remains of them.              *)
Finish(some, k) == IF k = 0 THEN 0 ELSE some[k].offset + some[k].length
Since(blank)    == blank[Finish(tokens, Len(tokens))]
Apart(blank)    == \A k \in DOMAIN tokens : tokens[k].offset = blank[Finish(tokens, k - 1)]
Skips(ends, blank) ==
    /\ mode = "blank" => Since(blank) = blank[offset]
    /\ mode = "line comment" => \A e \in offset .. Len(text) :
           LineStop(text, offset, e) => Since(blank) = blank[e]
    /\ mode = "block comment" => Since(blank) = blank[ends[offset][depth]]
    /\ InToken => Since(blank) = start.offset
Gaps == \A ends, blank : CommentsOf(text, ends) /\ BlanksOf(text, ends, blank)
                            => Apart(blank) /\ Skips(ends, blank)

(* Where the last token ended does not change when none is returned. *)
LEMMA SinceStays ==
    ASSUME NEW ends, NEW blank, Apart(blank), tokens' = tokens
    PROVE  Apart(blank)' /\ Since(blank)' = Since(blank)
BY DEF Apart, Since, Finish

(* A sequence and one more token. *)
LEMMA OneMore ==
    ASSUME NEW some \in Seq(TokenType), NEW token \in TokenType
    PROVE  \E n \in Nat : /\ n = Len(some) /\ DOMAIN some = 1 .. n
                          /\ Append(some, token) \in Seq(TokenType)
                          /\ Len(Append(some, token)) = n + 1
                          /\ DOMAIN Append(some, token) = 1 .. n + 1
                          /\ \A i \in 1 .. n : Append(some, token)[i] = some[i]
                          /\ Append(some, token)[n + 1] = token
<1>1. PICK n \in Nat : n = Len(some) /\ DOMAIN some = 1 .. n
  BY LenProperties
<1>2. PICK grown \in Seq(TokenType) :
         /\ grown = Append(some, token)
         /\ Len(grown) = n + 1
         /\ \A i \in 1 .. n : grown[i] = some[i]
         /\ grown[n + 1] = token
  BY <1>1, AppendProperties, Zenon
<1>3. DOMAIN grown = 1 .. n + 1
  BY <1>2, LenProperties
<1> QED
  BY <1>1, <1>2, <1>3

(* A token that is returned begins where the blanks end. *)
LEMMA AppendApart ==
    ASSUME IInv, NEW token \in TokenType, tokens' = Append(tokens, token),
           NEW ends, NEW blank, Apart(blank), Since(blank) = token.offset,
           token.offset + token.length = offset', mode' \in Ended
    PROVE  Apart(blank)' /\ Skips(ends, blank)'
<1>1. tokens \in Seq(TokenType)
  BY DEF IInv, TypeOK, TokenType
<1>2. PICK n \in Nat : /\ n = Len(tokens) /\ DOMAIN tokens = 1 .. n
                      /\ Append(tokens, token) \in Seq(TokenType)
                      /\ Len(Append(tokens, token)) = n + 1
                      /\ DOMAIN Append(tokens, token) = 1 .. n + 1
                      /\ \A i \in 1 .. n : Append(tokens, token)[i] = tokens[i]
                      /\ Append(tokens, token)[n + 1] = token
  BY <1>1, OneMore
<1>3. PICK grown : /\ grown = tokens' /\ grown[n + 1] = token /\ Len(grown) = n + 1
                   /\ DOMAIN grown = 1 .. n + 1
                   /\ \A i \in 1 .. n : grown[i] = tokens[i]
  BY <1>2
<1>4. DOMAIN grown = 1 .. n + 1
  BY <1>3
<1>5. \A k \in 0 .. n : Finish(grown, k) = Finish(tokens, k)
  BY <1>2, <1>3 DEF Finish
<1>6. ASSUME NEW k \in 1 .. n + 1
      PROVE  grown[k].offset = blank[Finish(grown, k - 1)]
  <2>1. CASE k = n + 1
    <3>1. grown[k] = token /\ k - 1 = n /\ n \in 0 .. n
      BY <1>3, <2>1
    <3>2. Finish(grown, k - 1) = Finish(tokens, n)
      BY <1>5, <3>1
    <3> QED
      BY <1>2, <3>1, <3>2 DEF Since
  <2>2. CASE k # n + 1
    <3>1. k \in 1 .. n /\ k - 1 \in 0 .. n
      BY <2>2
    <3>2. tokens[k].offset = blank[Finish(tokens, k - 1)]
      BY <1>2, <3>1 DEF Apart
    <3> QED
      BY <1>3, <1>5, <3>1, <3>2
  <2> QED
    BY <2>1, <2>2
<1>7. Finish(grown, n + 1) = offset' /\ Len(grown) = n + 1
  <2>1. n + 1 # 0
    BY <1>2
  <2> QED
    BY <1>3, <2>1 DEF Finish
<1>8. Apart(blank)'
  BY <1>3, <1>4, <1>6 DEF Apart
<1>9. Since(blank)' = blank[offset']
  BY <1>3, <1>7 DEF Since
<1> QED
  BY <1>8, <1>9 DEF Skips, InToken, Ended

(* Blanks and comments, skipped one turn at a time, end where the text     *)
(* says.                                                                   *)
Meant(ends, blank) == CommentsOf(text, ends) /\ BlanksOf(text, ends, blank)

LEMMA SkipsBlanks ==
    ASSUME IInv, NEW ends, NEW blank, Meant(ends, blank), Skips(ends, blank), Apart(blank),
           Blank \/ BeginLineComment \/ LineComment
    PROVE  Apart(blank)' /\ Skips(ends, blank)'
<1>1. TypeOK
  BY DEF IInv
<1>2. offset \in 0 .. Len(text) /\ offset \in Nat /\ Len(text) \in Nat
  BY <1>1, TextIsFinite
<1>3. current = Char(text, offset) /\ At(offset + 1) = Char(text, offset + 1)
  BY CharsAreAt DEF current
<1>4. text' = text /\ tokens' = tokens /\ Apart(blank)' /\ Since(blank)' = Since(blank)
  BY SinceStays DEF Blank, BeginLineComment, LineComment
<1>5. CASE Blank
  <2>1. mode = "blank" /\ mode' = "blank" /\ offset' = offset + 1
    BY <1>5 DEF Blank, AdvanceOne
  <2>2. blank[offset] = blank[offset + 1]
    BY <1>2, <1>3, <1>5 DEF Blank, Meant, BlanksOf
  <2> QED
    BY <1>4, <2>1, <2>2 DEF Skips, InToken
<1>6. CASE BeginLineComment
  <2>1. mode = "blank" /\ mode' = "line comment" /\ offset' = offset + 2
    BY <1>6 DEF BeginLineComment, AdvanceTwo
  <2>2. Two(text, offset, "slash", "slash")
    BY <1>3, <1>6, CharsAreAt DEF BeginLineComment, Ahead, Two
  <2>3. ASSUME NEW e \in offset + 2 .. Len(text), LineStop(text, offset + 2, e)
        PROVE  Since(blank) = blank[e]
    <3>1. e \in offset .. Len(text)
      BY <1>2
    <3>2. ASSUME NEW j \in offset .. e - 1 PROVE Char(text, j) # "newline"
      <4>1. j = offset \/ j = offset + 1 \/ j \in offset + 2 .. e - 1
        BY <1>2
      <4> QED
        BY <2>2, <2>3, <4>1 DEF Two, LineStop
    <3>3. LineStop(text, offset, e)
      BY <2>3, <3>1, <3>2 DEF LineStop
    <3>4. blank[offset] = blank[e]
      BY <1>2, <2>2, <3>1, <3>3 DEF Meant, BlanksOf
    <3> QED
      BY <2>1, <3>4 DEF Skips
  <2> QED
    BY <1>4, <2>1, <2>3 DEF Skips, InToken
<1>7. CASE LineComment
  <2>1. CASE Finished \/ current = "newline"
    <3>1. mode = "line comment" /\ mode' = "blank" /\ offset' = offset
      BY <1>7, <2>1 DEF LineComment, Stay
    <3>2. Char(text, offset) \in {"newline", "end"}
      BY <1>1, <1>3, <2>1, EndHasNoCharacter
    <3>3. offset \in offset .. Len(text) /\ offset .. offset - 1 = {}
      BY <1>2
    <3>4. LineStop(text, offset, offset)
      BY <3>2, <3>3 DEF LineStop
    <3>5. Since(blank) = blank[offset]
      BY <3>1, <3>3, <3>4 DEF Skips
    <3> QED
      BY <1>4, <3>1, <3>5 DEF Skips, InToken
  <2>2. CASE ~Finished /\ current # "newline"
    <3>1. mode = "line comment" /\ mode' = "line comment" /\ offset' = offset + 1
      BY <1>7, <2>2 DEF LineComment, AdvanceOne
    <3>2. ASSUME NEW e \in offset + 1 .. Len(text), LineStop(text, offset + 1, e)
          PROVE  Since(blank) = blank[e]
      <4>1. e \in offset .. Len(text)
        BY <1>2
      <4>2. ASSUME NEW j \in offset .. e - 1 PROVE Char(text, j) # "newline"
        <5>1. j = offset \/ j \in offset + 1 .. e - 1
          BY <1>2
        <5> QED
          BY <1>3, <2>2, <3>2, <5>1 DEF LineStop
      <4>3. LineStop(text, offset, e)
        BY <3>2, <4>1, <4>2 DEF LineStop
      <4> QED
        BY <3>1, <4>1, <4>3 DEF Skips
    <3> QED
      BY <1>4, <3>1, <3>2 DEF Skips, InToken
  <2> QED
    BY <2>1, <2>2
<1> QED
  BY <1>5, <1>6, <1>7

(* A comment in a comment is skipped before the rest of the outer one. *)
LEMMA SkipsComments ==
    ASSUME IInv, NEW ends, NEW blank, Meant(ends, blank), Skips(ends, blank), Apart(blank),
           BeginBlockComment \/ CloseComment \/ OpenComment \/ BlockComment
    PROVE  Apart(blank)' /\ Skips(ends, blank)'
<1>1. TypeOK /\ CountsComments
  BY DEF IInv, TypeOK, CountsComments
<1>2. offset \in 0 .. Len(text) /\ offset \in Nat /\ Len(text) \in Nat
  BY <1>1, TextIsFinite
<1>3. \A a, b : Ahead(a, b) <=> Two(text, offset, a, b)
  BY CharsAreAt DEF Ahead, Two
<1>4. text' = text /\ tokens' = tokens /\ Apart(blank)' /\ Since(blank)' = Since(blank)
  BY SinceStays DEF BeginBlockComment, CloseComment, OpenComment, BlockComment
<1>5. CASE BeginBlockComment
  <2>1. mode = "blank" /\ mode' = "block comment" /\ offset' = offset + 2 /\ depth' = 1
    BY <1>5 DEF BeginBlockComment, AdvanceTwo
  <2>2. Two(text, offset, "slash", "star")
    BY <1>3, <1>5 DEF BeginBlockComment
  <2>3. blank[offset] = blank[ends[offset + 2][1]]
    BY <1>2, <2>2 DEF Meant, BlanksOf
  <2>4. Since(blank) = blank[ends[offset'][depth']]
    BY <2>1, <2>3 DEF Skips
  <2> QED
    BY <1>4, <2>1, <2>4 DEF Skips, InToken
<1>6. CASE ~BeginBlockComment
  <2>1. InComment /\ depth \in Nat /\ depth # 0
    <3>1. InComment
      BY <1>6 DEF InComment, CloseComment, OpenComment, BlockComment
    <3>2. depth \in Nat \ {0}
      BY <1>1, <3>1, CountIsPositive
    <3> QED
      BY <3>1, <3>2
  <2>2. Since(blank) = blank[ends[offset][depth]]
    BY <2>1 DEF Skips, InComment
  <2>3. CASE CloseComment
    <3>1. Two(text, offset, "star", "slash") /\ offset + 2 \in 0 .. Len(text)
          /\ offset' = offset + 2 /\ depth' = depth - 1
      BY <1>1, <1>2, <1>3, <2>3, CharIsInside DEF CloseComment, AdvanceTwo
    <3>2. ends[offset][depth] = ends[offset + 2][depth - 1]
      BY <1>1, <1>2, <2>1, <3>1, CharIsInside DEF Meant, CommentsOf, Two
    <3>3. CASE depth = 1
      <4>0. mode' = "blank"
        BY <2>3, <3>3 DEF CloseComment
      <4>1. mode' = "blank" /\ depth - 1 = 0
        BY <3>3, <4>0
      <4>2. ends[offset + 2][depth - 1] = offset + 2
        BY <3>1, <4>1 DEF Meant, CommentsOf
      <4>3. Since(blank) = blank[offset']
        BY <2>2, <3>1, <3>2, <4>2
      <4> QED
        BY <1>4, <4>1, <4>3 DEF Skips, InToken
    <3>4. CASE depth # 1
      <4>1. mode' = "block comment"
        BY <2>1, <2>3, <3>4 DEF CloseComment, InComment
      <4>2. Since(blank) = blank[ends[offset'][depth']]
        BY <2>2, <3>1, <3>2
      <4> QED
        BY <1>4, <4>1, <4>2 DEF Skips, InToken
    <3> QED
      BY <3>3, <3>4
  <2>4. CASE OpenComment
    <3>1. Two(text, offset, "slash", "star") /\ offset' = offset + 2 /\ depth' = depth + 1
          /\ mode' = "block comment"
      BY <1>3, <2>1, <2>4 DEF OpenComment, AdvanceTwo, InComment
    <3>2. ends[offset][depth] = ends[offset + 2][depth + 1]
      BY <1>1, <1>2, <2>1, <3>1, CharIsInside DEF Meant, CommentsOf, Two
    <3>3. Since(blank) = blank[ends[offset'][depth']]
      BY <2>2, <3>1, <3>2
    <3> QED
      BY <1>4, <3>1, <3>3 DEF Skips, InToken
  <2>5. CASE BlockComment
    <3>1. ~Two(text, offset, "slash", "star") /\ ~Two(text, offset, "star", "slash")
      BY <1>3, <2>5 DEF BlockComment
    <3>2. CASE Finished
      <4>1. mode' = "blank" /\ offset' = offset /\ offset = Len(text)
        BY <2>5, <3>2 DEF BlockComment, Stay, Finished
      <4>2. ends[offset][depth] = offset
        BY <1>2, <2>1, <4>1 DEF Meant, CommentsOf
      <4>3. Since(blank) = blank[offset']
        BY <2>2, <4>1, <4>2
      <4> QED
        BY <1>4, <4>1, <4>3 DEF Skips, InToken
    <3>3. CASE ~Finished
      <4>1. mode' = "block comment" /\ offset' = offset + 1 /\ offset # Len(text) /\ depth' = depth
        BY <2>1, <2>5, <3>3 DEF BlockComment, AdvanceOne, Finished, InComment
      <4>2. ends[offset][depth] = ends[offset + 1][depth]
        BY <1>2, <2>1, <3>1, <4>1 DEF Meant, CommentsOf
      <4>3. Since(blank) = blank[ends[offset'][depth']]
        BY <2>2, <4>1, <4>2
      <4> QED
        BY <1>4, <4>1, <4>3 DEF Skips, InToken
    <3> QED
      BY <3>2, <3>3
  <2> QED
    BY <1>6, <2>3, <2>4, <2>5
<1> QED
  BY <1>5, <1>6

(* Where a token begins there are no blanks. *)
LEMMA TokenHasNoBlanks ==
    ASSUME IInv, NEW ends, NEW blank, Meant(ends, blank), Skips(ends, blank), AtToken
    PROVE  Since(blank) = offset
<1>1. TypeOK
  BY DEF IInv
<1>2. offset \in 0 .. Len(text)
  BY <1>1, TextIsFinite
<1>3. current = Char(text, offset) /\ \A a, b : Ahead(a, b) <=> Two(text, offset, a, b)
  BY CharsAreAt DEF current, Ahead, Two
<1>4. blank[offset] = offset
  BY <1>2, <1>3 DEF Meant, BlanksOf, AtToken
<1> QED
  BY <1>4 DEF Skips, AtToken

(* What a step that returns a token does, whatever the token is. *)
Yields(token) ==
    /\ tokens' = Append(tokens, token) /\ token \in TokenType /\ text' = text
    /\ mode' \in Ended /\ token.offset + token.length = offset'

(* The end of input and the tokens of one character. *)
LEMMA AtOnce ==
    ASSUME IInv, EndOfInput \/ SimpleToken
    PROVE  \E token : /\ Yields(token) /\ token.offset = offset
                      /\ token.type \in Simple \cup {"end of input"} /\ AtToken
<1>1. TypeOK
  BY DEF IInv
<1>2. offset \in Nat /\ position \in Position
  BY <1>1, TextIsFinite DEF TypeOK
<1>3. CASE EndOfInput
  <2>1. PICK token : token = Token("end of input", Here, Here)
    OBVIOUS
  <2>2. token = [type |-> "end of input", offset |-> offset, length |-> 0,
                 start |-> position, stop |-> position]
    <3>1. offset - offset = 0
      BY <1>2
    <3> QED
      BY <2>1, <3>1 DEF Token, Here
  <2>3. token \in TokenType /\ token.offset + token.length = offset
    <3>1. offset + 0 = offset
      BY <1>2
    <3>2. token \in TokenType
      BY <1>2, <2>2 DEF TokenType, Types
    <3> QED
      BY <2>2, <3>1, <3>2
  <2>4. tokens' = Append(tokens, token) /\ offset' = offset /\ text' = text /\ mode' \in Ended /\ AtToken
    BY <1>3, <2>1 DEF EndOfInput, Ended
  <2>5. token.offset = offset /\ token.type = "end of input"
    BY <2>2
  <2> QED
    BY <2>3, <2>4, <2>5 DEF Yields
<1>4. CASE SimpleToken
  <2>1. ~Finished
    BY <1>1, <1>4, EndHasNoCharacter DEF SimpleToken, Simple
  <2>2. offset' = offset + 1 /\ position' \in Position
    BY <1>1, <1>4, <2>1, AdvanceOneStays DEF SimpleToken
  <2>3. PICK token : token = Token(current, Here, Here')
    OBVIOUS
  <2>4. token = [type |-> current, offset |-> offset, length |-> 1,
                 start |-> position, stop |-> position']
    BY <1>2, <2>2, <2>3 DEF Token, Here
  <2>5. token \in TokenType /\ token.offset + token.length = offset'
    BY <1>2, <1>4, <2>2, <2>4 DEF TokenType, Types, SimpleToken
  <2>6. tokens' = Append(tokens, token) /\ text' = text /\ mode' \in Ended /\ AtToken
    BY <1>4, <2>3 DEF SimpleToken, AtToken, Ended
  <2>7. token.offset = offset /\ token.type \in Simple
    BY <1>4, <2>4 DEF SimpleToken
  <2> QED
    BY <2>5, <2>6, <2>7 DEF Yields
<1> QED
  BY <1>3, <1>4

Returning == EndToken \/ EndString \/ UnterminatedString \/ (Escape /\ offset + 1 = Len(text))
Taking    == Consume \/ Fraction \/ StringCharacter \/ (Escape /\ offset + 1 # Len(text))
Returned  == IF EndToken THEN mode ELSE IF EndString THEN "string" ELSE "unterminated string"

(* A token that was begun is returned with the type that its mode says. *)
LEMMA InTheEnd ==
    ASSUME IInv, Returning
    PROVE  \E token : /\ Yields(token) /\ token.offset = start.offset
                      /\ token.type = Returned /\ InToken
<1>1. TypeOK
  BY DEF IInv
<1>2. PICK type \in ReturnedTypes :
         Return(type) /\ type = Returned /\ Reads /\ InToken /\ text' = text
  <2>1. CASE EndToken
    <3>1. Returned = mode /\ Return(mode) /\ InToken /\ mode \in ReturnedTypes /\ text' = text
      BY <2>1 DEF Returned, EndToken, InToken, ReturnedTypes, Types
    <3>2. Reads
      BY <1>1, <2>1, StayReads DEF EndToken
    <3> QED
      BY <3>1, <3>2
  <2>2. CASE EndString
    <3>1. ~EndToken
      BY <2>2 DEF EndToken, EndString
    <3>2. Reads
      BY <1>1, <2>2, EndHasNoCharacter, OneReads DEF EndString
    <3> QED
      BY <2>2, <3>1, <3>2 DEF EndString, Returned, InToken, ReturnedTypes, Types
  <2>3. CASE UnterminatedString
    <3>1. ~EndToken /\ ~EndString
      BY <1>1, <2>3, EndHasNoCharacter DEF EndToken, EndString, UnterminatedString
    <3>2. Reads
      BY <1>1, <2>3, StayReads DEF UnterminatedString
    <3> QED
      BY <2>3, <3>1, <3>2 DEF UnterminatedString, Returned, InToken, ReturnedTypes, Types
  <2>4. CASE Escape /\ offset + 1 = Len(text)
    <3>1. ~EndToken /\ ~EndString
      BY <2>4 DEF EndToken, EndString, Escape
    <3>2. AdvanceOne /\ Return("unterminated string") /\ text' = text /\ mode = "string"
      BY <2>4 DEF Escape
    <3>3. Reads
      BY <1>1, <2>4, <3>2, EndHasNoCharacter, OneReads DEF Escape
    <3> QED
      BY <3>1, <3>2, <3>3 DEF Returned, InToken, ReturnedTypes, Types
  <2> QED
    BY <2>1, <2>2, <2>3, <2>4 DEF Returning
<1>3. start \in [offset : 0 .. Len(text), position : Position] /\ offset \in Nat /\ Len(text) \in Nat
  BY <1>1, TextIsFinite DEF TypeOK
<1>4. /\ start.offset \in Nat /\ start.position \in Position
      /\ offset' \in Nat /\ position' \in Position /\ offset <= offset'
  BY <1>2, <1>3 DEF Reads
<1>5. start.offset <= offset
  BY <1>2 DEF IInv, TokensAreDisjoint
<1>6. offset' - start.offset \in Nat /\ start.offset + (offset' - start.offset) = offset'
  BY <1>3, <1>4, <1>5
<1>7. PICK token : token = Token(type, start, Here')
  OBVIOUS
<1>8. token = [type |-> type, offset |-> start.offset, length |-> offset' - start.offset,
               start |-> start.position, stop |-> position']
  BY <1>7 DEF Token, Here
<1>9. token \in TokenType
  BY <1>4, <1>6, <1>8 DEF TokenType, ReturnedTypes
<1>10. tokens' = Append(tokens, token) /\ mode' \in Ended
  BY <1>2, <1>7 DEF Return, Ended
<1>11. token.offset = start.offset /\ token.type = type /\ token.offset + token.length = offset'
  BY <1>6, <1>8
<1> QED
  BY <1>2, <1>9, <1>10, <1>11 DEF Yields

(* A token that is being read stays one, and nothing is returned. *)
LEMMA TakingGoesOn ==
    ASSUME Taking
    PROVE  /\ text' = text /\ tokens' = tokens /\ start' = start
           /\ InToken /\ InToken'
           /\ mode' # mode => mode = "integer" /\ mode' = "floating"
<1>1. CASE Consume \/ Fraction \/ StringCharacter
  BY <1>1 DEF Consume, Fraction, IsFraction, StringCharacter, InToken
<1>2. CASE Escape /\ offset + 1 # Len(text)
  BY <1>2 DEF Escape, InToken
<1> QED
  BY <1>1, <1>2 DEF Taking

(* Every step keeps the gaps blank. *)
LEMMA NextApart ==
    ASSUME IInv, NEW ends, NEW blank, Meant(ends, blank), Skips(ends, blank), Apart(blank), Next
    PROVE  Apart(blank)' /\ Skips(ends, blank)'
<1>1. CASE EndOfInput \/ SimpleToken
  <2>1. PICK token : Yields(token) /\ token.offset = offset /\ AtToken
    BY <1>1, AtOnce
  <2>2. Since(blank) = token.offset
    BY <2>1, TokenHasNoBlanks
  <2> QED
    BY <2>1, <2>2, AppendApart DEF Yields
<1>2. CASE Returning
  <2>1. PICK token : Yields(token) /\ token.offset = start.offset /\ InToken
    BY <1>2, InTheEnd
  <2>2. Since(blank) = token.offset
    BY <2>1 DEF Skips
  <2> QED
    BY <2>1, <2>2, AppendApart DEF Yields
<1>3. CASE Taking
  <2>1. Apart(blank)' /\ Since(blank)' = Since(blank) /\ start' = start /\ InToken /\ InToken'
    BY <1>3, TakingGoesOn, SinceStays
  <2> QED
    BY <2>1 DEF Skips, InToken
<1>4. CASE BeginToken
  <2>1. Since(blank) = offset /\ start'.offset = offset /\ tokens' = tokens
    BY <1>4, TokenHasNoBlanks DEF BeginToken, Here
  <2>2. Apart(blank)' /\ Since(blank)' = Since(blank)
    BY <2>1, SinceStays
  <2>3. mode' \notin {"blank", "line comment", "block comment"}
    BY <1>4 DEF BeginToken, Kind
  <2> QED
    BY <2>1, <2>2, <2>3 DEF Skips
<1>5. CASE Blank \/ BeginLineComment \/ LineComment
  BY <1>5, SkipsBlanks
<1>6. CASE BeginBlockComment \/ CloseComment \/ OpenComment \/ BlockComment
  BY <1>6, SkipsComments
<1>7. EndOfInput \/ SimpleToken \/ Returning \/ Taking \/ BeginToken \/ Blank \/ BeginLineComment
      \/ LineComment \/ BeginBlockComment \/ CloseComment \/ OpenComment \/ BlockComment
  BY Zenon DEF Next, Returning, Taking
<1> QED
  BY <1>1, <1>2, <1>3, <1>4, <1>5, <1>6, <1>7, Zenon

LEMMA NextGaps == IInv /\ Gaps /\ [Next]_vars => Gaps'
<1> SUFFICES ASSUME IInv, Gaps, [Next]_vars PROVE Gaps'
  OBVIOUS
<1>0. text' = text
  BY DEF vars, Next, Blank, BeginLineComment, LineComment, BeginBlockComment, CloseComment,
         OpenComment, BlockComment, EndOfInput, SimpleToken, BeginToken, Consume, Fraction,
         EndToken, Escape, StringCharacter, EndString, UnterminatedString
<1>1. ASSUME NEW ends, NEW blank, Meant(ends, blank)
      PROVE  Apart(blank)' /\ Skips(ends, blank)'
  <2>1. Apart(blank) /\ Skips(ends, blank)
    BY <1>1 DEF Gaps, Meant
  <2>2. CASE Next
    BY <1>1, <2>1, <2>2, NextApart
  <2>3. CASE UNCHANGED vars
    BY <2>1, <2>3 DEF vars, Apart, Skips, Since, InToken
  <2> QED
    BY <2>2, <2>3
<1> QED
  BY <1>0, <1>1 DEF Gaps, Meant

LEMMA InitGaps == Init => Gaps
<1> SUFFICES ASSUME Init, NEW blank, NEW ends PROVE Apart(blank) /\ Skips(ends, blank)
  BY DEF Gaps
<1>1. tokens = <<>> /\ Len(tokens) = 0 /\ DOMAIN tokens = {} /\ mode = "blank" /\ offset = 0
  BY DEF Init
<1> QED
  BY <1>1 DEF Apart, Skips, Since, Finish, InToken

(* A backslash takes the character behind it: the count of backslashes     *)
(* before a place tells whether it is taken.                               *)
Slashes(t, i, n) ==
    /\ n \in 0 .. i
    /\ \A j \in 1 .. n : Char(t, i - j) = "backslash"
    /\ n < i => Char(t, i - n - 1) # "backslash"
Odd(t, i) == \E n \in 0 .. i : Slashes(t, i, n) /\ n % 2 = 1

(* How many backslashes stand before a place is one number. *)
LEMMA SlashesAreUnique ==
    ASSUME NEW t, NEW i \in Nat, NEW n \in 0 .. i, NEW k \in 0 .. i,
           Slashes(t, i, n), Slashes(t, i, k)
    PROVE  n = k
<1>1. ASSUME NEW a \in 0 .. i, NEW b \in 0 .. i, Slashes(t, i, a), Slashes(t, i, b), a < b
      PROVE  FALSE
  <2>1. a < i /\ a + 1 \in 1 .. b /\ i - (a + 1) = i - a - 1
    BY <1>1
  <2>2. Char(t, i - (a + 1)) = "backslash"
    BY <1>1, <2>1 DEF Slashes
  <2> QED
    BY <1>1, <2>1, <2>2 DEF Slashes
<1> QED
  BY <1>1

(* A place further. *)
LEMMA NextSlashes ==
    ASSUME NEW t, NEW i \in Nat, NEW n \in 0 .. i, Slashes(t, i, n)
    PROVE  IF Char(t, i) = "backslash" THEN Slashes(t, i + 1, n + 1) ELSE Slashes(t, i + 1, 0)
<1>1. CASE Char(t, i) = "backslash"
  <2>1. ASSUME NEW j \in 1 .. n + 1 PROVE Char(t, i + 1 - j) = "backslash"
    <3>1. CASE j = 1
      <4>1. i + 1 - j = i
        BY <3>1
      <4> QED
        BY <1>1, <4>1
    <3>2. CASE j # 1
      <4>1. j - 1 \in 1 .. n /\ i + 1 - j = i - (j - 1)
        BY <3>2
      <4> QED
        BY <4>1 DEF Slashes
    <3> QED
      BY <3>1, <3>2
  <2>2. n + 1 < i + 1 => Char(t, i + 1 - (n + 1) - 1) # "backslash"
    <3>1. i + 1 - (n + 1) - 1 = i - n - 1 /\ (n + 1 < i + 1 <=> n < i)
      OBVIOUS
    <3> QED
      BY <3>1 DEF Slashes
  <2>3. n + 1 \in 0 .. i + 1
    OBVIOUS
  <2> QED
    BY <1>1, <2>1, <2>2, <2>3 DEF Slashes
<1>2. CASE Char(t, i) # "backslash"
  <2>1. i + 1 - 0 - 1 = i /\ 0 \in 0 .. i + 1 /\ 1 .. 0 = {}
    OBVIOUS
  <2> QED
    BY <1>2, <2>1 DEF Slashes
<1> QED
  BY <1>1, <1>2

(* There is such a number for each place. *)
LEMMA SlashesExist ==
    ASSUME NEW t
    PROVE  \A i \in Nat : \E n \in 0 .. i : Slashes(t, i, n)
<1> DEFINE Without == {i \in Nat : ~\E n \in 0 .. i : Slashes(t, i, n)}
<1>1. ASSUME NEW i \in Without, \A k \in Without : i <= k
      PROVE  FALSE
  <2>1. CASE i = 0
    <3>1. Slashes(t, 0, 0)
      BY DEF Slashes
    <3> QED
      BY <2>1, <3>1
  <2>2. CASE i # 0
    <3>1. PICK j \in Nat : i = j + 1 /\ ~(i <= j)
      <4>1. i - 1 \in Nat /\ i = (i - 1) + 1 /\ ~(i <= i - 1)
        BY <2>2
      <4> QED
        BY <4>1
    <3>2. j \notin Without
      BY <1>1, <3>1
    <3>3. PICK n \in 0 .. j : Slashes(t, j, n)
      BY <3>2
    <3>4. Slashes(t, i, n + 1) \/ Slashes(t, i, 0)
      BY <3>1, <3>3, NextSlashes
    <3>5. n + 1 \in 0 .. i /\ 0 \in 0 .. i
      BY <3>1
    <3> QED
      BY <3>4, <3>5
  <2> QED
    BY <2>1, <2>2
<1>2. Without = {}
  <2>1. Without \subseteq Nat
    OBVIOUS
  <2> HIDE DEF Without
  <2> QED
    BY <1>1, <2>1, LeastNumber
<1> QED
  BY <1>2

(* What a character does to the one behind it. *)
LEMMA OddStep ==
    ASSUME NEW t, NEW i \in Nat
    PROVE  Odd(t, i + 1) <=> Char(t, i) = "backslash" /\ ~Odd(t, i)
<1>1. PICK n \in 0 .. i : Slashes(t, i, n)
  BY SlashesExist
<1>2. Odd(t, i) <=> n % 2 = 1
  BY <1>1, SlashesAreUnique DEF Odd
<1>3. CASE Char(t, i) = "backslash"
  <2>1. n + 1 \in 0 .. i + 1 /\ Slashes(t, i + 1, n + 1) /\ i + 1 \in Nat
    BY <1>1, <1>3, NextSlashes
  <2>2. Odd(t, i + 1) <=> (n + 1) % 2 = 1
    BY <2>1, SlashesAreUnique DEF Odd
  <2>3. (n + 1) % 2 = 1 <=> ~(n % 2 = 1)
    OBVIOUS
  <2> QED
    BY <1>2, <1>3, <2>2, <2>3
<1>4. CASE Char(t, i) # "backslash"
  <2>1. 0 \in 0 .. i + 1 /\ Slashes(t, i + 1, 0) /\ i + 1 \in Nat
    BY <1>1, <1>4, NextSlashes
  <2>2. Odd(t, i + 1) <=> 0 % 2 = 1
    BY <2>1, SlashesAreUnique DEF Odd
  <2> QED
    BY <1>4, <2>2
<1> QED
  BY <1>3, <1>4

(* Escaped is Odd of the text that is read. *)
LEMMA EscapedIsOdd ==
    ASSUME NEW i \in Nat
    PROVE  Escaped(i) <=> Odd(text, i)
<1>1. PICK n \in 0 .. i : Slashes(text, i, n)
  BY SlashesExist
<1>2. \A k \in 0 .. i : Slashes(text, i, k) <=>
          /\ \A j \in 1 .. k : At(i - j) = "backslash"
          /\ k < i => At(i - k - 1) # "backslash"
  BY CharsAreAt DEF Slashes
<1>3. Backslashes(i) \in 0 .. i /\ Slashes(text, i, Backslashes(i))
  <2>1. \E k \in 0 .. i : /\ \A j \in 1 .. k : At(i - j) = "backslash"
                          /\ k < i => At(i - k - 1) # "backslash"
    BY <1>1, <1>2
  <2>2. /\ Backslashes(i) \in 0 .. i
        /\ \A j \in 1 .. Backslashes(i) : At(i - j) = "backslash"
        /\ Backslashes(i) < i => At(i - Backslashes(i) - 1) # "backslash"
    BY <2>1 DEF Backslashes
  <2> QED
    BY <1>2, <2>2
<1>4. PICK k \in 0 .. i : k = Backslashes(i) /\ Slashes(text, i, k)
  BY <1>3
<1>5. Odd(text, i) <=> k % 2 = 1
  BY <1>4, SlashesAreUnique DEF Odd
<1> QED
  BY <1>4, <1>5 DEF Escaped

(* What a token begins and ends with, according to its type. *)
BeginsAs(t, type, from) ==
    /\ type = "name" => Char(t, from) \in NameHead
    /\ type \in {"integer", "floating"} => Char(t, from) = "digit"
    /\ type = "operator" => Char(t, from) \in Operator
    /\ type = "invalid" => Char(t, from) \in Characters \ Valid
    /\ type = "string" => Char(t, from) = "quote"
EndsAs(t, type, to) ==
    /\ type \in Words => Char(t, to) \notin Name
    /\ type = "operator" => Char(t, to) \notin Operator
    /\ type = "invalid" => Char(t, to) \notin Characters \ Valid
Within(t, from, to) ==
    \A i \in from + 1 .. to - 1 : Char(t, i) \in {"quote", "newline"} => Odd(t, i)
Quoted(t, from, last) ==
    /\ from < last /\ Char(t, last) = "quote" /\ ~Odd(t, last) /\ Within(t, from, last)
Shaped(t, token) ==
    LET to == token.offset + token.length IN
    /\ BeginsAs(t, token.type, token.offset) /\ EndsAs(t, token.type, to)
    /\ token.type = "string" => Quoted(t, token.offset, to - 1)
Shapes ==
    /\ \A k \in DOMAIN tokens : Shaped(text, tokens[k])
    /\ InToken => BeginsAs(text, mode, start.offset)
    /\ mode = "string" => ~Odd(text, offset) /\ Within(text, start.offset, offset)

(* A token of the right shape joins the others. *)
LEMMA YieldsShape ==
    ASSUME IInv, Shapes, NEW token, Yields(token), Shaped(text, token)
    PROVE  Shapes'
<1>1. tokens \in Seq(TokenType) /\ token \in TokenType
  BY DEF IInv, TypeOK, TokenType, Yields
<1>2. PICK n \in Nat : /\ n = Len(tokens) /\ DOMAIN tokens = 1 .. n
                      /\ DOMAIN Append(tokens, token) = 1 .. n + 1
                      /\ \A i \in 1 .. n : Append(tokens, token)[i] = tokens[i]
                      /\ Append(tokens, token)[n + 1] = token
  BY <1>1, OneMore
<1>3. PICK grown : /\ grown = tokens' /\ grown[n + 1] = token /\ DOMAIN grown = 1 .. n + 1
                   /\ \A i \in 1 .. n : grown[i] = tokens[i]
  BY <1>2 DEF Yields
<1>4. ASSUME NEW k \in 1 .. n + 1 PROVE Shaped(text, grown[k])
  <2>1. CASE k = n + 1
    BY <1>3, <2>1
  <2>2. CASE k # n + 1
    <3>1. k \in 1 .. n
      BY <2>2
    <3> QED
      BY <1>2, <1>3, <3>1 DEF Shapes
  <2> QED
    BY <2>1, <2>2
<1>5. text' = text /\ mode' \in Ended
  BY DEF Yields
<1> QED
  BY <1>3, <1>4, <1>5 DEF Shapes, Ended, InToken

(* Every loop is left at a character it does not take. *)
LEMMA ReturnedShape ==
    ASSUME IInv, Shapes, Returning, NEW token, Yields(token),
           token.offset = start.offset, token.type = Returned, InToken
    PROVE  Shaped(text, token)
<1>0. TypeOK
  BY DEF IInv
<1>1. current = Char(text, offset) /\ offset \in Nat /\ token.offset + token.length = offset'
  BY <1>0, CharsAreAt, TextIsFinite DEF current, Yields
<1>2. BeginsAs(text, mode, start.offset)
  BY DEF Shapes
<1>3. CASE EndToken
  <2>1. token.type = mode /\ offset' = offset
    BY <1>3 DEF Returned, EndToken, Stay
  <2>2. EndsAs(text, mode, offset) /\ mode # "string"
    BY <1>1, <1>3 DEF EndToken, Consumed, EndsAs, Words
  <2> QED
    BY <1>1, <1>2, <2>1, <2>2 DEF Shaped
<1>4. CASE EndString
  <2>0. ~EndToken /\ mode = "string" /\ current = "quote"
    BY <1>4 DEF EndToken, EndString
  <2>1. token.type = "string" /\ offset' = offset + 1
    BY <1>4, <2>0 DEF Returned, EndString, AdvanceOne
  <2>2. offset + 1 - 1 = offset /\ start.offset < offset
    BY <1>1, <2>0, StringHasBegun
  <2>3. Quoted(text, start.offset, offset)
    BY <1>1, <2>0, <2>2 DEF Quoted, Shapes
  <2>4. EndsAs(text, "string", offset')
    BY DEF EndsAs, Words
  <2>5. PICK to : to = token.offset + token.length /\ to - 1 = offset /\ to = offset'
    BY <1>1, <2>1, <2>2
  <2> QED
    BY <1>2, <2>0, <2>1, <2>3, <2>4, <2>5 DEF Shaped
<1>5. CASE ~EndToken /\ ~EndString
  <2>1. token.type = "unterminated string"
    BY <1>5 DEF Returned
  <2> QED
    BY <2>1 DEF Shaped, BeginsAs, EndsAs, Words
<1> QED
  BY <1>3, <1>4, <1>5

(* Inside a literal a quote is only passed behind a backslash, and a       *)
(* backslash takes one character, not two.                                 *)
LEMMA TakingShapes ==
    ASSUME IInv, Shapes, Taking
    PROVE  Shapes'
<1>0. TypeOK
  BY DEF IInv
<1>1. current = Char(text, offset) /\ offset \in Nat /\ Len(text) \in Nat
  BY <1>0, CharsAreAt, TextIsFinite DEF current
<1>2. /\ text' = text /\ tokens' = tokens /\ start' = start /\ InToken /\ InToken'
      /\ mode' # mode => mode = "integer" /\ mode' = "floating"
  BY TakingGoesOn
<1>3. \A k \in DOMAIN tokens' : Shaped(text, tokens'[k])
  BY <1>2 DEF Shapes
<1>4. BeginsAs(text, mode', start.offset)
  BY <1>2 DEF Shapes, BeginsAs
<1>5. ASSUME mode' = "string"
      PROVE  ~Odd(text, offset') /\ Within(text, start.offset, offset')
  <2>1. mode = "string"
    BY <1>2, <1>5
  <2>2. start.offset \in Nat /\ start.offset < offset /\ ~Odd(text, offset) /\ Within(text, start.offset, offset)
    BY <2>1, StringHasBegun DEF Shapes
  <2>3. CASE StringCharacter
    <3>1. offset' = offset + 1 /\ Char(text, offset) \notin {"newline", "quote", "backslash"}
      BY <1>1, <2>3 DEF StringCharacter, AdvanceOne
    <3>2. ~Odd(text, offset + 1)
      BY <1>1, <3>1, OddStep
    <3>0. PICK to : to = offset'
      OBVIOUS
    <3>3. ASSUME NEW i \in start.offset + 1 .. to - 1, Char(text, i) \in {"quote", "newline"}
          PROVE  Odd(text, i)
      <4>1. i = offset \/ i \in start.offset + 1 .. offset - 1
        BY <1>1, <2>2, <3>0, <3>1
      <4> QED
        BY <2>2, <3>1, <3>3, <4>1 DEF Within
    <3>4. Within(text, start.offset, to)
      BY <3>3 DEF Within
    <3> QED
      BY <3>0, <3>1, <3>2, <3>4
  <2>4. CASE Escape /\ offset + 1 # Len(text)
    <3>1. offset' = offset + 2 /\ Char(text, offset) = "backslash"
      BY <1>1, <2>4 DEF Escape, AdvanceTwo
    <3>2. Odd(text, offset + 1)
      BY <1>1, <2>2, <3>1, OddStep
    <3>3. ~Odd(text, offset + 2)
      <4>1. offset + 1 \in Nat /\ offset + 1 + 1 = offset + 2
        BY <1>1
      <4> QED
        BY <3>2, <4>1, OddStep
    <3>0. PICK to : to = offset'
      OBVIOUS
    <3>4. ASSUME NEW i \in start.offset + 1 .. to - 1, Char(text, i) \in {"quote", "newline"}
          PROVE  Odd(text, i)
      <4>1. i = offset + 1 \/ i = offset \/ i \in start.offset + 1 .. offset - 1
        BY <1>1, <2>2, <3>0, <3>1
      <4> QED
        BY <2>2, <3>1, <3>2, <3>4, <4>1 DEF Within
    <3>5. Within(text, start.offset, to)
      BY <3>4 DEF Within
    <3> QED
      BY <3>0, <3>1, <3>3, <3>5
  <2>5. ~Consume /\ ~Fraction
    BY <2>1 DEF Consume, Fraction, IsFraction
  <2> QED
    BY <2>3, <2>4, <2>5 DEF Taking
<1> QED
  BY <1>2, <1>3, <1>4, <1>5 DEF Shapes

(* A token begins with a character of its type. *)
LEMMA BeginTokenShapes ==
    ASSUME IInv, Shapes, BeginToken
    PROVE  Shapes'
<1>0. TypeOK
  BY DEF IInv
<1>1. current = Char(text, offset) /\ offset \in Nat /\ Len(text) \in Nat
  BY <1>0, CharsAreAt, TextIsFinite DEF current
<1>2. text' = text /\ tokens' = tokens /\ start'.offset = offset /\ mode' = Kind
  BY DEF BeginToken, Here
<1>3. current = "quote" => mode' = "string"
  BY <1>2 DEF Kind, NameHead, Operator
<1>4. current # "quote" => /\ mode' \in {"name", "operator", "integer", "invalid"}
                           /\ current \in Consumed'
  BY <1>0, KindCanTake DEF BeginToken
<1>5. BeginsAs(text, mode', offset)
  <2>1. CASE current = "quote"
    BY <1>1, <1>3, <2>1 DEF BeginsAs
  <2>2. CASE current # "quote"
    <3>1. mode' = "invalid" => current \in Characters \ Valid
      BY <1>4, <2>2 DEF Consumed
    <3>2. mode' = "name" => current \in NameHead
      BY <1>2, <2>2 DEF Kind
    <3>3. mode' = "operator" => current \in Operator
      BY <1>2, <2>2 DEF Kind
    <3>4. mode' = "integer" => current = "digit"
      BY <1>2, <2>2 DEF Kind
    <3> QED
      BY <1>1, <1>4, <2>2, <3>1, <3>2, <3>3, <3>4 DEF BeginsAs
  <2> QED
    BY <2>1, <2>2
<1>6. ASSUME mode' = "string"
      PROVE  ~Odd(text, offset') /\ Within(text, offset, offset')
  <2>1. current = "quote"
    BY <1>4, <1>6
  <2>2. offset' = offset + 1
    BY <2>1 DEF BeginToken, AdvanceOne
  <2>3. ~Odd(text, offset + 1)
    BY <1>1, <2>1, OddStep
  <2>4. offset + 1 .. offset + 1 - 1 = {}
    BY <1>1
  <2> QED
    BY <2>2, <2>3, <2>4 DEF Within
<1> QED
  BY <1>2, <1>5, <1>6 DEF Shapes

LEMMA NextShapes == IInv /\ Shapes /\ [Next]_vars => Shapes'
<1> SUFFICES ASSUME IInv, Shapes, [Next]_vars PROVE Shapes'
  OBVIOUS
<1>1. CASE EndOfInput \/ SimpleToken
  <2>1. PICK token : Yields(token) /\ token.type \in Simple \cup {"end of input"}
    BY <1>1, AtOnce
  <2>2. Shaped(text, token)
    BY <2>1 DEF Shaped, BeginsAs, EndsAs, Simple, Words
  <2> QED
    BY <2>1, <2>2, YieldsShape
<1>2. CASE Returning
  <2>1. PICK token : Yields(token) /\ token.offset = start.offset /\ token.type = Returned /\ InToken
    BY <1>2, InTheEnd
  <2>2. Shaped(text, token)
    BY <1>2, <2>1, ReturnedShape
  <2> QED
    BY <2>1, <2>2, YieldsShape
<1>3. CASE Taking
  BY <1>3, TakingShapes
<1>4. CASE BeginToken
  BY <1>4, BeginTokenShapes
<1>5. CASE \/ Blank \/ BeginLineComment \/ LineComment
           \/ BeginBlockComment \/ CloseComment \/ OpenComment \/ BlockComment
  <2>1. text' = text /\ tokens' = tokens /\ mode' \in Between
    BY <1>5 DEF Blank, BeginLineComment, LineComment, BeginBlockComment, CloseComment,
                OpenComment, BlockComment, Between
  <2> QED
    BY <2>1 DEF Shapes, InToken, Between
<1>6. CASE UNCHANGED vars
  BY <1>6 DEF vars, Shapes, InToken
<1>7. CASE Next
  <2>1. EndOfInput \/ SimpleToken \/ Returning \/ Taking \/ BeginToken \/ Blank \/ BeginLineComment
        \/ LineComment \/ BeginBlockComment \/ CloseComment \/ OpenComment \/ BlockComment
    BY <1>7, Zenon DEF Next, Returning, Taking
  <2> QED
    BY <1>1, <1>2, <1>3, <1>4, <1>5, <2>1, Zenon
<1> QED
  BY <1>6, <1>7

LEMMA InitShapes == Init => Shapes
BY DEF Init, Shapes, InToken

(* Tokens of these shapes end where they should. *)
LEMMA ShapesEnd ==
    ASSUME IInv, Shapes
    PROVE  TokensEndWhereTheyShould
<1>0. TypeOK
  BY DEF IInv
<1>1. PICK n \in Nat : n = Len(tokens) /\ DOMAIN tokens = 1 .. n
  BY <1>0, LenProperties DEF TypeOK
<1>2. \A k \in DOMAIN tokens : Shaped(text, tokens[k])
  BY DEF Shapes
<1>3. ASSUME NEW k \in 1 .. n - 1, Touch(k),
             NEW left, left = tokens[k].type, NEW right, right = tokens[k + 1].type
      PROVE  /\ ~(left \in Words /\ right \in Words)
             /\ ~(left = right /\ left \in {"operator", "invalid"})
  <2>1. k \in 1 .. n /\ k + 1 \in 1 .. n
    OBVIOUS
  <2>2. PICK to : to = tokens[k].offset + tokens[k].length /\ to = tokens[k + 1].offset
    BY <1>3 DEF Touch, Stop
  <2>3. EndsAs(text, left, to) /\ BeginsAs(text, right, to)
    BY <1>1, <1>2, <1>3, <2>1, <2>2 DEF Shaped
  <2> QED
    BY <2>3 DEF EndsAs, BeginsAs, Words, Name, NameHead
<1>4. ASSUME NEW k \in 1 .. n, tokens[k].type = "string",
             NEW last, last = Stop(k) - 1
      PROVE  /\ At(tokens[k].offset) = "quote"
             /\ last > tokens[k].offset /\ At(last) = "quote" /\ ~Escaped(last)
             /\ \A i \in tokens[k].offset + 1 .. last - 1 :
                   At(i) \in {"quote", "newline"} => Escaped(i)
  <2>1. BeginsAs(text, "string", tokens[k].offset) /\ Quoted(text, tokens[k].offset, last)
    BY <1>1, <1>2, <1>4 DEF Shaped, Stop
  <2>2. tokens[k].offset \in Nat /\ last \in Int
    <3>1. tokens[k] \in TokenType
      BY <1>0, <1>1, ElementOfSeq DEF TypeOK, TokenType
    <3>2. tokens[k].offset \in Nat /\ tokens[k].length \in Nat
      BY <3>1 DEF TokenType
    <3> QED
      BY <1>4, <3>2 DEF Stop
  <2>3. last \in Nat /\ last > tokens[k].offset
    BY <2>1, <2>2 DEF Quoted
  <2>4. At(tokens[k].offset) = "quote" /\ At(last) = "quote" /\ ~Escaped(last)
    BY <2>1, <2>3, CharsAreAt, EscapedIsOdd DEF BeginsAs, Quoted
  <2>5. ASSUME NEW i \in tokens[k].offset + 1 .. last - 1, At(i) \in {"quote", "newline"}
        PROVE  Escaped(i)
    <3>1. i \in Nat
      BY <2>2, <2>3
    <3>2. Odd(text, i)
      BY <2>1, <2>5, CharsAreAt DEF Quoted, Within
    <3> QED
      BY <3>1, <3>2, EscapedIsOdd
  <2> QED
    BY <2>3, <2>4, <2>5
<1> QED
  BY <1>1, <1>3, <1>4 DEF TokensEndWhereTheyShould

(* Blank gaps, in terms of the functions of Lexer. *)
LEMMA GapsEnd ==
    ASSUME IInv, Gaps
    PROVE  GapsAreBlank
<1>0. TypeOK
  BY DEF IInv
<1>1. Apart(BlankEnd)
  BY <1>0, CommentsEnd, BlanksEnd DEF Gaps
<1>2. PICK n \in Nat : n = Len(tokens) /\ DOMAIN tokens = 1 .. n
  BY <1>0, LenProperties DEF TypeOK
<1>3. ASSUME NEW k \in 1 .. n
      PROVE  tokens[k].offset = BlankEnd[IF k = 1 THEN 0 ELSE Stop(k - 1)]
  <2>1. Finish(tokens, k - 1) = IF k = 1 THEN 0 ELSE Stop(k - 1)
    <3>1. k - 1 = 0 <=> k = 1
      OBVIOUS
    <3> QED
      BY <3>1 DEF Finish, Stop
  <2> QED
    BY <1>1, <1>2, <2>1 DEF Apart
<1> QED
  BY <1>2, <1>3 DEF GapsAreBlank

(* The tokens of a text are the ones the text has: between two of them are *)
(* blanks and whole comments only, and each ends where it should, whatever *)
(* is nested, escaped or left open.                                        *)
THEOREM TokensStayInText == Spec => []TokensFollowText
<1>1. Init => Gaps /\ Shapes
  BY InitGaps, InitShapes
<1>2. IInv /\ (Gaps /\ Shapes) /\ [Next]_vars => (Gaps /\ Shapes)'
  BY NextGaps, NextShapes
<1>3. IInv /\ (Gaps /\ Shapes) => TokensFollowText
  BY GapsEnd, ShapesEnd DEF TokensFollowText
<1> QED
  BY <1>1, <1>2, <1>3, Inductive, PTL DEF Spec
=============================================================================
