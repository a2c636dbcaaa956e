------------------------ MODULE LanguageServerProofs ------------------------
(***************************************************************************)
(* Proofs about the document table of LanguageServer, for every client,    *)
(* polite or not, and every bound.                                         *)
(***************************************************************************)
EXTENDS LanguageServer, Minimum, SequenceTheorems, FiniteSetTheorems, TLAPS

(* A document is changed only while the server is initialized. *)
ChangesInitialized == target # NoDocument => is_initialized

Table == /\ PathsAreSound
         /\ UninitializedIsEmpty
         /\ EditPositionIsAnalyzed
         /\ ChangesInitialized

IInv == TypeOK /\ Table

-----------------------------------------------------------------------------
(* What the helpers of the module return. *)

LEMMA CountsAreNumbers ==
    ASSUME NEW text \in Text, NEW n \in Nat
    PROVE  Cardinality(Bad(text, n)) \in Nat
<1>1. IsFiniteSet(1 .. n)
  BY FS_Interval
<1>2. Bad(text, n) \in SUBSET (1 .. n)
  BY DEF Bad
<1>3. IsFiniteSet(Bad(text, n))
  BY <1>1, <1>2, FS_Subset
<1> QED
  BY <1>3, FS_CardinalityType

LEMMA DiagnosticsAreCounted ==
    ASSUME NEW text \in Text, maximum_errors \in Nat, error_count \in Nat
    PROVE  Diagnostics(text) \in Nat
<1>1. Len(text) \in Nat
  BY DEF Text
<1>2. Errors(text) \in Nat
  BY <1>1, CountsAreNumbers DEF Errors
<1> QED
  BY <1>2 DEF Diagnostics, CutShort

(* An analysis looks at the text and the edit position of the document,    *)
(* and leaves both as they are.                                            *)
LEMMA AnalysisIsOfDocument ==
    ASSUME NEW doc \in DocumentType, maximum_errors \in Nat, error_count \in Nat
    PROVE  /\ Analyzed(doc) \in DocumentType
           /\ Analyzed(doc).text = doc.text
           /\ Analyzed(doc).edit_position = doc.edit_position
           /\ Analyzed(doc).info.text = doc.text
           /\ Analyzed(doc).info.at = doc.edit_position
<1>1. doc.text \in Text /\ doc.edit_position \in Int
  BY DEF DocumentType
<1>2. Diagnostics(doc.text) \in Nat
  BY <1>1, DiagnosticsAreCounted
<1>3. Cardinality(Resolved(doc.text)) \in Nat
  <2>1. Len(doc.text) \in Int
    BY <1>1 DEF Text
  <2>2. IsFiniteSet(1 .. Len(doc.text))
    BY <2>1, FS_Interval
  <2>3. Resolved(doc.text) \in SUBSET (1 .. Len(doc.text))
    BY DEF Resolved
  <2> QED
    BY <2>2, <2>3, FS_Subset, FS_CardinalityType
<1> DEFINE info == [text |-> doc.text, at |-> doc.edit_position,
                    shown |-> Diagnostics(doc.text),
                    resolved |-> Cardinality(Resolved(doc.text)), env |-> TRUE]
<1>4. info \in Info
  BY <1>1, <1>2, <1>3 DEF Info
<1>5. Analyzed(doc) = [doc EXCEPT !.info = info]
  BY DEF Analyzed
<1>6. info.text = doc.text /\ info.at = doc.edit_position
  OBVIOUS
<1> HIDE DEF info
<1> QED
  BY <1>1, <1>4, <1>5, <1>6 DEF DocumentType

LEMMA DocumentIsTyped ==
    ASSUME NEW text \in Text, NEW ownership \in {"Client", "Server"}
    PROVE  Document(text, ownership) \in DocumentType
<1>1. <<>> \in Text
  BY EmptySeq DEF Text
<1> QED
  BY <1>1 DEF Document, DocumentType, NoInfo, Info, NoPosition

LEMMA EditIsText ==
    ASSUME NEW text \in Text, NEW new \in Text, NEW from \in Nat, NEW to \in Nat,
           from <= to, to <= Len(text)
    PROVE  EditText(text, from, to, new) \in Text
<1> USE DEF Text
<1>1. Len(text) \in Nat /\ \A i \in 1 .. Len(text) : text[i] \in Definition
  OBVIOUS
<1>2. SubSeq(text, 1, from) \in Text
  BY <1>1, SubSeqProperties
<1>3. SubSeq(text, to + 1, Len(text)) \in Text
  BY <1>1, SubSeqProperties
<1>4. SubSeq(text, 1, from) \o new \in Text
  BY <1>2, ConcatProperties
<1> QED
  BY <1>3, <1>4, ConcatProperties DEF EditText

LEMMA ChangedIsTyped ==
    ASSUME NEW doc \in DocumentType, NEW change \in Change,
           change.kind = "whole" \/ InRange(doc.text, change)
    PROVE  Changed(doc, change) \in DocumentType
<1>1. /\ doc.text \in Text /\ change.text \in Text
      /\ change.from \in Nat /\ change.to \in Nat
  BY DEF DocumentType, Change
<1>2. ASSUME InRange(doc.text, change)
      PROVE  EditText(doc.text, change.from, change.to, change.text) \in Text
  BY <1>1, <1>2, EditIsText DEF InRange
<1> DEFINE text == IF change.kind = "whole" THEN change.text
                   ELSE EditText(doc.text, change.from, change.to, change.text)
           position == IF change.kind = "range" /\ change.small
                       THEN change.from ELSE NoPosition
<1>3. text \in Text /\ position \in Int
  BY <1>1, <1>2 DEF NoPosition
<1>4. Changed(doc, change) = [doc EXCEPT !.text = text, !.edit_position = position]
  BY DEF Changed
<1> HIDE DEF text, position
<1> QED
  BY <1>3, <1>4 DEF DocumentType

-----------------------------------------------------------------------------
(* The table is empty at first. *)
LEMMA InitIInv == Init => IInv
<1> SUFFICES ASSUME Init PROVE IInv
  OBVIOUS
<1> USE DEF Init
<1>1. TypeOK
  <2>1. /\ inbox \in Seq(Seq(Message)) /\ draft \in Seq(Message)
        /\ todo \in Seq(Message) /\ documents \in Seq(DocumentType) /\ rest \in Seq(Change)
    BY EmptySeq
  <2>2. DOMAIN paths = {} /\ Len(documents) = 0
    BY EmptySeq
  <2>3. target \in NoDocument .. Len(documents)
    BY <2>2 DEF NoDocument
  <2>4. exit_code \in {Running, 0, 1}
    BY DEF Running
  <2>5. DOMAIN paths \subseteq Paths
    BY <2>2
  <2> QED
    BY <2>1, <2>3, <2>4, <2>5 DEF TypeOK
<1>2. Table
  <2>1. DOMAIN paths = {} /\ Len(documents) = 0
    BY EmptySeq
  <2> QED
    BY <2>1 DEF Table, PathsAreSound, UninitializedIsEmpty, EditPositionIsAnalyzed,
                ChangesInitialized, NoDocument
<1> QED
  BY <1>1, <1>2 DEF IInv

LEMMA TableKept ==
    Table /\ UNCHANGED <<documents, paths, is_initialized, error_count, target>> => Table'
BY DEF Table, PathsAreSound, UninitializedIsEmpty, EditPositionIsAnalyzed, ChangesInitialized

(* A message taken off a frame is a message, and so are those behind it.   *)
LEMMA FrameIsTyped ==
    ASSUME TypeOK, todo # <<>>
    PROVE  m \in Message /\ Tail(todo) \in Seq(Message)
BY HeadTailProperties DEF TypeOK, m

(* Messages in the pipe do not disturb the table. *)
LEMMA PipeIInv ==
    ASSUME IInv, UNCHANGED <<process, database, frame>>,
           sent' \in Nat, inbox' \in Seq(Seq(Message)), draft' \in Seq(Message)
    PROVE  IInv'
<1>1. TypeOK'
  BY DEF IInv, TypeOK, process, database, frame
<1>2. Table'
  BY TableKept DEF IInv, process, database, frame
<1> QED
  BY <1>1, <1>2 DEF IInv

(* The client only adds to the pipe. *)
LEMMA ClientIInv == IInv /\ Client => IInv'
<1> SUFFICES ASSUME IInv, Client PROVE IInv'
  OBVIOUS
<1>1. Blank \in Message
  <2>1. <<>> \in Text /\ <<>> \in Seq(Change)
    BY EmptySeq DEF Text
  <2> QED
    BY <2>1 DEF Blank, Message, Method, NoId, NoPath, NoPosition
<1>2. /\ sent + 1 \in Nat
      /\ inbox \in Seq(Seq(Message)) /\ draft \in Seq(Message)
      /\ \A message \in Message : /\ Append(inbox, <<message>>) \in Seq(Seq(Message))
                                  /\ Append(draft, message) \in Seq(Message)
  BY DEF IInv, TypeOK
<1>3. ASSUME NEW method \in Method
      PROVE  Note(method) \in Message /\ Ask(method) \in Message
  <2> HIDE DEF Blank
  <2>1. Note(method) \in Message
    BY <1>1 DEF Note, Message
  <2>2. [Note(method) EXCEPT !.id = sent + 1] \in Message
    BY <1>2, <2>1 DEF Message
  <2> QED
    BY <2>1, <2>2 DEF Ask
<1>4. ASSUME NEW p \in Paths, NEW message \in Message
      PROVE  About(p, message) \in Message
  BY DEF About, Message
<1>5. CASE Initialize
  <2>1. Ask("initialize") \in Message
    BY <1>3 DEF Method
  <2> QED
    BY <1>5, <2>1, <1>2, PipeIInv DEF Say, Initialize
<1>6. CASE Open
  <2>1. PICK p \in Paths, t \in Texts : Say([About(p, Note("didOpen")) EXCEPT !.text = t])
    BY <1>6 DEF Open
  <2>2. t \in Text /\ About(p, Note("didOpen")) \in Message
    BY <1>3, <1>4, TextsAssumption DEF Method
  <2>3. [About(p, Note("didOpen")) EXCEPT !.text = t] \in Message
    BY <2>2 DEF Message
  <2> QED
    BY <2>1, <2>3, <1>2, PipeIInv DEF Say
<1>7. CASE Close
  <2>1. PICK p \in Paths : Say(About(p, Note("didClose")))
    BY <1>7 DEF Close, Addressable
  <2>2. About(p, Note("didClose")) \in Message
    BY <1>3, <1>4 DEF Method
  <2> QED
    BY <2>1, <2>2, <1>2, PipeIInv DEF Say
<1>8. CASE ChangeText
  <2>1. PICK p \in Paths, changes \in Changes :
          Say([About(p, Note("didChange")) EXCEPT !.changes = changes])
    BY <1>8 DEF ChangeText, Addressable
  <2>2. changes \in Seq(Change) /\ About(p, Note("didChange")) \in Message
    BY <1>3, <1>4, ChangesAssumption DEF Method
  <2>3. [About(p, Note("didChange")) EXCEPT !.changes = changes] \in Message
    BY <2>2 DEF Message
  <2> QED
    BY <2>1, <2>3, <1>2, PipeIInv DEF Say
<1>9. CASE ChangeConfig
  <2>1. PICK limit \in Limits :
          Say([Note("didChangeConfiguration") EXCEPT !.limit = limit])
    BY <1>9 DEF ChangeConfig
  <2>2. limit \in Nat /\ Note("didChangeConfiguration") \in Message
    BY <1>3, LimitsAssumption DEF Method
  <2>3. [Note("didChangeConfiguration") EXCEPT !.limit = limit] \in Message
    BY <2>2 DEF Message
  <2> QED
    BY <2>1, <2>3, <1>2, PipeIInv DEF Say
<1>10. CASE AskAboutDocument
  <2>1. PICK p \in Paths, method \in RequestsOfDocument, position \in Positions \cup {NoPosition} :
          Say([About(p, Ask(method)) EXCEPT !.position = position])
    BY <1>10 DEF AskAboutDocument, Addressable
  <2>2. position \in Int /\ method \in Method
    BY PositionsAssumption DEF NoPosition, RequestsOfDocument, Method
  <2>3. About(p, Ask(method)) \in Message
    BY <1>3, <1>4, <2>2
  <2>4. [About(p, Ask(method)) EXCEPT !.position = position] \in Message
    BY <2>2, <2>3 DEF Message
  <2> QED
    BY <2>1, <2>4, <1>2, PipeIInv DEF Say
<1>11. CASE SayMalformed
  <2>1. Note("malformed") \in Message /\ Ask("malformed") \in Message
    BY <1>3 DEF Method
  <2> QED
    BY <1>11, <2>1, <1>2, PipeIInv DEF Say, SayMalformed
<1>12. CASE SayOther
  <2>1. Note("ignored") \in Message /\ Ask("unsupported") \in Message
    BY <1>3 DEF Method
  <2> QED
    BY <1>12, <2>1, <1>2, PipeIInv DEF Say, SayOther
<1>13. CASE Shutdown
  <2>1. Ask("shutdown") \in Message
    BY <1>3 DEF Method
  <2> QED
    BY <1>13, <2>1, <1>2, PipeIInv DEF Say, Shutdown
<1>14. CASE Exit
  <2>1. Note("exit") \in Message
    BY <1>3 DEF Method
  <2> QED
    BY <1>14, <2>1, <1>2, PipeIInv DEF Say, Exit
<1>15. CASE SendBatch
  BY <1>2, <1>15, EmptySeq, PipeIInv DEF SendBatch, IInv, TypeOK
<1>16. CASE SendNothing
  BY <1>2, <1>16, EmptySeq, PipeIInv DEF SendNothing
<1>17. CASE HangUp
  BY <1>17, PipeIInv DEF HangUp, IInv, TypeOK
<1> QED
  BY <1>5, <1>6, <1>7, <1>8, <1>9, <1>10, <1>11, <1>12, <1>13, <1>14,
     <1>15, <1>16, <1>17 DEF Client

(* A step of the server that leaves the table alone. *)
LEMMA ServerKeepsTable ==
    ASSUME IInv, UNCHANGED <<documents, paths, is_initialized, error_count, target, rest, draft, sent>>,
           inbox' \in Seq(Seq(Message)), todo' \in Seq(Message),
           status' \in {"running", "returned", "failed", "aborted"},
           exit_code' \in {Running, 0, 1}, busy' \in BOOLEAN, maximum_errors' \in Nat,
           target # NoDocument => busy' /\ todo' # <<>>
    PROVE  IInv'
<1>1. TypeOK'
  BY DEF IInv, TypeOK
<1>2. Table'
  BY TableKept DEF IInv
<1> QED
  BY <1>1, <1>2 DEF IInv

QuietStep == \/ ReadFrame \/ WriteReplies \/ EndOfInput \/ Stop \/ RefuseMalformed
             \/ RefuseUninitialized \/ HandleExit \/ DropNotification \/ RefuseUnopened
             \/ ChangeOutOfRange \/ HandleChangeConfig \/ IgnoreNotification
             \/ HandleSymbols \/ SymbolsThrow \/ HandleRead \/ RefuseUnsupported

LEMMA QuietIInv == IInv /\ QuietStep => IInv'
<1> SUFFICES ASSUME IInv, QuietStep PROVE IInv'
  OBVIOUS
<1>1. /\ inbox \in Seq(Seq(Message)) /\ todo \in Seq(Message)
      /\ status \in {"running", "returned", "failed", "aborted"}
      /\ exit_code \in {Running, 0, 1} /\ busy \in BOOLEAN /\ maximum_errors \in Nat
      /\ target # NoDocument => busy /\ todo # <<>>
  BY DEF IInv, TypeOK
<1>2. ASSUME todo # <<>> PROVE m \in Message /\ Tail(todo) \in Seq(Message)
  BY <1>2, FrameIsTyped DEF IInv
<1> USE DEF process, database, frame, client
<1>3. CASE ReadFrame
  <2>1. inbox # <<>> /\ inbox' = Tail(inbox) /\ ~busy
    BY <1>3 DEF ReadFrame
  <2>2. Head(inbox) \in Seq(Message) /\ Tail(inbox) \in Seq(Seq(Message))
    BY <1>1, <2>1, HeadTailProperties
  <2> QED
    BY <1>1, <1>3, <2>1, <2>2, ServerKeepsTable DEF ReadFrame
<1>4. CASE WriteReplies
  BY <1>1, <1>4, ServerKeepsTable DEF WriteReplies
<1>5. CASE EndOfInput \/ Stop
  BY <1>1, <1>5, ServerKeepsTable DEF EndOfInput, Stop
<1>6. CASE RefuseMalformed \/ RefuseUninitialized \/ RefuseUnopened
  BY <1>1, <1>2, <1>6, ServerKeepsTable DEF RefuseMalformed, RefuseUninitialized,
     RefuseUnopened, Handling, Answer, Done
<1>7. CASE HandleExit \/ DropNotification
  BY <1>1, <1>2, <1>7, ServerKeepsTable DEF HandleExit, DropNotification,
     Handling, Silently, Done
<1>8. CASE ChangeOutOfRange \/ SymbolsThrow
  BY <1>1, <1>8, ServerKeepsTable DEF ChangeOutOfRange, SymbolsThrow
<1>9. CASE HandleChangeConfig
  <2>1. todo # <<>> /\ target = NoDocument
    BY <1>9 DEF HandleChangeConfig, Notification, Handling
  <2>2. m.limit \in Nat
    BY <1>2, <2>1 DEF Message
  <2> QED
    BY <1>1, <1>2, <1>9, <2>1, <2>2, ServerKeepsTable DEF HandleChangeConfig, Silently, Done
<1>10. CASE IgnoreNotification
  BY <1>1, <1>2, <1>10, ServerKeepsTable DEF IgnoreNotification, Notification,
     Handling, Silently, Done
<1>11. CASE HandleSymbols \/ HandleRead \/ RefuseUnsupported
  BY <1>1, <1>2, <1>11, ServerKeepsTable DEF HandleSymbols, HandleRead, RefuseUnsupported,
     Request, Handling, Answer, Done
<1> QED
  BY <1>3, <1>4, <1>5, <1>6, <1>7, <1>8, <1>9, <1>10, <1>11 DEF QuietStep

(* One document replaced by another: no path is disturbed, and only the    *)
(* new document has to account for its edit position.                      *)
LEMMA EntryKeepsTable ==
    ASSUME TypeOK, Table, is_initialized, UNCHANGED <<paths, is_initialized>>,
           NEW d \in 1 .. Len(documents), NEW doc \in DocumentType,
           documents' = [documents EXCEPT ![d] = doc],
           \/ target' = target
           \/ target' = NoDocument /\ target \in {NoDocument, d},
           doc.edit_position # NoPosition /\ d # target' =>
               doc.info.at = doc.edit_position /\ doc.info.text = doc.text
    PROVE  /\ documents' \in Seq(DocumentType)
           /\ Len(documents') = Len(documents)
           /\ Table'
<1>1. /\ documents' \in Seq(DocumentType)
      /\ Len(documents') = Len(documents)
      /\ \A e \in 1 .. Len(documents) : documents'[e] = IF e = d THEN doc ELSE documents[e]
  BY ExceptSeq DEF TypeOK
<1>2. PathsAreSound'
  BY <1>1 DEF Table, PathsAreSound
<1>3. UninitializedIsEmpty' /\ ChangesInitialized'
  BY DEF UninitializedIsEmpty, ChangesInitialized
<1>4. EditPositionIsAnalyzed'
  <2> SUFFICES ASSUME NEW e \in 1 .. Len(documents'),
                      documents'[e].edit_position # NoPosition, e # target'
               PROVE  /\ documents'[e].info.at = documents'[e].edit_position
                      /\ documents'[e].info.text = documents'[e].text
    BY DEF EditPositionIsAnalyzed
  <2>1. CASE e = d
    BY <1>1, <2>1
  <2>2. CASE e # d
    BY <1>1, <2>2 DEF Table, EditPositionIsAnalyzed, TypeOK
  <2> QED
    BY <2>1, <2>2
<1> QED
  BY <1>1, <1>2, <1>3, <1>4 DEF Table

LEMMA SessionIInv == IInv /\ (HandleInitialize \/ HandleShutdown) => IInv'
<1> SUFFICES ASSUME IInv, HandleInitialize \/ HandleShutdown PROVE IInv'
  OBVIOUS
<1> USE DEF IInv
<1>1. todo # <<>> /\ target = NoDocument
  BY DEF HandleInitialize, HandleShutdown, Request, Handling
<1>2. Tail(todo) \in Seq(Message)
  BY <1>1, FrameIsTyped
<1>3. CASE HandleInitialize
  <2> USE <1>3 DEF HandleInitialize, Answer, Done, database
  <2>1. TypeOK'
    BY <1>1, <1>2 DEF TypeOK, client
  <2>2. Table'
    BY DEF Table, PathsAreSound, UninitializedIsEmpty, EditPositionIsAnalyzed, ChangesInitialized
  <2> QED
    BY <2>1, <2>2
<1>4. CASE HandleShutdown
  <2> USE <1>4 DEF HandleShutdown, Answer, Done
  <2>1. documents' \in Seq(DocumentType) /\ Len(documents') = 0 /\ DOMAIN paths' = {}
    BY EmptySeq
  <2>2. target' \in NoDocument .. Len(documents')
    BY <1>1, <2>1 DEF NoDocument
  <2>3. TypeOK'
    BY <1>1, <1>2, <2>1, <2>2 DEF TypeOK, client
  <2>4. Table'
    BY <1>1, <2>1 DEF Table, PathsAreSound, UninitializedIsEmpty, EditPositionIsAnalyzed,
                      ChangesInitialized
  <2> QED
    BY <2>3, <2>4
<1> QED
  BY <1>3, <1>4

(* A document that is opened gets an id no path has. *)
LEMMA OpenIInv == IInv /\ HandleOpen => IInv'
<1> SUFFICES ASSUME IInv, HandleOpen PROVE IInv'
  OBVIOUS
<1> USE DEF IInv
<1>1. todo # <<>> /\ target = NoDocument /\ is_initialized
  BY DEF HandleOpen, Notification, Handling
<1>2. m \in Message /\ Tail(todo) \in Seq(Message)
  BY <1>1, FrameIsTyped
<1>3. PICK doc : doc = Analyzed(Document(m.text, "Client"))
  OBVIOUS
<1>4. /\ doc \in DocumentType
      /\ doc.info.at = doc.edit_position /\ doc.info.text = doc.text
  <2>1. m.text \in Text
    BY <1>2 DEF Message
  <2>2. Document(m.text, "Client") \in DocumentType
    BY <2>1, DocumentIsTyped
  <2> QED
    BY <1>3, <2>2, AnalysisIsOfDocument DEF TypeOK
<1>5. /\ documents' = Append(documents, doc)
      /\ paths' = [p \in DOMAIN paths \cup {m.path} |->
                       IF p = m.path THEN Len(documents) + 1 ELSE paths[p]]
      /\ error_count' = error_count + Diagnostics(m.text)
  BY <1>3 DEF HandleOpen
<1>6. /\ documents' \in Seq(DocumentType) /\ Len(documents') = Len(documents) + 1
      /\ Len(documents) \in Nat
      /\ \A d \in 1 .. Len(documents) : documents'[d] = documents[d]
      /\ documents'[Len(documents) + 1] = doc
  BY <1>4, <1>5 DEF TypeOK
<1>7. UNCHANGED <<inbox, draft, sent, status, exit_code, is_initialized, busy, target, rest,
                  maximum_errors>> /\ todo' = Tail(todo)
  BY DEF HandleOpen, Silently, Done, process, client
<1>8. TypeOK'
  <2>1. error_count' \in Nat
    <3>1. m.text \in Text /\ maximum_errors \in Nat /\ error_count \in Nat
      BY <1>2 DEF TypeOK, Message
    <3>2. Diagnostics(m.text) \in Nat
      BY <3>1, DiagnosticsAreCounted
    <3> QED
      BY <1>5, <3>1, <3>2
  <2>2. DOMAIN paths' \subseteq Paths \cup {NoPath}
    BY <1>2, <1>5 DEF TypeOK, Message
  <2>3. target' \in NoDocument .. Len(documents')
    BY <1>1, <1>6, <1>7 DEF NoDocument
  <2> QED
    BY <1>1, <1>2, <1>6, <1>7, <2>1, <2>2, <2>3 DEF TypeOK
<1>9. PathsAreSound'
  <2>1. /\ \A p \in DOMAIN paths : paths[p] \in 1 .. Len(documents)
        /\ \A p, q \in DOMAIN paths : paths[p] = paths[q] => p = q
    BY DEF Table, PathsAreSound
  <2>2. \A p \in DOMAIN paths' : paths'[p] \in 1 .. Len(documents')
    BY <1>5, <1>6, <2>1
  <2>3. \A p, q \in DOMAIN paths' : paths'[p] = paths'[q] => p = q
    BY <1>5, <1>6, <2>1
  <2> QED
    BY <1>1, <1>7, <2>2, <2>3 DEF PathsAreSound
<1>10. UninitializedIsEmpty' /\ ChangesInitialized'
  BY <1>1, <1>7 DEF UninitializedIsEmpty, ChangesInitialized
<1>11. EditPositionIsAnalyzed'
  <2> SUFFICES ASSUME NEW d \in 1 .. Len(documents'),
                      documents'[d].edit_position # NoPosition
               PROVE  /\ documents'[d].info.at = documents'[d].edit_position
                      /\ documents'[d].info.text = documents'[d].text
    BY DEF EditPositionIsAnalyzed
  <2>1. CASE d = Len(documents) + 1
    BY <1>4, <1>6, <2>1
  <2>2. CASE d # Len(documents) + 1
    <3>1. d \in 1 .. Len(documents) /\ d # target
      BY <1>1, <1>6, <2>2 DEF NoDocument
    <3> QED
      BY <1>6, <3>1 DEF Table, EditPositionIsAnalyzed
  <2> QED
    BY <2>1, <2>2
<1> QED
  BY <1>8, <1>9, <1>10, <1>11 DEF Table

LEMMA CloseIInv == IInv /\ HandleClose => IInv'
<1> SUFFICES ASSUME IInv, HandleClose PROVE IInv'
  OBVIOUS
<1> USE DEF IInv
<1>1. todo # <<>> /\ target = NoDocument /\ is_initialized /\ Id \in 1 .. Len(documents)
  BY DEF HandleClose, Notification, Handling, Known, Id, Table, PathsAreSound
<1>2. Tail(todo) \in Seq(Message)
  BY <1>1, FrameIsTyped
<1>3. UNCHANGED <<inbox, draft, sent, status, exit_code, is_initialized, busy, target, rest,
                  paths, maximum_errors, error_count>> /\ todo' = Tail(todo)
  BY DEF HandleClose, Silently, Done, process, client
<1>4. CASE documents[Id].ownership = "Client"
  <2>1. PICK d \in 1 .. Len(documents) : d = Id
    BY <1>1
  <2>2. PICK doc : doc = Document(<<>>, "Server")
    OBVIOUS
  <2>3. doc \in DocumentType /\ doc.edit_position = NoPosition
    BY <2>2, DocumentIsTyped, EmptySeq DEF Text, Document
  <2>4. documents' = [documents EXCEPT ![d] = doc]
    BY <1>4, <2>1, <2>2 DEF HandleClose
  <2>5. /\ documents' \in Seq(DocumentType)
        /\ Len(documents') = Len(documents)
        /\ Table'
    BY <1>1, <1>3, <2>3, <2>4, EntryKeepsTable
  <2>6. TypeOK'
    BY <1>1, <1>2, <1>3, <2>5 DEF TypeOK
  <2> QED
    BY <2>5, <2>6
<1>5. CASE documents[Id].ownership # "Client"
  <2>1. UNCHANGED documents
    BY <1>5 DEF HandleClose
  <2>2. TypeOK'
    BY <1>1, <1>2, <1>3, <2>1 DEF TypeOK
  <2> QED
    BY <1>3, <2>1, <2>2, TableKept
<1> QED
  BY <1>4, <1>5

(* The loop of handle_change works on a document that a path names. *)
LEMMA ChangeIInv ==
    IInv /\ (BeginChange \/ ApplyContentChange \/ AbandonChange \/ FinishChange) => IInv'
<1> SUFFICES ASSUME IInv, BeginChange \/ ApplyContentChange \/ AbandonChange \/ FinishChange
             PROVE  IInv'
  OBVIOUS
<1> USE DEF IInv
<1>1. CASE BeginChange
  <2>1. /\ todo # <<>> /\ busy /\ is_initialized /\ target = NoDocument
        /\ target' = paths[m.path] /\ rest' = m.changes /\ m.path \in DOMAIN paths
    BY <1>1 DEF BeginChange, Notification, Handling, Known, Id
  <2>2. paths[m.path] \in 1 .. Len(documents)
    BY <2>1 DEF Table, PathsAreSound
  <2>3. m.changes \in Seq(Change)
    BY <2>1, FrameIsTyped DEF Message
  <2> USE <1>1 DEF BeginChange, process, database, client
  <2>4. UNCHANGED <<documents, paths, is_initialized, error_count>>
    OBVIOUS
  <2>5. TypeOK'
    BY <2>1, <2>2, <2>3 DEF TypeOK, NoDocument
  <2>6. PathsAreSound' /\ UninitializedIsEmpty' /\ ChangesInitialized'
    BY <2>1, <2>2, <2>4 DEF Table, PathsAreSound, UninitializedIsEmpty, ChangesInitialized
  <2>7. EditPositionIsAnalyzed'
    <3> SUFFICES ASSUME NEW d \in 1 .. Len(documents), documents[d].edit_position # NoPosition
                 PROVE  /\ documents[d].info.at = documents[d].edit_position
                        /\ documents[d].info.text = documents[d].text
      BY <2>4 DEF EditPositionIsAnalyzed
    <3>1. d # target
      BY <2>1 DEF NoDocument
    <3> QED
      BY <3>1 DEF Table, EditPositionIsAnalyzed
  <2> QED
    BY <2>5, <2>6, <2>7 DEF Table
<1>2. ASSUME Changing
      PROVE  /\ target \in 1 .. Len(documents) /\ is_initialized /\ busy /\ todo # <<>>
             /\ documents[target] \in DocumentType
  <2>1. target \in 1 .. Len(documents) /\ is_initialized /\ busy /\ todo # <<>>
    BY <1>2 DEF Changing, TypeOK, Table, ChangesInitialized, NoDocument
  <2> QED
    BY <2>1, ElementOfSeq DEF TypeOK
<1>3. ASSUME rest # <<>>
      PROVE  c \in Change /\ Tail(rest) \in Seq(Change)
  BY <1>3, HeadTailProperties DEF TypeOK, c
<1>4. CASE ApplyContentChange
  <2>1. Changing /\ rest # <<>> /\ (c.kind = "whole" \/ InRange(documents[target].text, c))
    BY <1>4 DEF ApplyContentChange
  <2>2. PICK d \in 1 .. Len(documents) : d = target
    BY <1>2, <2>1
  <2>3. PICK doc : doc = Changed(documents[target], c)
    OBVIOUS
  <2>4. doc \in DocumentType
    BY <1>2, <1>3, <2>1, <2>3, ChangedIsTyped
  <2>5. /\ documents' = [documents EXCEPT ![d] = doc]
        /\ UNCHANGED <<inbox, draft, sent, status, exit_code, is_initialized, busy, todo,
                       target, paths, maximum_errors, error_count>>
        /\ rest' = Tail(rest)
    BY <1>4, <2>2, <2>3 DEF ApplyContentChange, process, client
  <2>6. /\ documents' \in Seq(DocumentType)
        /\ Len(documents') = Len(documents)
        /\ Table'
    BY <1>2, <2>1, <2>2, <2>4, <2>5, EntryKeepsTable
  <2>7. TypeOK'
    BY <1>3, <2>1, <2>5, <2>6 DEF TypeOK
  <2> QED
    BY <2>6, <2>7
<1>5. CASE AbandonChange
  <2>1. Changing
    BY <1>5 DEF AbandonChange
  <2>2. PICK d \in 1 .. Len(documents) : d = target
    BY <1>2, <2>1
  <2>3. PICK doc : doc = [documents[target] EXCEPT !.edit_position = NoPosition]
    OBVIOUS
  <2>4. doc \in DocumentType /\ doc.edit_position = NoPosition
    BY <1>2, <2>1, <2>3 DEF DocumentType, NoPosition
  <2>5. /\ documents' = [documents EXCEPT ![d] = doc]
        /\ UNCHANGED <<inbox, draft, sent, status, exit_code, is_initialized, busy,
                       paths, maximum_errors, error_count>>
        /\ target' = NoDocument /\ rest' = <<>> /\ todo' = Tail(todo)
    BY <1>5, <2>2, <2>3 DEF AbandonChange, process, client
  <2>6. /\ documents' \in Seq(DocumentType)
        /\ Len(documents') = Len(documents)
        /\ Table'
    BY <1>2, <2>1, <2>2, <2>4, <2>5, EntryKeepsTable
  <2>7. Tail(todo) \in Seq(Message) /\ <<>> \in Seq(Change)
    BY <1>2, <2>1, FrameIsTyped, EmptySeq
  <2>8. target' \in NoDocument .. Len(documents')
    BY <2>5, <2>6 DEF NoDocument, TypeOK
  <2>9. TypeOK'
    BY <2>5, <2>6, <2>7, <2>8 DEF TypeOK
  <2> QED
    BY <2>6, <2>9
<1>6. CASE FinishChange
  <2>1. Changing
    BY <1>6 DEF FinishChange
  <2>2. PICK d \in 1 .. Len(documents) : d = target
    BY <1>2, <2>1
  <2>3. PICK doc : doc = Analyzed(documents[target])
    OBVIOUS
  <2>4. /\ doc \in DocumentType
        /\ doc.info.at = doc.edit_position /\ doc.info.text = doc.text
    BY <1>2, <2>1, <2>3, AnalysisIsOfDocument DEF TypeOK
  <2>5. /\ documents' = [documents EXCEPT ![d] = doc]
        /\ UNCHANGED <<inbox, draft, sent, status, exit_code, is_initialized, busy, rest,
                       paths, maximum_errors>>
        /\ target' = NoDocument /\ todo' = Tail(todo)
        /\ error_count' = error_count + Diagnostics(doc.text)
    BY <1>6, <2>2, <2>3 DEF FinishChange, process, client
  <2>6. /\ documents' \in Seq(DocumentType)
        /\ Len(documents') = Len(documents)
        /\ Table'
    BY <1>2, <2>1, <2>2, <2>4, <2>5, EntryKeepsTable
  <2>7. error_count' \in Nat
    <3>1. doc.text \in Text /\ maximum_errors \in Nat /\ error_count \in Nat
      BY <2>4 DEF TypeOK, DocumentType
    <3>2. Diagnostics(doc.text) \in Nat
      BY <3>1, DiagnosticsAreCounted
    <3> QED
      BY <2>5, <3>1, <3>2
  <2>8. Tail(todo) \in Seq(Message)
    BY <1>2, <2>1, FrameIsTyped
  <2>9. target' \in NoDocument .. Len(documents')
    BY <2>5, <2>6 DEF NoDocument, TypeOK
  <2>10. TypeOK'
    BY <2>5, <2>6, <2>7, <2>8, <2>9 DEF TypeOK
  <2> QED
    BY <2>6, <2>10
<1> QED
  BY <1>1, <1>4, <1>5, <1>6

(* A completion leaves the edit position where its answer was computed. *)
LEMMA CompletionIInv == IInv /\ HandleCompletion => IInv'
<1> SUFFICES ASSUME IInv, HandleCompletion PROVE IInv'
  OBVIOUS
<1> USE DEF IInv
<1>1. todo # <<>> /\ target = NoDocument /\ is_initialized /\ Id \in 1 .. Len(documents)
  BY DEF HandleCompletion, Request, Handling, Known, Id, Table, PathsAreSound
<1>2. m \in Message /\ Tail(todo) \in Seq(Message)
  BY <1>1, FrameIsTyped
<1>3. UNCHANGED <<inbox, draft, sent, status, exit_code, is_initialized, busy, target, rest,
                  paths, maximum_errors>> /\ todo' = Tail(todo)
  BY DEF HandleCompletion, Answer, Done, process, client
<1>4. CASE documents[Id].edit_position # m.position
  <2>1. PICK d \in 1 .. Len(documents) : d = Id
    BY <1>1
  <2>2. PICK doc : doc = [documents[d] EXCEPT !.edit_position = m.position]
    OBVIOUS
  <2>3. doc \in DocumentType
    <3>1. documents[d] \in DocumentType
      BY ElementOfSeq DEF TypeOK
    <3>2. m.position \in Int
      BY <1>2 DEF Message
    <3> QED
      BY <2>2, <3>1, <3>2 DEF DocumentType
  <2>4. PICK new : new = Analyzed(doc)
    OBVIOUS
  <2>5. /\ new \in DocumentType
        /\ new.info.at = new.edit_position /\ new.info.text = new.text
    BY <2>3, <2>4, AnalysisIsOfDocument DEF TypeOK
  <2>6. /\ documents' = [documents EXCEPT ![d] = new]
        /\ error_count' = error_count + Diagnostics(doc.text)
    BY <1>4, <2>1, <2>2, <2>4 DEF HandleCompletion
  <2>7. /\ documents' \in Seq(DocumentType)
        /\ Len(documents') = Len(documents)
        /\ Table'
    BY <1>1, <1>3, <2>5, <2>6, EntryKeepsTable
  <2>8. error_count' \in Nat
    <3>1. doc.text \in Text /\ maximum_errors \in Nat /\ error_count \in Nat
      BY <2>3 DEF TypeOK, DocumentType
    <3>2. Diagnostics(doc.text) \in Nat
      BY <3>1, DiagnosticsAreCounted
    <3> QED
      BY <2>6, <3>1, <3>2
  <2>9. TypeOK'
    BY <1>1, <1>2, <1>3, <2>7, <2>8 DEF TypeOK
  <2> QED
    BY <2>7, <2>9
<1>5. CASE documents[Id].edit_position = m.position
  <2>1. UNCHANGED <<documents, error_count>>
    BY <1>5 DEF HandleCompletion, TypeOK
  <2>2. TypeOK'
    BY <1>1, <1>2, <1>3, <2>1 DEF TypeOK
  <2> QED
    BY <1>3, <2>1, <2>2, TableKept
<1> QED
  BY <1>4, <1>5

LEMMA NextIInv == IInv /\ [Next]_vars => IInv'
<1> SUFFICES ASSUME IInv, [Next]_vars PROVE IInv'
  OBVIOUS
<1>1. CASE Server
  BY <1>1, QuietIInv, SessionIInv, OpenIInv, CloseIInv, ChangeIInv, CompletionIInv
     DEF Server, QuietStep
<1>2. CASE Client
  BY <1>2, ClientIInv
<1>3. CASE UNCHANGED vars
  <2>1. TypeOK'
    BY <1>3 DEF IInv, TypeOK, vars, process, database, frame, client
  <2> QED
    BY <1>3, <2>1, TableKept DEF IInv, vars, process, database, frame
<1> QED
  BY <1>1, <1>2, <1>3 DEF Next

-----------------------------------------------------------------------------
(* The invariant holds for every set of documents, texts and changes. *)
THEOREM Inductive == Spec => []IInv
BY InitIInv, NextIInv, PTL DEF Spec

(* Every variable of the server keeps its type, so that an analysis of any *)
(* text the client can produce is counted in natural numbers.              *)
THEOREM TypeCorrect == Spec => []TypeOK
<1>1. IInv => TypeOK
  BY DEF IInv
<1> QED
  BY <1>1, Inductive, PTL

(* document_path never reaches its unreachable, for paths name distinct    *)
(* documents that exist; and no document outlives shutdown or precedes     *)
(* initialize, in the middle of a batch neither.                           *)
THEOREM TableStaysSound == Spec => []TableIsSound
<1>1. IInv => TableIsSound
  BY DEF IInv, Table, TableIsSound
<1> QED
  BY <1>1, Inductive, PTL

(* update_edit_position may skip the analysis when the position is the one *)
(* the document has.                                                       *)
THEOREM EditPositionStaysAnalyzed == Spec => []EditPositionIsAnalyzed
<1>1. IInv => EditPositionIsAnalyzed
  BY DEF IInv, Table
<1> QED
  BY <1>1, Inductive, PTL

(* A document is reached through a path or by a change that started there. *)
LEMMA OrphanStep ==
    ASSUME IInv, [Next]_vars, NEW d \in 1 .. Len(documents), d \notin Named
    PROVE  documents' = <<>> \/ documents'[d] = documents[d]
<1> USE DEF IInv
<1>1. CASE UNCHANGED documents
  BY <1>1
<1>2. ASSUME Known PROVE Id \in 1 .. Len(documents) /\ d # Id
  BY <1>2 DEF Known, Id, Named, Table, PathsAreSound
<1>3. ASSUME Changing PROVE target \in 1 .. Len(documents) /\ d # target
  BY <1>3 DEF Changing, Named, Table, PathsAreSound
<1>4. documents \in Seq(DocumentType)
  BY DEF TypeOK
<1>5. ASSUME NEW e \in 1 .. Len(documents), NEW doc, d # e,
             documents' = [documents EXCEPT ![e] = doc]
      PROVE  documents'[d] = documents[d]
  BY <1>4, <1>5
<1>6. CASE HandleShutdown
  BY <1>6 DEF HandleShutdown
<1>7. CASE HandleOpen
  <2>1. PICK doc : documents' = Append(documents, doc)
    BY <1>7 DEF HandleOpen
  <2> QED
    BY <1>4, <2>1
<1>8. CASE HandleClose \/ HandleCompletion
  <2>1. Known
    BY <1>8 DEF HandleClose, HandleCompletion
  <2>2. PICK e \in 1 .. Len(documents) : e = Id /\ d # e
    BY <1>2, <2>1
  <2>3. CASE \E doc : documents' = [documents EXCEPT ![e] = doc]
    BY <1>5, <2>2, <2>3
  <2> QED
    BY <1>1, <1>8, <2>2, <2>3 DEF HandleClose, HandleCompletion
<1>9. CASE ApplyContentChange \/ AbandonChange \/ FinishChange
  <2>1. Changing
    BY <1>9 DEF ApplyContentChange, AbandonChange, FinishChange
  <2>2. PICK e \in 1 .. Len(documents) : e = target /\ d # e
    BY <1>3, <2>1
  <2>3. \E doc : documents' = [documents EXCEPT ![e] = doc]
    BY <1>9, <2>2 DEF ApplyContentChange, AbandonChange, FinishChange
  <2> QED
    BY <1>5, <2>2, <2>3
<1>10. CASE QuietStep \/ HandleInitialize \/ BeginChange
  <2>1. UNCHANGED documents
    BY <1>10 DEF QuietStep, ReadFrame, WriteReplies, EndOfInput, Stop, RefuseMalformed,
       RefuseUninitialized, HandleExit, DropNotification, RefuseUnopened, ChangeOutOfRange,
       HandleChangeConfig, IgnoreNotification, HandleSymbols, SymbolsThrow, HandleRead,
       RefuseUnsupported, HandleInitialize, BeginChange, database
  <2> QED
    BY <2>1
<1>11. CASE Client
  <2>1. UNCHANGED documents
    BY <1>11 DEF Client, Initialize, Open, Close, ChangeText, ChangeConfig, AskAboutDocument,
       SayMalformed, SayOther, Shutdown, Exit, SendBatch, SendNothing, HangUp, Say, database
  <2> QED
    BY <2>1
<1>12. CASE UNCHANGED vars
  BY <1>12 DEF vars, database
<1> QED
  BY <1>6, <1>7, <1>8, <1>9, <1>10, <1>11, <1>12 DEF Next, Server, QuietStep

(* What a path named before it was opened again is never touched again. *)
THEOREM OrphansStayInert == Spec => OrphansAreInert
<1>1. IInv /\ [Next]_vars =>
          [\A d \in 1 .. Len(documents) :
              d \notin Named => documents' = <<>> \/ documents'[d] = documents[d]]_vars
  BY OrphanStep
<1> QED
  BY <1>1, Inductive, PTL DEF Spec, OrphansAreInert

-----------------------------------------------------------------------------
(***************************************************************************)
(* Proof that the server answers requests in the order in which they were  *)
(* sent, and none twice, for every client, alone or in batches, and every  *)
(* number of frames under way.                                             *)
(*                                                                         *)
(* An identifier goes through five places: the client's draft, the inbox,  *)
(* the rest of the frame that is being handled, the replies of the frame   *)
(* and the replies written.  The invariant is that each place is in order  *)
(* and that each precedes those behind it.                                 *)
(***************************************************************************)

Ids(some) == {some[i].id : i \in DOMAIN some} \ {NoId}
Ascends(some) ==
    \A i, j \in DOMAIN some :
        i < j /\ some[i].id # NoId /\ some[j].id # NoId => some[i].id < some[j].id
Precede(S, T) == \A a \in S, b \in T : a < b

InboxIds(box) == UNION {Ids(box[k]) : k \in DOMAIN box}
InboxAscends(box) ==
    /\ \A k \in DOMAIN box : Ascends(box[k])
    /\ \A k, l \in DOMAIN box : k < l => Precede(Ids(box[k]), Ids(box[l]))

(* The places of a line, the foremost first. *)
InLine(written, collected, current, queued, drafted, most) ==
    /\ Precede(written, collected \cup current \cup queued \cup drafted)
    /\ Precede(collected, current \cup queued \cup drafted)
    /\ Precede(current, queued \cup drafted)
    /\ Precede(queued, drafted)
    /\ written \cup collected \cup current \cup queued \cup drafted \subseteq 1 .. most

Codes     == {"ok", "Invalid_request", "Server_not_initialized", "Invalid_params", "Request_failed"}
ReplyType == [id : Nat, code : Codes]
Line ==
    /\ replies \in Seq(ReplyType) /\ replied \in Seq(ReplyType)
    /\ Ascends(replied) /\ Ascends(replies) /\ Ascends(todo)
    /\ InboxAscends(inbox) /\ Ascends(draft)
    /\ InLine(Ids(replied), Ids(replies), Ids(todo), InboxIds(inbox), Ids(draft), sent)

-----------------------------------------------------------------------------
(* What the operations on sequences do to their identifiers. *)

LEMMA EmptyAscends == Ids(<<>>) = {} /\ Ascends(<<>>)
BY DEF Ids, Ascends

LEMMA AppendAscends ==
    ASSUME NEW S, NEW some \in Seq(S), NEW e,
           Ascends(some), e.id # NoId => Precede(Ids(some), {e.id})
    PROVE  /\ Ascends(Append(some, e))
           /\ Ids(Append(some, e)) = Ids(some) \cup ({e.id} \ {NoId})
<1>1. some \in Seq(S \cup {e})
  BY SeqMonotonic
<1>2. PICK n \in Nat : n = Len(some) /\ DOMAIN some = 1 .. n
  BY LenProperties
<1>3. PICK more : more = Append(some, e)
  OBVIOUS
<1>4. /\ DOMAIN more = 1 .. n + 1
      /\ \A i \in 1 .. n : more[i] = some[i]
      /\ more[n + 1] = e
  BY <1>1, <1>2, <1>3, AppendProperties, LenProperties
<1>5. \A i \in 1 .. n + 1 : i \in 1 .. n \/ i = n + 1
  BY <1>2
<1>6. Ids(more) = Ids(some) \cup ({e.id} \ {NoId})
  <2>1. n + 1 \in 1 .. n + 1 /\ 1 .. n \subseteq 1 .. n + 1
    BY <1>2
  <2> QED
    BY <1>2, <1>4, <1>5, <2>1 DEF Ids
<1>7. Ascends(more)
  <2> SUFFICES ASSUME NEW i \in 1 .. n + 1, NEW j \in 1 .. n + 1, i < j,
                      more[i].id # NoId, more[j].id # NoId
               PROVE  more[i].id < more[j].id
    BY <1>4 DEF Ascends
  <2>1. i \in 1 .. n
    BY <1>2
  <2>2. CASE j \in 1 .. n
    BY <1>2, <1>4, <2>1, <2>2 DEF Ascends
  <2>3. CASE j = n + 1
    <3>1. some[i].id \in Ids(some)
      BY <1>2, <1>4, <2>1 DEF Ids
    <3> QED
      BY <1>4, <2>1, <2>3, <3>1 DEF Precede
  <2> QED
    BY <1>5, <2>2, <2>3
<1> QED
  BY <1>3, <1>6, <1>7

LEMMA TailAscends ==
    ASSUME NEW S, NEW some \in Seq(S), some # <<>>, Ascends(some)
    PROVE  /\ Ascends(Tail(some)) /\ Ids(Tail(some)) \subseteq Ids(some)
           /\ Head(some).id # NoId => /\ Head(some).id \in Ids(some)
                                      /\ Precede({Head(some).id}, Ids(Tail(some)))
<1>1. PICK n \in Nat : n = Len(some) /\ DOMAIN some = 1 .. n /\ n > 0
  BY LenProperties, EmptySeq
<1>2. PICK less : less = Tail(some)
  OBVIOUS
<1>3. DOMAIN less = 1 .. n - 1 /\ \A i \in 1 .. n - 1 : less[i] = some[i + 1]
  BY <1>1, <1>2, HeadTailProperties, LenProperties
<1>4. Head(some) = some[1] /\ 1 \in 1 .. n
  BY <1>1
<1>5. \A i \in 1 .. n - 1 : i + 1 \in 1 .. n /\ 1 < i + 1
  BY <1>1
<1>6. Ids(less) \subseteq Ids(some)
  BY <1>1, <1>3, <1>5 DEF Ids
<1>7. Ascends(less)
  <2> SUFFICES ASSUME NEW i \in 1 .. n - 1, NEW j \in 1 .. n - 1, i < j,
                      less[i].id # NoId, less[j].id # NoId
               PROVE  less[i].id < less[j].id
    BY <1>3 DEF Ascends
  <2>1. i + 1 < j + 1
    OBVIOUS
  <2> QED
    BY <1>1, <1>3, <1>5, <2>1 DEF Ascends
<1>8. ASSUME Head(some).id # NoId
      PROVE  Head(some).id \in Ids(some) /\ Precede({Head(some).id}, Ids(less))
  BY <1>1, <1>3, <1>4, <1>5, <1>8 DEF Ids, Ascends, Precede
<1> QED
  BY <1>2, <1>6, <1>7, <1>8

LEMMA ConcatAscends ==
    ASSUME NEW S, NEW some \in Seq(S), NEW more \in Seq(S),
           Ascends(some), Ascends(more), Precede(Ids(some), Ids(more))
    PROVE  /\ Ascends(some \o more)
           /\ Ids(some \o more) = Ids(some) \cup Ids(more)
<1>1. PICK n \in Nat : n = Len(some) /\ DOMAIN some = 1 .. n
  BY LenProperties
<1>2. PICK o \in Nat : o = Len(more) /\ DOMAIN more = 1 .. o
  BY LenProperties
<1>3. PICK both : both = some \o more
  OBVIOUS
<1>4. /\ DOMAIN both = 1 .. n + o
      /\ \A i \in 1 .. n + o : both[i] = IF i <= n THEN some[i] ELSE more[i - n]
  BY <1>1, <1>2, <1>3, ConcatProperties, LenProperties
<1>5. /\ \A i \in 1 .. n : i \in 1 .. n + o /\ both[i] = some[i]
      /\ \A i \in 1 .. o : n + i \in 1 .. n + o /\ both[n + i] = more[i]
      /\ \A i \in 1 .. n + o : i \in 1 .. n \/ i - n \in 1 .. o
  <2>1. ASSUME NEW i \in 1 .. o PROVE n + i \in 1 .. n + o /\ both[n + i] = more[i]
    <3>1. n + i \in 1 .. n + o /\ ~(n + i <= n) /\ (n + i) - n = i
      BY <1>1, <1>2
    <3> QED
      BY <1>4, <3>1
  <2>2. ASSUME NEW i \in 1 .. n PROVE i \in 1 .. n + o /\ both[i] = some[i]
    BY <1>1, <1>2, <1>4
  <2>3. \A i \in 1 .. n + o : i \in 1 .. n \/ i - n \in 1 .. o
    BY <1>1, <1>2
  <2> QED
    BY <2>1, <2>2, <2>3
<1>6. ASSUME NEW i \in 1 .. n + o PROVE i \in 1 .. n \/ \E k \in 1 .. o : i = n + k
  <2>1. CASE i - n \in 1 .. o
    <3>1. i = n + (i - n)
      BY <1>1, <1>2
    <3> QED
      BY <2>1, <3>1
  <2> QED
    BY <1>5, <2>1
<1>7. Ids(both) = Ids(some) \cup Ids(more)
  <2>1. Ids(both) \subseteq Ids(some) \cup Ids(more)
    <3> SUFFICES ASSUME NEW i \in 1 .. n + o, both[i].id # NoId
                 PROVE  both[i].id \in Ids(some) \cup Ids(more)
      BY <1>4 DEF Ids
    <3>1. CASE i \in 1 .. n
      BY <1>1, <1>5, <3>1 DEF Ids
    <3>2. CASE \E k \in 1 .. o : i = n + k
      BY <1>2, <1>5, <3>2 DEF Ids
    <3> QED
      BY <1>6, <3>1, <3>2
  <2>2. Ids(some) \cup Ids(more) \subseteq Ids(both)
    BY <1>1, <1>2, <1>4, <1>5 DEF Ids
  <2> QED
    BY <2>1, <2>2
<1>8. Ascends(both)
  <2> SUFFICES ASSUME NEW i \in 1 .. n + o, NEW j \in 1 .. n + o, i < j,
                      both[i].id # NoId, both[j].id # NoId
               PROVE  both[i].id < both[j].id
    BY <1>4 DEF Ascends
  <2>1. CASE i \in 1 .. n /\ j \in 1 .. n
    BY <1>1, <1>5, <2>1 DEF Ascends
  <2>2. CASE i \in 1 .. n /\ \E k \in 1 .. o : j = n + k
    <3>1. PICK k \in 1 .. o : j = n + k
      BY <2>2
    <3>2. both[i].id \in Ids(some) /\ both[j].id \in Ids(more)
      BY <1>1, <1>2, <1>5, <2>2, <3>1 DEF Ids
    <3> QED
      BY <3>2 DEF Precede
  <2>3. CASE \E k \in 1 .. o, l \in 1 .. o : i = n + k /\ j = n + l
    <3>1. PICK k \in 1 .. o, l \in 1 .. o : i = n + k /\ j = n + l
      BY <2>3
    <3>2. k < l
      BY <1>1, <1>2, <3>1
    <3>3. both[i] = more[k] /\ both[j] = more[l]
      BY <1>5, <3>1
    <3> QED
      BY <1>2, <3>2, <3>3 DEF Ascends
  <2>4. CASE j \in 1 .. n /\ i \notin 1 .. n
    BY <1>1, <1>2, <2>4
  <2> QED
    BY <1>6, <2>1, <2>2, <2>3, <2>4
<1> QED
  BY <1>3, <1>7, <1>8

(* The same for the inbox, whose elements are frames. *)
LEMMA InboxTail ==
    ASSUME NEW S, NEW box \in Seq(S), box # <<>>, InboxAscends(box)
    PROVE  /\ InboxAscends(Tail(box)) /\ Ascends(Head(box))
           /\ InboxIds(Tail(box)) \subseteq InboxIds(box)
           /\ Ids(Head(box)) \subseteq InboxIds(box)
           /\ Precede(Ids(Head(box)), InboxIds(Tail(box)))
<1>1. PICK n \in Nat : n = Len(box) /\ DOMAIN box = 1 .. n /\ n > 0
  BY LenProperties, EmptySeq
<1>2. PICK less : less = Tail(box)
  OBVIOUS
<1>3. DOMAIN less = 1 .. n - 1 /\ \A i \in 1 .. n - 1 : less[i] = box[i + 1]
  BY <1>1, <1>2, HeadTailProperties, LenProperties
<1>4. Head(box) = box[1] /\ 1 \in 1 .. n
  BY <1>1
<1>5. \A i \in 1 .. n - 1 : i + 1 \in 1 .. n /\ 1 < i + 1
  BY <1>1
<1>6. InboxIds(less) \subseteq InboxIds(box) /\ Ids(Head(box)) \subseteq InboxIds(box)
  BY <1>1, <1>3, <1>4, <1>5 DEF InboxIds
<1>7. Precede(Ids(Head(box)), InboxIds(less))
  BY <1>1, <1>3, <1>4, <1>5 DEF InboxIds, InboxAscends, Precede
<1>8. InboxAscends(less)
  <2>1. \A i, j \in 1 .. n - 1 : i < j => i + 1 < j + 1
    BY <1>1
  <2> QED
    BY <1>1, <1>3, <1>5, <2>1 DEF InboxAscends
<1> QED
  BY <1>1, <1>2, <1>4, <1>6, <1>7, <1>8 DEF InboxAscends

LEMMA InboxAppend ==
    ASSUME NEW S, NEW box \in Seq(S), NEW some,
           InboxAscends(box), Ascends(some), Precede(InboxIds(box), Ids(some))
    PROVE  /\ InboxAscends(Append(box, some))
           /\ InboxIds(Append(box, some)) = InboxIds(box) \cup Ids(some)
<1>1. box \in Seq(S \cup {some})
  BY SeqMonotonic
<1>2. PICK n \in Nat : n = Len(box) /\ DOMAIN box = 1 .. n
  BY LenProperties
<1>3. PICK more : more = Append(box, some)
  OBVIOUS
<1>4. /\ DOMAIN more = 1 .. n + 1
      /\ \A i \in 1 .. n : more[i] = box[i]
      /\ more[n + 1] = some
  BY <1>1, <1>2, <1>3, AppendProperties, LenProperties
<1>5. /\ \A i \in 1 .. n + 1 : i \in 1 .. n \/ i = n + 1
      /\ n + 1 \in 1 .. n + 1 /\ 1 .. n \subseteq 1 .. n + 1
      /\ \A i \in 1 .. n + 1 : ~(n + 1 < i)
  BY <1>2
<1>6. InboxIds(more) = InboxIds(box) \cup Ids(some)
  BY <1>2, <1>4, <1>5 DEF InboxIds
<1>7. \A k \in 1 .. n + 1 : Ascends(more[k])
  BY <1>2, <1>4, <1>5 DEF InboxAscends
<1>8. ASSUME NEW k \in 1 .. n + 1, NEW l \in 1 .. n + 1, k < l
      PROVE  Precede(Ids(more[k]), Ids(more[l]))
  <2>1. k \in 1 .. n
    BY <1>5, <1>8
  <2>2. CASE l \in 1 .. n
    BY <1>2, <1>4, <1>8, <2>1, <2>2 DEF InboxAscends
  <2>3. CASE l = n + 1
    <3>1. Ids(more[k]) \subseteq InboxIds(box)
      BY <1>2, <1>4, <2>1 DEF InboxIds
    <3> QED
      BY <1>4, <2>3, <3>1 DEF Precede
  <2> QED
    BY <1>5, <2>2, <2>3
<1> QED
  BY <1>3, <1>4, <1>6, <1>7, <1>8 DEF InboxAscends
-----------------------------------------------------------------------------
(* What a step does to the line. *)

LEMMA InitLine == Init => Line
<1> SUFFICES ASSUME Init PROVE Line
  OBVIOUS
<1>1. InboxIds(<<>>) = {} /\ InboxAscends(<<>>)
  BY DEF InboxIds, InboxAscends
<1>2. <<>> \in Seq(ReplyType)
  BY EmptySeq
<1> QED
  BY <1>1, <1>2, EmptyAscends DEF Init, Line, InLine, Precede

(* A message is taken off the frame, and answered or not. *)
Handled ==
    /\ todo # <<>> /\ todo' = Tail(todo)
    /\ UNCHANGED <<inbox, replied, draft, sent>>
    /\ \/ UNCHANGED replies
       \/ \E code \in Codes : replies' = Append(replies, Reply(Head(todo).id, code))

LEMMA HandledLine == IInv /\ Line /\ Handled => Line'
<1> SUFFICES ASSUME IInv, Line, Handled PROVE Line'
  OBVIOUS
<1>1. todo \in Seq(Message) /\ todo # <<>> /\ sent \in Nat
  BY DEF IInv, TypeOK, Handled
<1>2. /\ Ascends(Tail(todo)) /\ Ids(Tail(todo)) \subseteq Ids(todo)
      /\ Head(todo).id # NoId => /\ Head(todo).id \in Ids(todo)
                                 /\ Precede({Head(todo).id}, Ids(Tail(todo)))
  BY <1>1, TailAscends DEF Line
<1>3. CASE UNCHANGED replies
  BY <1>2, <1>3 DEF Handled, Line, InLine, Precede
<1>4. CASE \E code \in Codes : replies' = Append(replies, Reply(Head(todo).id, code))
  <2>1. PICK code \in Codes : replies' = Append(replies, Reply(Head(todo).id, code))
    BY <1>4
  <2>2. PICK reply : reply = Reply(Head(todo).id, code)
    OBVIOUS
  <2>3. reply.id = Head(todo).id /\ reply \in ReplyType
    <3>1. Head(todo) \in Message
      BY <1>1, HeadTailProperties
    <3> QED
      BY <2>2, <3>1 DEF Reply, ReplyType, Message
  <2>4. replies \in Seq(ReplyType) /\ Ascends(replies)
        /\ (reply.id # NoId => Precede(Ids(replies), {reply.id}))
    BY <1>2, <2>3 DEF Line, InLine, Precede
  <2>5. /\ Ascends(replies') /\ Ids(replies') = Ids(replies) \cup ({reply.id} \ {NoId})
        /\ replies' \in Seq(ReplyType)
    BY <2>1, <2>2, <2>3, <2>4, AppendAscends, AppendProperties
  <2>6. InLine(Ids(replied), Ids(replies'), Ids(Tail(todo)), InboxIds(inbox), Ids(draft), sent)
    BY <1>2, <2>3, <2>5 DEF Line, InLine, Precede
  <2> QED
    BY <1>2, <2>5, <2>6 DEF Handled, Line
<1> QED
  BY <1>3, <1>4 DEF Handled

LEMMA ReadLine == IInv /\ Line /\ ReadFrame => Line'
<1> SUFFICES ASSUME IInv, Line, ReadFrame PROVE Line'
  OBVIOUS
<1> USE DEF ReadFrame, client
<1>1. inbox \in Seq(Seq(Message)) /\ inbox # <<>>
  BY DEF IInv, TypeOK
<1>2. /\ InboxAscends(Tail(inbox)) /\ Ascends(Head(inbox))
      /\ InboxIds(Tail(inbox)) \subseteq InboxIds(inbox)
      /\ Ids(Head(inbox)) \subseteq InboxIds(inbox)
      /\ Precede(Ids(Head(inbox)), InboxIds(Tail(inbox)))
  BY <1>1, InboxTail DEF Line
<1>3. CASE Head(inbox) # <<>>
  BY <1>2, <1>3 DEF Line, InLine, Precede
<1>4. CASE Head(inbox) = <<>>
  <2>1. PICK reply : reply = Reply(NoId, "Invalid_request")
    OBVIOUS
  <2>2. reply.id = NoId /\ reply \in ReplyType
    BY <2>1 DEF Reply, ReplyType, Codes, NoId
  <2>3. replied \in Seq(ReplyType) /\ Ascends(replied) /\ replied' = Append(replied, reply)
    BY <1>4, <2>1 DEF Line
  <2>4. Ascends(replied') /\ Ids(replied') = Ids(replied) /\ replied' \in Seq(ReplyType)
    <3>1. /\ Ascends(Append(replied, reply))
          /\ Ids(Append(replied, reply)) = Ids(replied) \cup ({reply.id} \ {NoId})
      BY <2>2, <2>3, AppendAscends
    <3>2. {reply.id} \ {NoId} = {}
      BY <2>2
    <3>3. Append(replied, reply) \in Seq(ReplyType)
      BY <2>2, <2>3, AppendProperties
    <3> QED
      BY <2>3, <3>1, <3>2, <3>3
  <2>5. InLine(Ids(replied), Ids(replies), Ids(todo), InboxIds(Tail(inbox)), Ids(draft), sent)
    BY <1>2 DEF Line, InLine, Precede
  <2> QED
    BY <1>2, <1>4, <2>4, <2>5 DEF Line
<1> QED
  BY <1>3, <1>4

LEMMA WriteLine == IInv /\ Line /\ WriteReplies => Line'
<1> SUFFICES ASSUME IInv, Line, WriteReplies PROVE Line'
  OBVIOUS
<1>1. /\ replied' = replied \o replies /\ replies' = <<>>
      /\ UNCHANGED <<inbox, todo, draft, sent>>
  BY DEF WriteReplies, client
<1>2. /\ Ascends(replied') /\ Ids(replied') = Ids(replied) \cup Ids(replies)
      /\ replied' \in Seq(ReplyType)
  BY <1>1, ConcatAscends, ConcatProperties DEF Line, InLine, Precede
<1>3. Ids(replies') = {} /\ Ascends(replies') /\ replies' \in Seq(ReplyType)
  BY <1>1, EmptyAscends, EmptySeq
<1>4. InLine(Ids(replied'), Ids(replies'), Ids(todo), InboxIds(inbox), Ids(draft), sent)
  BY <1>2, <1>3 DEF Line, InLine, Precede
<1> QED
  BY <1>1, <1>2, <1>3, <1>4 DEF Line

LEMMA ServerLine == IInv /\ Line /\ Server => Line'
<1> SUFFICES ASSUME IInv, Line, Server PROVE Line'
  OBVIOUS
<1>1. CASE UNCHANGED <<inbox, todo, replies, replied, draft, sent>>
  BY <1>1 DEF Line
<1>2. ASSUME Changing PROVE todo # <<>>
  BY <1>2 DEF Changing, IInv, TypeOK
<1>3. ASSUME NEW code \in Codes, Handling, Answer(code) PROVE Handled
  <2>1. /\ todo # <<>> /\ todo' = Tail(todo)
        /\ UNCHANGED <<inbox, replied, draft, sent>>
    BY <1>3 DEF Handling, Answer, Done, client
  <2>2. replies' = Append(replies, Reply(Head(todo).id, code))
    BY <1>3 DEF Answer, m
  <2> QED
    BY <2>1, <2>2, Zenon DEF Handled
<1>4. ASSUME Handling, Silently PROVE Handled
  BY <1>4 DEF Handling, Silently, Done, client, Handled
<1>5. {"ok", "Invalid_request", "Server_not_initialized", "Invalid_params", "Request_failed"} \subseteq Codes
  BY DEF Codes
<1>6. CASE EndOfInput \/ Stop \/ BeginChange \/ ApplyContentChange \/ ChangeOutOfRange \/ SymbolsThrow
  BY <1>1, <1>6 DEF EndOfInput, Stop, BeginChange, ApplyContentChange, ChangeOutOfRange,
     SymbolsThrow, frame, client
<1>7. CASE RefuseMalformed \/ RefuseUninitialized \/ RefuseUnopened \/ RefuseUnsupported
  <2>1. Handled
    BY <1>3, <1>5, <1>7 DEF RefuseMalformed, RefuseUninitialized, RefuseUnopened,
       RefuseUnsupported, Request, Handling
  <2> QED
    BY <2>1, HandledLine
<1>8. CASE HandleInitialize \/ HandleShutdown \/ HandleCompletion \/ HandleSymbols \/ HandleRead
  <2>1. Handled
    BY <1>3, <1>5, <1>8 DEF HandleInitialize, HandleShutdown, HandleCompletion, HandleSymbols,
       HandleRead, Request, Handling
  <2> QED
    BY <2>1, HandledLine
<1>9. CASE HandleExit \/ DropNotification \/ HandleOpen \/ HandleClose
           \/ HandleChangeConfig \/ IgnoreNotification
  <2>1. Handled
    BY <1>4, <1>9 DEF HandleExit, DropNotification, HandleOpen, HandleClose, HandleChangeConfig,
       IgnoreNotification, Notification, Handling
  <2> QED
    BY <2>1, HandledLine
<1>10. CASE AbandonChange
  <2>1. /\ todo # <<>> /\ todo' = Tail(todo)
        /\ UNCHANGED <<inbox, replied, draft, sent>>
        /\ replies' = Append(replies, Reply(Head(todo).id, "Invalid_params"))
    BY <1>2, <1>10 DEF AbandonChange, client, m
  <2>2. Handled
    BY <1>5, <2>1 DEF Handled
  <2> QED
    BY <2>2, HandledLine
<1>11. CASE FinishChange
  <2>1. Handled
    BY <1>2, <1>11 DEF FinishChange, client, Handled
  <2> QED
    BY <2>1, HandledLine
<1> QED
  BY <1>6, <1>7, <1>8, <1>9, <1>10, <1>11, ReadLine, WriteLine DEF Server

(* An identifier larger than all others may stand at the end of the line,  *)
(* or before an empty end.                                                 *)
LEMMA NewIdInLine ==
    ASSUME NEW most \in Nat, NEW new \in SUBSET {most + 1}, NEW written, NEW collected,
           NEW current, NEW queued, NEW drafted,
           InLine(written, collected, current, queued, drafted, most)
    PROVE  /\ InLine(written, collected, current, queued, drafted \cup new, most + 1)
           /\ drafted = {} => InLine(written, collected, current, queued \cup new, {}, most + 1)
           /\ Precede(queued, new) /\ Precede(drafted, new)
<1> DEFINE all == written \cup collected \cup current \cup queued \cup drafted
<1>1. all \subseteq 1 .. most
  BY DEF InLine
<1>2. \A a \in all : \A b \in new : a < b
  BY <1>1
<1>3. all \cup new \subseteq 1 .. most + 1
  <2>1. 1 .. most \subseteq 1 .. most + 1 /\ most + 1 \in 1 .. most + 1
    OBVIOUS
  <2> QED
    BY <1>1, <2>1
<1>4. /\ Precede(written, new) /\ Precede(collected, new) /\ Precede(current, new)
      /\ Precede(queued, new) /\ Precede(drafted, new)
  BY <1>2 DEF Precede
<1> QED
  BY <1>3, <1>4 DEF InLine, Precede

(* What the client says has no identifier, or one larger than any before.  *)
LEMMA SayLine ==
    ASSUME IInv, Line, NEW message, message.id \in {NoId, sent + 1}, Say(message)
    PROVE  Line'
<1>1. /\ sent \in Nat /\ sent' = sent + 1 /\ inbox \in Seq(Seq(Message)) /\ draft \in Seq(Message)
      /\ UNCHANGED <<todo, replies, replied>>
  BY DEF IInv, TypeOK, Say, frame
<1> DEFINE new == {message.id} \ {NoId}
<1>2. new \subseteq {sent + 1}
  OBVIOUS
<1>3. CASE draft = <<>> /\ inbox' = Append(inbox, <<message>>) /\ UNCHANGED draft
  <2>1. Ascends(<<message>>) /\ Ids(<<message>>) = new
    BY DEF Ascends, Ids
  <2>2. Precede(InboxIds(inbox), Ids(<<message>>))
    BY <1>1, <1>2, <2>1, NewIdInLine DEF Line
  <2>3. InboxAscends(inbox') /\ InboxIds(inbox') = InboxIds(inbox) \cup new
    BY <1>1, <1>3, <2>1, <2>2, InboxAppend DEF Line
  <2>4. Ids(draft) = {}
    BY <1>3, EmptyAscends
  <2> HIDE DEF new
  <2>5. InLine(Ids(replied), Ids(replies), Ids(todo), InboxIds(inbox'), Ids(draft), sent')
    <3>1. InLine(Ids(replied), Ids(replies), Ids(todo), InboxIds(inbox), {}, sent)
      BY <2>4 DEF Line
    <3>2. InLine(Ids(replied), Ids(replies), Ids(todo), InboxIds(inbox) \cup new, {}, sent + 1)
      BY <1>1, <1>2, <3>1, NewIdInLine
    <3> QED
      BY <1>1, <2>3, <2>4, <3>2
  <2> QED
    BY <1>1, <1>3, <2>3, <2>5 DEF Line
<1>4. CASE draft' = Append(draft, message) /\ UNCHANGED inbox
  <2>1. message.id # NoId => Precede(Ids(draft), {message.id})
    <3>1. Precede(Ids(draft), new)
      BY <1>1, <1>2, NewIdInLine DEF Line
    <3> QED
      BY <3>1 DEF Precede
  <2>2. Ascends(draft') /\ Ids(draft') = Ids(draft) \cup new
    BY <1>1, <1>4, <2>1, AppendAscends DEF Line
  <2> HIDE DEF new
  <2>3. InLine(Ids(replied), Ids(replies), Ids(todo), InboxIds(inbox), Ids(draft'), sent')
    <3>1. InLine(Ids(replied), Ids(replies), Ids(todo), InboxIds(inbox), Ids(draft), sent)
      BY DEF Line
    <3>2. InLine(Ids(replied), Ids(replies), Ids(todo), InboxIds(inbox), Ids(draft) \cup new,
                 sent + 1)
      BY <1>1, <1>2, <3>1, NewIdInLine
    <3> QED
      BY <1>1, <2>2, <3>2
  <2> QED
    BY <1>1, <1>4, <2>2, <2>3 DEF Line
<1> QED
  BY <1>3, <1>4 DEF Say

LEMMA ClientLine == IInv /\ Line /\ Client => Line'
<1> SUFFICES ASSUME IInv, Line, Client PROVE Line'
  OBVIOUS
<1>1. ASSUME NEW method PROVE Note(method).id = NoId /\ Ask(method).id = sent + 1
  BY DEF Note, Ask, Blank
<1>2. CASE SendBatch
  <2>1. /\ inbox' = Append(inbox, draft) /\ draft' = <<>> /\ inbox \in Seq(Seq(Message))
        /\ UNCHANGED <<todo, replies, replied, sent>>
    BY <1>2 DEF SendBatch, frame, IInv, TypeOK
  <2>2. InboxAscends(inbox') /\ InboxIds(inbox') = InboxIds(inbox) \cup Ids(draft)
    BY <2>1, InboxAppend DEF Line, InLine
  <2>3. Ids(draft') = {} /\ Ascends(draft')
    BY <2>1, EmptyAscends
  <2>4. InLine(Ids(replied), Ids(replies), Ids(todo), InboxIds(inbox'), Ids(draft'), sent)
    BY <2>2, <2>3 DEF Line, InLine, Precede
  <2> QED
    BY <2>1, <2>2, <2>3, <2>4 DEF Line
<1>3. CASE SendNothing
  <2>1. /\ inbox' = Append(inbox, <<>>) /\ inbox \in Seq(Seq(Message)) /\ sent' = sent + 1
        /\ sent \in Nat /\ UNCHANGED <<todo, replies, replied, draft>>
    BY <1>3 DEF SendNothing, frame, IInv, TypeOK
  <2>2. InboxAscends(inbox') /\ InboxIds(inbox') = InboxIds(inbox)
    BY <2>1, InboxAppend, EmptyAscends DEF Line, Precede
  <2>3. InLine(Ids(replied), Ids(replies), Ids(todo), InboxIds(inbox), Ids(draft), sent')
    BY <2>1 DEF Line, InLine, Precede
  <2> QED
    BY <2>1, <2>2, <2>3 DEF Line
<1>4. CASE HangUp
  BY <1>4 DEF HangUp, frame, Line
<1>5. CASE Initialize \/ SayMalformed \/ SayOther \/ Shutdown \/ Exit
  <2>1. PICK message : message.id \in {NoId, sent + 1} /\ Say(message)
    <3>1. \E method : Say(Note(method)) \/ Say(Ask(method))
      BY <1>5 DEF Initialize, SayMalformed, SayOther, Shutdown, Exit
    <3> QED
      BY <1>1, <3>1
  <2> QED
    BY <2>1, SayLine
<1>6. CASE Open
  <2>1. PICK p \in Paths, t \in Texts : Say([About(p, Note("didOpen")) EXCEPT !.text = t])
    BY <1>6 DEF Open
  <2>2. [About(p, Note("didOpen")) EXCEPT !.text = t].id = NoId
    BY DEF About, Note, Blank
  <2>3. PICK message : message = [About(p, Note("didOpen")) EXCEPT !.text = t]
    OBVIOUS
  <2>4. Say(message) /\ message.id = NoId
    BY <2>1, <2>2, <2>3, Zenon
  <2> QED
    BY <2>4, SayLine
<1>7. CASE Close
  <2>1. PICK p \in Addressable : Say(About(p, Note("didClose")))
    BY <1>7 DEF Close
  <2>2. About(p, Note("didClose")).id = NoId
    BY DEF About, Note, Blank
  <2> QED
    BY <2>1, <2>2, SayLine
<1>8. CASE ChangeText
  <2>1. PICK p \in Addressable, changes \in Changes :
          Say([About(p, Note("didChange")) EXCEPT !.changes = changes])
    BY <1>8 DEF ChangeText
  <2>2. [About(p, Note("didChange")) EXCEPT !.changes = changes].id = NoId
    BY DEF About, Note, Blank
  <2>3. PICK message : message = [About(p, Note("didChange")) EXCEPT !.changes = changes]
    OBVIOUS
  <2>4. Say(message) /\ message.id = NoId
    BY <2>1, <2>2, <2>3, Zenon
  <2> QED
    BY <2>4, SayLine
<1>9. CASE ChangeConfig
  <2>1. PICK limit \in Limits : Say([Note("didChangeConfiguration") EXCEPT !.limit = limit])
    BY <1>9 DEF ChangeConfig
  <2>2. [Note("didChangeConfiguration") EXCEPT !.limit = limit].id = NoId
    BY DEF Note, Blank
  <2>3. PICK message : message = [Note("didChangeConfiguration") EXCEPT !.limit = limit]
    OBVIOUS
  <2>4. Say(message) /\ message.id = NoId
    BY <2>1, <2>2, <2>3, Zenon
  <2> QED
    BY <2>4, SayLine
<1>10. CASE AskAboutDocument
  <2>1. PICK p \in Addressable, method \in RequestsOfDocument, position \in Positions \cup {NoPosition} :
          Say([About(p, Ask(method)) EXCEPT !.position = position])
    BY <1>10 DEF AskAboutDocument
  <2>2. [About(p, Ask(method)) EXCEPT !.position = position].id = sent + 1
    BY DEF About, Ask, Note, Blank
  <2>3. PICK message : message = [About(p, Ask(method)) EXCEPT !.position = position]
    OBVIOUS
  <2>4. Say(message) /\ message.id = sent + 1
    BY <2>1, <2>2, <2>3, Zenon
  <2> QED
    BY <2>4, SayLine
<1> QED
  BY <1>2, <1>3, <1>4, <1>5, <1>6, <1>7, <1>8, <1>9, <1>10 DEF Client

LEMMA NextLine == IInv /\ Line /\ [Next]_vars => Line'
<1>1. Line /\ UNCHANGED vars => Line'
  BY DEF Line, vars, frame, client
<1> QED
  BY <1>1, ServerLine, ClientLine DEF Next

(* A client that matches replies to its requests by their identifiers sees *)
(* them in the order it sent them, and none twice, whatever it sends, how  *)
(* it groups it, and however far ahead of the server it is.                *)
THEOREM RepliesStayInOrder == Spec => []RepliesInOrder
<1>1. Init => Line
  BY InitLine
<1>2. IInv /\ Line /\ [Next]_vars => Line'
  BY NextLine
<1>3. Line => RepliesInOrder
  BY DEF Line, Ascends, RepliesInOrder
<1> QED
  BY <1>1, <1>2, <1>3, Inductive, PTL DEF Spec

-----------------------------------------------------------------------------
(***************************************************************************)
(* Proofs about LanguageServer for a client that keeps to the protocol and *)
(* sets no error limit.  Between the client's texts and the server's lie   *)
(* the messages under way: what remains of the frame, the frames not read  *)
(* yet and the batch being put together.  The invariant is that these      *)
(* messages lead from the texts the server has to those of the client, one *)
(* message after the other, each in order where it stands.                 *)
(***************************************************************************)

Civil == Polite /\ Limits \subseteq {0}

(* A view is what the client takes the server to know.  A message a polite *)
(* client may send in one view leads to another.                           *)
View(p, texts) == [phase |-> p, mirror |-> texts]
ClientView == View(phase, mirror)

Tells(message, method) == message.id = NoId /\ message.method = method
Asks(message, method)  == message.id # NoId /\ message.method = method
OpenIn(v, p) == p \in Paths /\ v.mirror[p] # Closed
Shows(v, w, p, text) == w = View(v.phase, [v.mirror EXCEPT ![p] = text])
LastText(v, message) ==
    After(v.mirror[message.path], message.changes)[Len(message.changes)]

Opens(v, message, w) ==
    /\ Tells(message, "didOpen") /\ v.phase = "active"
    /\ message.path \in Paths /\ ~OpenIn(v, message.path)
    /\ Shows(v, w, message.path, message.text)
Closes(v, message, w) ==
    /\ Tells(message, "didClose") /\ v.phase = "active" /\ OpenIn(v, message.path)
    /\ Shows(v, w, message.path, Closed)
Edits(v, message, w) ==
    /\ Tells(message, "didChange") /\ v.phase = "active" /\ OpenIn(v, message.path)
    /\ Applicable(v.mirror[message.path], message.changes)
    /\ Shows(v, w, message.path, LastText(v, message))
Begins(v, message, w) ==
    /\ Asks(message, "initialize") /\ v.phase = "fresh"
    /\ w = View("active", v.mirror)
Ends(v, message, w) ==
    /\ Asks(message, "shutdown") /\ v.phase = "active"
    /\ w = View("shut down", [p \in Paths |-> Closed])
Leaves(v, message, w) ==
    /\ Tells(message, "exit") /\ v.phase = "shut down"
    /\ w = View("gone", v.mirror)
Passing(v, message) ==
    \/ Tells(message, "didChangeConfiguration") /\ message.limit = 0
    \/ Tells(message, "ignored") \/ Asks(message, "unsupported")
    \/ \E method \in RequestsOfDocument : Asks(message, method) /\ OpenIn(v, message.path)

Leads(v, message, w) ==
    \/ Opens(v, message, w) \/ Closes(v, message, w) \/ Edits(v, message, w)
    \/ Begins(v, message, w) \/ Ends(v, message, w) \/ Leaves(v, message, w)
    \/ v.phase = "active" /\ Passing(v, message) /\ w = v

(* The messages of a frame, and of several, one after the other. *)
Reaches(v, messages, w) ==
    \E views : /\ views[0] = v /\ views[Len(messages)] = w
               /\ \A i \in 1 .. Len(messages) : Leads(views[i - 1], messages[i], views[i])
Passes(v, frames, w) ==
    \E views : /\ views[0] = v /\ views[Len(frames)] = w
               /\ \A i \in 1 .. Len(frames) : Reaches(views[i - 1], frames[i], views[i])

(* What the server has of an open document is complete, and its            *)
(* diagnostics are shown.                                                  *)
UpToDate(doc, text, shown) ==
    /\ doc.text = text /\ doc.info.text = text /\ doc.info.env
    /\ doc.info.resolved = Len(text) /\ shown = Errors(text)

(* A didChange under way has made the first so many of its changes. *)
Under(v) ==
    /\ m.method = "didChange" /\ m.path \in DOMAIN paths /\ paths[m.path] = target
    /\ \E k \in 0 .. Len(m.changes) :
          /\ rest = SubSeq(m.changes, k + 1, Len(m.changes))
          /\ documents[target].text = After(v.mirror[m.path], m.changes)[k]

(* The server is where it should be in a view. *)
Keeps(v) ==
    /\ DOMAIN v.mirror = Paths
    /\ is_initialized = (v.phase = "active")
    /\ exit_code = IF v.phase = "gone" THEN 0 ELSE Running
    /\ \A p \in Paths : OpenIn(v, p) =>
          /\ p \in DOMAIN paths
          /\ paths[p] # target => UpToDate(documents[paths[p]], v.mirror[p], display[p])
    /\ target # NoDocument => Under(v)

Quiescent == /\ status \in {"running", "returned"} /\ maximum_errors = 0
             /\ ~busy => todo = <<>>
             /\ DOMAIN display = Paths
Pipe(now) == \E mid, last : /\ Reaches(now, todo, mid)
                            /\ Passes(mid, inbox, last)
                            /\ Reaches(last, draft, ClientView)
Peace == Quiescent /\ \E now : Keeps(now) /\ Pipe(now)

-----------------------------------------------------------------------------
(* Messages one after the other. *)

LEMMA ReachesNothing ==
    /\ \A v : Reaches(v, <<>>, v)
    /\ \A v, w : Reaches(v, <<>>, w) => v = w
<1>1. ASSUME NEW v PROVE Reaches(v, <<>>, v)
  <2>1. PICK views : views = [i \in {0} |-> v]
    OBVIOUS
  <2>2. views[0] = v /\ Len(<<>>) = 0
    BY <2>1
  <2> QED
    BY <2>2 DEF Reaches
<1>2. ASSUME NEW v, NEW w, Reaches(v, <<>>, w) PROVE v = w
  <2>1. Len(<<>>) = 0
    OBVIOUS
  <2> QED
    BY <1>2, <2>1 DEF Reaches
<1> QED
  BY <1>1, <1>2

LEMMA ReachesFirst ==
    ASSUME NEW S, NEW messages \in Seq(S), messages # <<>>, NEW v, NEW w,
           Reaches(v, messages, w)
    PROVE  \E u : Leads(v, Head(messages), u) /\ Reaches(u, Tail(messages), w)
<1>1. PICK views : /\ views[0] = v /\ views[Len(messages)] = w
                   /\ \A i \in 1 .. Len(messages) : Leads(views[i - 1], messages[i], views[i])
  BY DEF Reaches
<1>2. PICK n \in Nat : n = Len(messages)
  OBVIOUS
<1>3. n >= 1 /\ Head(messages) = messages[1]
  BY <1>2
<1>4. PICK behind : behind = Tail(messages)
  OBVIOUS
<1>5. Len(behind) = n - 1 /\ \A i \in 1 .. n - 1 : behind[i] = messages[i + 1]
  BY <1>2, <1>3, <1>4, HeadTailProperties
<1>6. Leads(v, Head(messages), views[1])
  <2>1. 1 \in 1 .. Len(messages) /\ 1 - 1 = 0
    BY <1>2, <1>3
  <2>2. Leads(views[1 - 1], messages[1], views[1])
    BY <1>1, <2>1
  <2> QED
    BY <1>1, <1>3, <2>1, <2>2
<1>7. Reaches(views[1], behind, w)
  <2>1. PICK later : later = [i \in 0 .. n - 1 |-> views[i + 1]]
    OBVIOUS
  <2>2. later[0] = views[1] /\ later[Len(behind)] = w
    <3>1. 0 \in 0 .. n - 1 /\ n - 1 \in 0 .. n - 1 /\ (n - 1) + 1 = n /\ 0 + 1 = 1
      BY <1>3
    <3> QED
      BY <1>1, <1>2, <1>5, <2>1, <3>1
  <2>3. ASSUME NEW i \in 1 .. Len(behind)
        PROVE  Leads(later[i - 1], behind[i], later[i])
    <3>1. /\ i \in 1 .. n - 1 /\ i + 1 \in 1 .. Len(messages) /\ (i + 1) - 1 = i
          /\ i - 1 \in 0 .. n - 1 /\ i \in 0 .. n - 1 /\ (i - 1) + 1 = i
      BY <1>2, <1>3, <1>5
    <3>2. Leads(views[(i + 1) - 1], messages[i + 1], views[i + 1])
      BY <1>1, <3>1
    <3>3. later[i - 1] = views[i] /\ later[i] = views[i + 1] /\ behind[i] = messages[i + 1]
      BY <1>5, <2>1, <3>1
    <3> QED
      BY <3>1, <3>2, <3>3
  <2> QED
    BY <2>2, <2>3 DEF Reaches
<1> QED
  BY <1>4, <1>6, <1>7

LEMMA ReachesLast ==
    ASSUME NEW S, NEW messages \in Seq(S), NEW message \in S, NEW v, NEW w, NEW x,
           Reaches(v, messages, w), Leads(w, message, x)
    PROVE  Reaches(v, Append(messages, message), x)
<1>1. PICK views : /\ views[0] = v /\ views[Len(messages)] = w
                   /\ \A i \in 1 .. Len(messages) : Leads(views[i - 1], messages[i], views[i])
  BY DEF Reaches
<1>2. PICK n \in Nat : n = Len(messages)
  OBVIOUS
<1>3. PICK longer : longer = Append(messages, message)
  OBVIOUS
<1>4. /\ Len(longer) = n + 1 /\ longer[n + 1] = message
      /\ \A i \in 1 .. n : longer[i] = messages[i]
  BY <1>2, <1>3, AppendProperties
<1>5. PICK more : more = [i \in 0 .. n + 1 |-> IF i <= n THEN views[i] ELSE x]
  OBVIOUS
<1>6. more[n + 1] = x /\ \A i \in 0 .. n : more[i] = views[i]
  BY <1>5
<1>7. more[0] = v /\ more[Len(longer)] = x
  BY <1>1, <1>4, <1>6
<1>8. ASSUME NEW i \in 1 .. Len(longer)
      PROVE  Leads(more[i - 1], longer[i], more[i])
  <2>1. CASE i = n + 1
    <3>1. i - 1 = n /\ n \in 0 .. n
      BY <2>1
    <3>2. more[i - 1] = w
      BY <1>1, <1>2, <1>6, <3>1
    <3> QED
      BY <1>4, <1>6, <2>1, <3>2
  <2>2. CASE i # n + 1
    <3>1. i \in 1 .. n /\ i \in 0 .. n /\ i - 1 \in 0 .. n
      BY <1>4, <2>2
    <3>2. Leads(views[i - 1], messages[i], views[i])
      BY <1>1, <1>2, <3>1
    <3> QED
      BY <1>4, <1>6, <3>1, <3>2
  <2> QED
    BY <2>1, <2>2
<1>9. Reaches(v, longer, x)
  BY <1>7, <1>8 DEF Reaches
<1> QED
  BY <1>3, <1>9

LEMMA PassesNothing ==
    /\ \A v : Passes(v, <<>>, v)
    /\ \A v, w : Passes(v, <<>>, w) => v = w
<1>1. ASSUME NEW v PROVE Passes(v, <<>>, v)
  <2>1. PICK views : views = [i \in {0} |-> v]
    OBVIOUS
  <2>2. views[0] = v /\ Len(<<>>) = 0
    BY <2>1
  <2> QED
    BY <2>2 DEF Passes
<1>2. ASSUME NEW v, NEW w, Passes(v, <<>>, w) PROVE v = w
  <2>1. Len(<<>>) = 0
    OBVIOUS
  <2> QED
    BY <1>2, <2>1 DEF Passes
<1> QED
  BY <1>1, <1>2

LEMMA PassesFirst ==
    ASSUME NEW S, NEW frames \in Seq(S), frames # <<>>, NEW v, NEW w,
           Passes(v, frames, w)
    PROVE  \E u : Reaches(v, Head(frames), u) /\ Passes(u, Tail(frames), w)
<1>1. PICK views : /\ views[0] = v /\ views[Len(frames)] = w
                   /\ \A i \in 1 .. Len(frames) : Reaches(views[i - 1], frames[i], views[i])
  BY DEF Passes
<1>2. PICK n \in Nat : n = Len(frames)
  OBVIOUS
<1>3. n >= 1 /\ Head(frames) = frames[1]
  BY <1>2
<1>4. PICK behind : behind = Tail(frames)
  OBVIOUS
<1>5. Len(behind) = n - 1 /\ \A i \in 1 .. n - 1 : behind[i] = frames[i + 1]
  BY <1>2, <1>3, <1>4, HeadTailProperties
<1>6. Reaches(v, Head(frames), views[1])
  <2>1. 1 \in 1 .. Len(frames) /\ 1 - 1 = 0
    BY <1>2, <1>3
  <2>2. Reaches(views[1 - 1], frames[1], views[1])
    BY <1>1, <2>1
  <2> QED
    BY <1>1, <1>3, <2>1, <2>2
<1>7. Passes(views[1], behind, w)
  <2>1. PICK later : later = [i \in 0 .. n - 1 |-> views[i + 1]]
    OBVIOUS
  <2>2. later[0] = views[1] /\ later[Len(behind)] = w
    <3>1. 0 \in 0 .. n - 1 /\ n - 1 \in 0 .. n - 1 /\ (n - 1) + 1 = n /\ 0 + 1 = 1
      BY <1>3
    <3> QED
      BY <1>1, <1>2, <1>5, <2>1, <3>1
  <2>3. ASSUME NEW i \in 1 .. Len(behind)
        PROVE  Reaches(later[i - 1], behind[i], later[i])
    <3>1. /\ i \in 1 .. n - 1 /\ i + 1 \in 1 .. Len(frames) /\ (i + 1) - 1 = i
          /\ i - 1 \in 0 .. n - 1 /\ i \in 0 .. n - 1 /\ (i - 1) + 1 = i
      BY <1>2, <1>3, <1>5
    <3>2. Reaches(views[(i + 1) - 1], frames[i + 1], views[i + 1])
      BY <1>1, <3>1
    <3>3. later[i - 1] = views[i] /\ later[i] = views[i + 1] /\ behind[i] = frames[i + 1]
      BY <1>5, <2>1, <3>1
    <3> QED
      BY <3>1, <3>2, <3>3
  <2> QED
    BY <2>2, <2>3 DEF Passes
<1> QED
  BY <1>4, <1>6, <1>7

LEMMA PassesLast ==
    ASSUME NEW S, NEW frames \in Seq(S), NEW added \in S, NEW v, NEW w, NEW x,
           Passes(v, frames, w), Reaches(w, added, x)
    PROVE  Passes(v, Append(frames, added), x)
<1>1. PICK views : /\ views[0] = v /\ views[Len(frames)] = w
                   /\ \A i \in 1 .. Len(frames) : Reaches(views[i - 1], frames[i], views[i])
  BY DEF Passes
<1>2. PICK n \in Nat : n = Len(frames)
  OBVIOUS
<1>3. PICK longer : longer = Append(frames, added)
  OBVIOUS
<1>4. /\ Len(longer) = n + 1 /\ longer[n + 1] = added
      /\ \A i \in 1 .. n : longer[i] = frames[i]
  BY <1>2, <1>3, AppendProperties
<1>5. PICK more : more = [i \in 0 .. n + 1 |-> IF i <= n THEN views[i] ELSE x]
  OBVIOUS
<1>6. more[n + 1] = x /\ \A i \in 0 .. n : more[i] = views[i]
  BY <1>5
<1>7. more[0] = v /\ more[Len(longer)] = x
  BY <1>1, <1>4, <1>6
<1>8. ASSUME NEW i \in 1 .. Len(longer)
      PROVE  Reaches(more[i - 1], longer[i], more[i])
  <2>1. CASE i = n + 1
    <3>1. i - 1 = n /\ n \in 0 .. n
      BY <2>1
    <3>2. more[i - 1] = w
      BY <1>1, <1>2, <1>6, <3>1
    <3> QED
      BY <1>4, <1>6, <2>1, <3>2
  <2>2. CASE i # n + 1
    <3>1. i \in 1 .. n /\ i \in 0 .. n /\ i - 1 \in 0 .. n
      BY <1>4, <2>2
    <3>2. Reaches(views[i - 1], frames[i], views[i])
      BY <1>1, <1>2, <3>1
    <3> QED
      BY <1>4, <1>6, <3>1, <3>2
  <2> QED
    BY <2>1, <2>2
<1>9. Passes(v, longer, x)
  BY <1>7, <1>8 DEF Passes
<1> QED
  BY <1>3, <1>9

-----------------------------------------------------------------------------
(* The texts a list of changes passes through: they are what their         *)
(* equation says, for there is a function that satisfies it.               *)
Edited(text, change) ==
    IF change.kind = "whole" THEN change.text
    ELSE EditText(text, change.from, change.to, change.text)
Follows(after, text, changes, n) ==
    after = [i \in 0 .. n |-> IF i = 0 THEN text ELSE Edited(after[i - 1], changes[i])]

LEMMA TextsExist ==
    ASSUME NEW text, NEW changes, NEW n \in Nat
    PROVE  \E after : Follows(after, text, changes, n)
<1> DEFINE Lacking == {k \in Nat : ~\E after : Follows(after, text, changes, k)}
<1>1. ASSUME Lacking # {}
      PROVE  FALSE
  <2>1. PICK k \in Lacking : \A j \in Lacking : k <= j
    <3>1. Lacking \subseteq Nat
      OBVIOUS
    <3> QED
      BY <1>1, <3>1, LeastNumber
  <2>2. CASE k = 0
    <3>1. PICK after : after = [i \in 0 .. 0 |-> text]
      OBVIOUS
    <3>2. Follows(after, text, changes, 0)
      BY <3>1 DEF Follows
    <3> QED
      BY <2>1, <2>2, <3>2
  <2>3. CASE k # 0
    <3>1. k \in Nat /\ k - 1 \in Nat /\ ~(k <= k - 1)
      BY <2>1, <2>3
    <3>2. k - 1 \notin Lacking
      BY <2>1, <3>1
    <3>3. PICK before : Follows(before, text, changes, k - 1)
      BY <3>1, <3>2
    <3>4. PICK after : after = [i \in 0 .. k |-> IF i = k THEN Edited(before[k - 1], changes[k])
                                                          ELSE before[i]]
      OBVIOUS
    <3>5. after[k] = Edited(before[k - 1], changes[k])
          /\ \A i \in 0 .. k - 1 : after[i] = before[i]
      BY <3>1, <3>4
    <3>6. ASSUME NEW i \in 0 .. k
          PROVE  after[i] = IF i = 0 THEN text ELSE Edited(after[i - 1], changes[i])
      <4>1. CASE i = k
        <5>1. k - 1 \in 0 .. k - 1
          BY <3>1
        <5> QED
          BY <2>3, <3>5, <4>1, <5>1
      <4>2. CASE i # k
        <5>1. i \in 0 .. k - 1 /\ (i # 0 => i - 1 \in 0 .. k - 1)
          BY <3>1, <4>2
        <5>2. before[i] = IF i = 0 THEN text ELSE Edited(before[i - 1], changes[i])
          BY <3>3, <5>1 DEF Follows
        <5> QED
          BY <3>5, <5>1, <5>2
      <4> QED
        BY <4>1, <4>2
    <3>7. Follows(after, text, changes, k)
      <4>1. after = [i \in 0 .. k |-> after[i]]
        BY <3>4
      <4>2. [i \in 0 .. k |-> after[i]]
            = [i \in 0 .. k |-> IF i = 0 THEN text ELSE Edited(after[i - 1], changes[i])]
        BY <3>6
      <4> QED
        BY <4>1, <4>2 DEF Follows
    <3> QED
      BY <2>1, <3>7
  <2> QED
    BY <2>2, <2>3
<1> QED
  BY <1>1

LEMMA AfterFollows ==
    ASSUME NEW text, NEW changes, Len(changes) \in Nat
    PROVE  /\ After(text, changes)[0] = text
           /\ \A i \in 1 .. Len(changes) :
                 After(text, changes)[i] = Edited(After(text, changes)[i - 1], changes[i])
<1>1. \E after : Follows(after, text, changes, Len(changes))
  BY TextsExist
<1>2. PICK after : after = CHOOSE f : Follows(f, text, changes, Len(changes))
  OBVIOUS
<1>3. Follows(after, text, changes, Len(changes))
  BY <1>1, <1>2, Zenon
<1>4. After(text, changes) = CHOOSE f : Follows(f, text, changes, Len(changes))
  BY DEF After, Follows, Edited
<1>5. After(text, changes) = after
  BY <1>2, <1>4
<1>6. after[0] = text
  BY <1>3 DEF Follows
<1>7. ASSUME NEW i \in 1 .. Len(changes)
      PROVE  after[i] = Edited(after[i - 1], changes[i])
  <2>1. i \in 0 .. Len(changes) /\ i # 0
    OBVIOUS
  <2> QED
    BY <1>3, <2>1 DEF Follows
<1> QED
  BY <1>5, <1>6, <1>7

-----------------------------------------------------------------------------
(* The client.  Whatever it says leads from its view to its next one.      *)

LEMMA KeepsOn ==
    ASSUME Peace, UNCHANGED <<process, database, frame, display>>,
           \A now : Pipe(now) => Pipe(now)'
    PROVE  Peace'
<1>1. Quiescent'
  BY DEF Peace, Quiescent, process, database, frame
<1>2. PICK now : Keeps(now) /\ Pipe(now)
  BY DEF Peace
<1>3. Keeps(now)'
  BY <1>2 DEF Keeps, Under, m, process, database, frame
<1> QED
  BY <1>1, <1>2, <1>3 DEF Peace

LEMMA SaidIsHeard ==
    ASSUME TypeOK, TypeOK', Peace, NEW message, Say(message),
           Leads(ClientView, message, ClientView')
    PROVE  Peace'
<1>0. message \in Message
  <2>1. CASE draft' = Append(draft, message)
    <3>1. Len(draft) + 1 \in 1 .. Len(draft') /\ draft'[Len(draft) + 1] = message
      BY <2>1 DEF TypeOK
    <3> QED
      BY <3>1, ElementOfSeq DEF TypeOK
  <2>2. CASE inbox' = Append(inbox, <<message>>)
    <3>1. Len(inbox) + 1 \in 1 .. Len(inbox') /\ inbox'[Len(inbox) + 1] = <<message>>
      BY <2>2 DEF TypeOK
    <3>2. <<message>> \in Seq(Message)
      BY <3>1, ElementOfSeq DEF TypeOK
    <3> QED
      BY <3>2
  <2> QED
    BY <2>1, <2>2 DEF Say
<1>1. UNCHANGED <<process, database, frame, display>>
  BY DEF Say
<1>2. todo' = todo
  BY <1>1 DEF frame
<1>3. inbox \in Seq(Seq(Message)) /\ draft \in Seq(Message) /\ <<message>> \in Seq(Message)
  BY <1>0 DEF TypeOK
<1>4. ASSUME NEW now, Pipe(now)
      PROVE  Pipe(now)'
  <2>1. PICK mid, last : /\ Reaches(now, todo, mid) /\ Passes(mid, inbox, last)
                         /\ Reaches(last, draft, ClientView)
    BY <1>4 DEF Pipe
  <2>2. CASE draft = <<>> /\ inbox' = Append(inbox, <<message>>) /\ UNCHANGED draft
    <3>1. last = ClientView
      BY <2>1, <2>2, ReachesNothing
    <3>2. Reaches(last, <<message>>, ClientView')
      <4>1. Reaches(last, <<>>, last) /\ <<>> \in Seq(Message)
            /\ Append(<<>>, message) = <<message>>
        BY ReachesNothing
      <4>2. Reaches(last, Append(<<>>, message), ClientView')
        BY <1>0, <3>1, <4>1, ReachesLast
      <4> QED
        BY <4>1, <4>2
    <3>3. Passes(mid, inbox', ClientView')
      BY <1>3, <2>1, <2>2, <3>2, PassesLast
    <3>4. Reaches(ClientView', draft', ClientView')
      BY <2>2, ReachesNothing
    <3>5. Reaches(now, todo', mid)
      BY <1>2, <2>1
    <3> QED
      BY <3>3, <3>4, <3>5 DEF Pipe
  <2>3. CASE draft' = Append(draft, message) /\ UNCHANGED inbox
    <3>1. Reaches(last, draft', ClientView')
      BY <1>0, <1>3, <2>1, <2>3, ReachesLast
    <3>2. Passes(mid, inbox', last) /\ Reaches(now, todo', mid)
      BY <1>2, <2>1, <2>3
    <3> QED
      BY <3>1, <3>2 DEF Pipe
  <2> QED
    BY <2>2, <2>3 DEF Say
<1> QED
  BY <1>1, <1>4, KeepsOn

(* The fields of what it says. *)
LEMMA Wording ==
    ASSUME TypeOK, NEW method, NEW p
    PROVE  /\ Tells(Note(method), method) /\ Note(method).limit = 0
           /\ Asks(Ask(method), method)
           /\ Tells(About(p, Note(method)), method) /\ About(p, Note(method)).path = p
           /\ Asks(About(p, Ask(method)), method) /\ About(p, Ask(method)).path = p
           /\ \A t : LET message == [About(p, Note(method)) EXCEPT !.text = t] IN
                 Tells(message, method) /\ message.path = p /\ message.text = t
           /\ \A t : LET message == [About(p, Note(method)) EXCEPT !.changes = t] IN
                 Tells(message, method) /\ message.path = p /\ message.changes = t
           /\ \A t : LET message == [Note(method) EXCEPT !.limit = t] IN
                 Tells(message, method) /\ message.limit = t
           /\ \A t : LET message == [About(p, Ask(method)) EXCEPT !.position = t] IN
                 Asks(message, method) /\ message.path = p
<1>1. sent + 1 # NoId
  BY DEF TypeOK, NoId
<1> QED
  BY <1>1 DEF Tells, Asks, About, Note, Ask, Blank

LEMMA ClientPeace ==
    ASSUME Civil, TypeOK, TypeOK', Peace, Client
    PROVE  Peace'
<1> USE DEF Civil, View, ClientView
<1>1. CASE Initialize
  <2>1. phase = "fresh" /\ Say(Ask("initialize")) /\ phase' = "active" /\ mirror' = mirror
    BY <1>1 DEF Initialize
  <2>2. Begins(ClientView, Ask("initialize"), ClientView')
    BY <2>1, Wording DEF Begins
  <2> QED
    BY <2>1, <2>2, SaidIsHeard DEF Leads
<1>2. CASE Open
  <2>1. PICK p \in Paths, t \in Texts :
          /\ phase = "active" /\ ~IsOpen(p)
          /\ Say([About(p, Note("didOpen")) EXCEPT !.text = t])
          /\ mirror' = [mirror EXCEPT ![p] = t] /\ phase' = phase
    BY <1>2 DEF Open, Session, Mirror
  <2>2. PICK message : message = [About(p, Note("didOpen")) EXCEPT !.text = t]
    OBVIOUS
  <2>3. Tells(message, "didOpen") /\ message.path = p /\ message.text = t
    BY <2>2, Wording
  <2>4. Opens(ClientView, message, ClientView')
    BY <2>1, <2>3 DEF Opens, OpenIn, IsOpen, Shows
  <2> QED
    BY <2>1, <2>2, <2>4, SaidIsHeard DEF Leads
<1>3. CASE Close
  <2>1. PICK p \in Paths : /\ phase = "active" /\ IsOpen(p)
                           /\ Say(About(p, Note("didClose")))
                           /\ mirror' = [mirror EXCEPT ![p] = Closed] /\ phase' = phase
    BY <1>3 DEF Close, Addressable, Session, Mirror
  <2>2. PICK message : message = About(p, Note("didClose"))
    OBVIOUS
  <2>3. Tells(message, "didClose") /\ message.path = p
    BY <2>2, Wording
  <2>4. Closes(ClientView, message, ClientView')
    BY <2>1, <2>3 DEF Closes, OpenIn, IsOpen, Shows
  <2> QED
    BY <2>1, <2>2, <2>4, SaidIsHeard DEF Leads
<1>4. CASE ChangeText
  <2>1. PICK p \in Paths, changes \in Changes :
          /\ phase = "active" /\ IsOpen(p) /\ Applicable(mirror[p], changes)
          /\ Say([About(p, Note("didChange")) EXCEPT !.changes = changes])
          /\ mirror' = [mirror EXCEPT ![p] = After(mirror[p], changes)[Len(changes)]]
          /\ phase' = phase
    BY <1>4 DEF ChangeText, Addressable, Session, Mirror
  <2>2. PICK message : message = [About(p, Note("didChange")) EXCEPT !.changes = changes]
    OBVIOUS
  <2>3. Tells(message, "didChange") /\ message.path = p /\ message.changes = changes
    BY <2>2, Wording
  <2>4. Edits(ClientView, message, ClientView')
    BY <2>1, <2>3 DEF Edits, OpenIn, IsOpen, Shows, LastText
  <2> QED
    BY <2>1, <2>2, <2>4, SaidIsHeard DEF Leads
<1>5. CASE ChangeConfig
  <2>1. PICK limit \in Limits :
          /\ phase = "active" /\ UNCHANGED <<phase, mirror>>
          /\ Say([Note("didChangeConfiguration") EXCEPT !.limit = limit])
    BY <1>5 DEF ChangeConfig, Session
  <2>2. PICK message : message = [Note("didChangeConfiguration") EXCEPT !.limit = limit]
    OBVIOUS
  <2>3. Tells(message, "didChangeConfiguration") /\ message.limit = 0
    BY <2>2, Wording
  <2>4. Leads(ClientView, message, ClientView')
    BY <2>1, <2>3 DEF Leads, Passing
  <2> QED
    BY <2>1, <2>2, <2>4, SaidIsHeard
<1>6. CASE AskAboutDocument
  <2>1. PICK p \in Paths, method \in RequestsOfDocument, position \in Positions \cup {NoPosition} :
          /\ phase = "active" /\ IsOpen(p) /\ UNCHANGED <<phase, mirror>>
          /\ Say([About(p, Ask(method)) EXCEPT !.position = position])
    BY <1>6 DEF AskAboutDocument, Addressable, Session
  <2>2. PICK message : message = [About(p, Ask(method)) EXCEPT !.position = position]
    OBVIOUS
  <2>3. Asks(message, method) /\ message.path = p
    BY <2>2, Wording
  <2>4. Leads(ClientView, message, ClientView')
    BY <2>1, <2>3 DEF Leads, Passing, OpenIn, IsOpen
  <2> QED
    BY <2>1, <2>2, <2>4, SaidIsHeard
<1>7. CASE SayMalformed \/ SendNothing \/ HangUp
  BY <1>7 DEF SayMalformed, SendNothing, HangUp
<1>8. CASE SayOther
  <2>1. PICK message \in {Note("ignored"), Ask("unsupported")} :
          phase = "active" /\ Say(message) /\ UNCHANGED <<phase, mirror>>
    BY <1>8 DEF SayOther, Session
  <2>2. Tells(message, "ignored") \/ Asks(message, "unsupported")
    BY <2>1, Wording
  <2>3. Leads(ClientView, message, ClientView')
    BY <2>1, <2>2 DEF Leads, Passing
  <2> QED
    BY <2>1, <2>3, SaidIsHeard
<1>9. CASE Shutdown
  <2>1. /\ phase = "active" /\ Say(Ask("shutdown")) /\ phase' = "shut down"
        /\ mirror' = [p \in Paths |-> Closed]
    BY <1>9 DEF Shutdown, Session, Mirror
  <2>2. Ends(ClientView, Ask("shutdown"), ClientView')
    BY <2>1, Wording DEF Ends
  <2> QED
    BY <2>1, <2>2, SaidIsHeard DEF Leads
<1>10. CASE Exit
  <2>1. phase = "shut down" /\ Say(Note("exit")) /\ phase' = "gone" /\ mirror' = mirror
    BY <1>10 DEF Exit
  <2>2. Leaves(ClientView, Note("exit"), ClientView')
    BY <2>1, Wording DEF Leaves
  <2> QED
    BY <2>1, <2>2, SaidIsHeard DEF Leads
<1>11. CASE SendBatch
  <2>1. /\ inbox' = Append(inbox, draft) /\ draft' = <<>>
        /\ UNCHANGED <<process, database, frame, display, phase, mirror>>
    BY <1>11 DEF SendBatch
  <2>2. todo' = todo /\ ClientView' = ClientView
    BY <2>1 DEF frame
  <2>3. ASSUME NEW now, Pipe(now)
        PROVE  Pipe(now)'
    <3>1. PICK mid, last : /\ Reaches(now, todo, mid) /\ Passes(mid, inbox, last)
                           /\ Reaches(last, draft, ClientView)
      BY <2>3 DEF Pipe
    <3>2. Passes(mid, inbox', ClientView)
      BY <2>1, <3>1, PassesLast DEF TypeOK
    <3>3. Reaches(ClientView, draft', ClientView)
      BY <2>1, ReachesNothing
    <3> QED
      BY <2>2, <3>1, <3>2, <3>3 DEF Pipe
  <2> QED
    BY <2>1, <2>3, KeepsOn
<1> QED
  BY <1>1, <1>2, <1>3, <1>4, <1>5, <1>6, <1>7, <1>8, <1>9, <1>10, <1>11 DEF Client

-----------------------------------------------------------------------------
(* The server.  It takes the first message of the pipe, and what is behind *)
(* it leads on from the view that message leads to.                        *)

Behind(u) == \E mid, last : /\ Reaches(u, Tail(todo), mid)
                            /\ Passes(mid, inbox, last)
                            /\ Reaches(last, draft, ClientView)

LEMMA HandlesNext ==
    ASSUME TypeOK, Peace, todo # <<>>
    PROVE  \E now, u : Keeps(now) /\ Leads(now, m, u) /\ Behind(u)
<1>1. PICK now, mid, last : /\ Keeps(now) /\ Reaches(now, todo, mid)
                            /\ Passes(mid, inbox, last)
                            /\ Reaches(last, draft, ClientView)
  BY DEF Peace, Pipe
<1>2. PICK u : Leads(now, m, u) /\ Reaches(u, Tail(todo), mid)
  BY <1>1, ReachesFirst DEF TypeOK, m
<1> QED
  BY <1>1, <1>2 DEF Behind

LEMMA HandledPeace ==
    ASSUME NEW u, Behind(u), Keeps(u)', Quiescent', todo' = Tail(todo),
           UNCHANGED <<inbox, client>>
    PROVE  Peace'
<1>1. ClientView' = ClientView /\ draft' = draft
  BY DEF ClientView, client
<1>2. Pipe(u)'
  BY <1>1 DEF Behind, Pipe
<1> QED
  BY <1>2 DEF Peace

(* A step that changes no document. *)
LEMMA KeepsStill ==
    ASSUME NEW now, Keeps(now), target = NoDocument,
           UNCHANGED <<is_initialized, exit_code, documents, paths, display, target>>
    PROVE  Keeps(now)'
BY DEF Keeps

LEMMA PathIsFound ==
    ASSUME NEW table, NEW p \in DOMAIN table,
           \A q \in DOMAIN table : table[q] = table[p] => q = p
    PROVE  DocumentPath(table, table[p]) = p
BY Zenon DEF DocumentPath

(* Without a limit an analysis is complete. *)
LEMMA AnalysisIsComplete ==
    ASSUME TypeOK, maximum_errors = 0, NEW doc \in DocumentType
    PROVE  UpToDate(Analyzed(doc), doc.text, Analyzed(doc).info.shown)
<1>1. doc.text \in Text /\ error_count \in Nat
  BY DEF TypeOK, DocumentType
<1>2. ~CutShort(doc.text)
  BY <1>1 DEF CutShort
<1>3. Diagnostics(doc.text) = Errors(doc.text)
  BY <1>2 DEF Diagnostics
<1>4. Resolved(doc.text) = 1 .. Len(doc.text)
  BY <1>2 DEF Resolved
<1>5. Len(doc.text) \in Nat
  BY <1>1 DEF Text
<1>6. Cardinality(1 .. Len(doc.text)) = Len(doc.text)
  BY <1>5, FS_Interval
<1>7. PICK info : info = [text |-> doc.text, at |-> doc.edit_position,
                          shown |-> Errors(doc.text), resolved |-> Len(doc.text), env |-> TRUE]
  OBVIOUS
<1>8. Analyzed(doc) = [doc EXCEPT !.info = info]
  BY <1>3, <1>4, <1>6, <1>7 DEF Analyzed
<1>9. Analyzed(doc).info = info /\ Analyzed(doc).text = doc.text
  BY <1>8 DEF DocumentType
<1> QED
  BY <1>7, <1>9 DEF UpToDate

LEMMA PathsAreIds ==
    ASSUME IInv, NEW p \in DOMAIN paths
    PROVE  /\ paths[p] \in 1 .. Len(documents) /\ paths[p] # NoDocument
           /\ \A q \in DOMAIN paths : paths[q] = paths[p] => q = p
<1>1. paths[p] \in 1 .. Len(documents)
  BY DEF IInv, Table, PathsAreSound
<1>2. paths[p] # NoDocument
  BY <1>1 DEF NoDocument
<1> QED
  BY <1>1, <1>2 DEF IInv, Table, PathsAreSound

(* What a polite client never brings about. *)
LEMMA Impolite ==
    ASSUME IInv, Peace
    PROVE  ~(RefuseMalformed \/ RefuseUninitialized \/ DropNotification \/ RefuseUnopened
             \/ SymbolsThrow)
<1> SUFFICES ASSUME RefuseMalformed \/ RefuseUninitialized \/ DropNotification \/ RefuseUnopened
                    \/ SymbolsThrow
             PROVE  FALSE
  OBVIOUS
<1>1. Handling
  BY DEF RefuseMalformed, RefuseUninitialized, DropNotification, RefuseUnopened, SymbolsThrow,
         Request
<1>2. todo # <<>> /\ target = NoDocument
  BY <1>1 DEF Handling
<1>3. PICK now, u : Keeps(now) /\ Leads(now, m, u)
  BY <1>2, HandlesNext DEF IInv
<1> USE <1>3 DEF Leads, Opens, Closes, Edits, Begins, Ends, Leaves, Passing, Tells, Asks,
                 RequestsOfDocument
<1>4. CASE RefuseMalformed
  BY <1>4 DEF RefuseMalformed
<1>5. CASE RefuseUninitialized
  <2>1. m.id # NoId /\ m.method # "initialize" /\ ~is_initialized
    BY <1>5 DEF RefuseUninitialized, IsRequest
  <2> QED
    BY <2>1 DEF Keeps
<1>6. CASE DropNotification
  <2>1. m.id = NoId /\ m.method # "exit" /\ ~is_initialized
    BY <1>6 DEF DropNotification, IsNotification
  <2> QED
    BY <2>1 DEF Keeps
<1>7. CASE RefuseUnopened
  <2>1. /\ \/ m.id # NoId /\ m.method \in RequestsOfDocument
           \/ m.id = NoId /\ m.method \in NotificationsOfDocument
        /\ m.path \notin DOMAIN paths
    BY <1>7 DEF RefuseUnopened, IsNotification, IsRequest
  <2>2. OpenIn(now, m.path)
    BY <2>1 DEF NotificationsOfDocument
  <2> QED
    BY <2>1, <2>2 DEF Keeps, OpenIn
<1>8. CASE SymbolsThrow
  <2>1. /\ m.id # NoId /\ m.method = "documentSymbol" /\ m.path \in DOMAIN paths
        /\ ~Outlined(documents[paths[m.path]])
    BY <1>8 DEF SymbolsThrow, Request, IsRequest, Known, Id
  <2>2. OpenIn(now, m.path)
    BY <2>1
  <2>3. paths[m.path] # target => UpToDate(documents[paths[m.path]], now.mirror[m.path],
                                           display[m.path])
    BY <2>2 DEF Keeps, OpenIn
  <2>4. PICK d : d = paths[m.path]
    OBVIOUS
  <2>5. d # target
    BY <1>2, <2>1, <2>4, PathsAreIds
  <2> QED
    BY <2>1, <2>3, <2>4, <2>5 DEF UpToDate, Outlined
<1> QED
  BY <1>4, <1>5, <1>6, <1>7, <1>8

-----------------------------------------------------------------------------
(* Its handlers. *)

(* One document replaced by one that is up to date with the view that      *)
(* follows, and shown.                                                     *)
LEMMA OtherDocumentsKept ==
    ASSUME IInv, NEW v, NEW w, Keeps(v), NEW path \in DOMAIN paths, path \in Paths,
           target \in {NoDocument, paths[path]}, target' = NoDocument, UNCHANGED paths,
           NEW doc, documents' = [documents EXCEPT ![paths[path]] = doc],
           \A q \in Paths \ {path} : display'[q] = display[q] /\ w.mirror[q] = v.mirror[q],
           OpenIn(w, path) => UpToDate(doc, w.mirror[path], display'[path])
    PROVE  \A p \in Paths : OpenIn(w, p) =>
              /\ p \in DOMAIN paths'
              /\ UpToDate(documents'[paths'[p]], w.mirror[p], display'[p])
<1> SUFFICES ASSUME NEW p \in Paths, OpenIn(w, p)
             PROVE  /\ p \in DOMAIN paths'
                    /\ UpToDate(documents'[paths'[p]], w.mirror[p], display'[p])
  OBVIOUS
<1>1. PICK d \in 1 .. Len(documents) : d = paths[path]
  BY PathsAreIds
<1>2. documents'[d] = doc /\ \A e \in 1 .. Len(documents) : e # d => documents'[e] = documents[e]
  BY <1>1 DEF IInv, TypeOK
<1>3. CASE p = path
  BY <1>1, <1>2, <1>3
<1>4. CASE p # path
  <2>1. OpenIn(v, p)
    BY <1>4 DEF OpenIn
  <2>2. p \in DOMAIN paths /\ (paths[p] # target => UpToDate(documents[paths[p]], v.mirror[p],
                                                             display[p]))
    BY <2>1 DEF Keeps
  <2>3. PICK e : e = paths[p]
    OBVIOUS
  <2>4. e \in 1 .. Len(documents) /\ e # NoDocument /\ e # d
    BY <1>1, <1>4, <2>2, <2>3, PathsAreIds
  <2>5. e # target
    BY <1>1, <2>4
  <2>6. UpToDate(documents[e], v.mirror[p], display[p])
    BY <2>2, <2>3, <2>5
  <2>7. documents'[e] = documents[e] /\ display'[p] = display[p] /\ w.mirror[p] = v.mirror[p]
    BY <1>2, <1>4, <2>4
  <2> QED
    BY <2>2, <2>3, <2>6, <2>7
<1> QED
  BY <1>3, <1>4

(* Handlers that change no document. *)
LEMMA PassingPeace ==
    ASSUME Civil, IInv, Peace,
           HandleExit \/ HandleInitialize \/ HandleShutdown \/ HandleChangeConfig
           \/ IgnoreNotification \/ HandleSymbols \/ HandleRead \/ RefuseUnsupported
    PROVE  Peace'
<1>1. Handling
  BY DEF HandleExit, HandleInitialize, HandleShutdown, HandleChangeConfig, IgnoreNotification,
         HandleSymbols, HandleRead, RefuseUnsupported, Request, Notification
<1>2. todo # <<>> /\ target = NoDocument /\ busy /\ status = "running"
  BY <1>1 DEF Handling
<1>3. PICK now, u : Keeps(now) /\ Leads(now, m, u) /\ Behind(u)
  BY <1>2, HandlesNext DEF IInv
<1>4. UNCHANGED <<inbox, client, target, busy, status>> /\ todo' = Tail(todo) /\ display' = display
  BY DEF HandleExit, HandleInitialize, HandleShutdown, HandleChangeConfig, IgnoreNotification,
         HandleSymbols, HandleRead, RefuseUnsupported, Silently, Answer, Done, process
<1>5. SUFFICES Keeps(u)' /\ maximum_errors' = 0
  <2>1. Quiescent'
    BY <1>2, <1>4, <1>5 DEF Peace, Quiescent
  <2> QED
    BY <1>3, <1>4, <1>5, <2>1, HandledPeace
<1>6. maximum_errors = 0
  BY DEF Peace, Quiescent
<1>7. CASE HandleExit
  <2>1. Leaves(now, m, u)
    BY <1>3, <1>7 DEF HandleExit, IsNotification, Leads, Opens, Closes, Edits, Begins, Ends,
                      Passing, Tells, Asks, RequestsOfDocument
  <2>2. ~is_initialized /\ u.phase = "gone" /\ u.mirror = now.mirror
    BY <1>3, <2>1 DEF Leaves, Keeps, View
  <2>3. exit_code' = 0 /\ ~is_initialized'
        /\ UNCHANGED <<documents, paths, maximum_errors, is_initialized>>
    BY <1>7, <2>2 DEF HandleExit, database
  <2>4. Keeps(u)'
    BY <1>2, <1>3, <1>4, <2>2, <2>3 DEF Keeps, OpenIn
  <2> QED
    BY <1>6, <2>3, <2>4
<1>8. CASE HandleInitialize
  <2>1. Begins(now, m, u)
    BY <1>3, <1>8 DEF HandleInitialize, IsRequest, Leads, Opens, Closes, Edits, Leaves, Ends,
                      Passing, Tells, Asks, RequestsOfDocument
  <2>2. now.phase = "fresh" /\ u.phase = "active" /\ u.mirror = now.mirror
    BY <2>1 DEF Begins, View
  <2>3. is_initialized' = TRUE /\ UNCHANGED <<exit_code, documents, paths, maximum_errors>>
    BY <1>8 DEF HandleInitialize, database
  <2>4. Keeps(u)'
    BY <1>2, <1>3, <1>4, <2>2, <2>3 DEF Keeps, OpenIn
  <2> QED
    BY <1>6, <2>3, <2>4
<1>9. CASE HandleShutdown
  <2>1. Ends(now, m, u)
    BY <1>3, <1>9 DEF HandleShutdown, Request, IsRequest, Leads, Opens, Closes, Edits, Leaves,
                      Begins, Passing, Tells, Asks, RequestsOfDocument
  <2>2. /\ now.phase = "active" /\ u.phase = "shut down"
        /\ u.mirror = [p \in Paths |-> Closed]
    BY <2>1 DEF Ends, View
  <2>3. is_initialized' = FALSE /\ maximum_errors' = 0 /\ UNCHANGED exit_code
    BY <1>9 DEF HandleShutdown
  <2>4. Keeps(u)'
    BY <1>2, <1>3, <1>4, <2>2, <2>3 DEF Keeps, OpenIn
  <2> QED
    BY <2>3, <2>4
<1>10. CASE HandleChangeConfig
  <2>1. u = now /\ m.limit = 0
    BY <1>3, <1>10 DEF HandleChangeConfig, Notification, IsNotification, Leads, Opens, Closes,
                       Edits, Leaves, Begins, Ends, Passing, Tells, Asks, RequestsOfDocument
  <2>2. maximum_errors' = 0 /\ UNCHANGED <<is_initialized, exit_code, documents, paths>>
    BY <1>10, <2>1 DEF HandleChangeConfig, process
  <2> QED
    BY <1>2, <1>3, <1>4, <2>1, <2>2, KeepsStill
<1>11. CASE IgnoreNotification \/ HandleSymbols \/ HandleRead \/ RefuseUnsupported
  <2>1. u = now
    BY <1>3, <1>11 DEF IgnoreNotification, HandleSymbols, HandleRead, RefuseUnsupported,
                       Notification, Request, IsNotification, IsRequest, Leads, Opens, Closes,
                       Edits, Leaves, Begins, Ends, Passing, Tells, Asks, RequestsOfDocument
  <2>2. UNCHANGED <<is_initialized, exit_code, documents, paths, maximum_errors>>
    BY <1>11 DEF IgnoreNotification, HandleSymbols, HandleRead, RefuseUnsupported, process,
                 database
  <2> QED
    BY <1>2, <1>3, <1>4, <1>6, <2>1, <2>2, KeepsStill
<1> QED
  BY <1>7, <1>8, <1>9, <1>10, <1>11

LEMMA OpenPeace ==
    ASSUME IInv, IInv', Peace, HandleOpen
    PROVE  Peace'
<1>1. Handling
  BY DEF HandleOpen, Notification
<1>2. todo # <<>> /\ target = NoDocument /\ busy /\ status = "running"
  BY <1>1 DEF Handling
<1>3. PICK now, u : Keeps(now) /\ Leads(now, m, u) /\ Behind(u)
  BY <1>2, HandlesNext DEF IInv
<1>4. /\ todo' = Tail(todo)
      /\ UNCHANGED <<inbox, client, target, busy, status, is_initialized, exit_code, maximum_errors>>
  BY DEF HandleOpen, Silently, Done, process
<1>5. PICK path : path = m.path
  OBVIOUS
<1>6. PICK doc : doc = Analyzed(Document(m.text, "Client"))
  OBVIOUS
<1>7. PICK id \in Nat : id = Len(documents) + 1
  BY DEF IInv, TypeOK
<1>8. /\ documents' = Append(documents, doc)
      /\ paths' = [p \in DOMAIN paths \cup {path} |-> IF p = path THEN id ELSE paths[p]]
      /\ display' = [display EXCEPT ![DocumentPath(paths', id)] = doc.info.shown]
  BY <1>5, <1>6, <1>7 DEF HandleOpen, Publish
<1>9. Opens(now, m, u)
  BY <1>3 DEF HandleOpen, Notification, IsNotification, Leads, Edits, Closes, Leaves, Begins,
              Ends, Passing, Tells, Asks, RequestsOfDocument
<1>10. /\ path \in Paths /\ u.phase = now.phase
       /\ u.mirror = [now.mirror EXCEPT ![path] = m.text] /\ DOMAIN now.mirror = Paths
  BY <1>3, <1>5, <1>9 DEF Opens, Shows, View, Keeps
<1>11. UpToDate(doc, m.text, doc.info.shown)
  <2>1. m.text \in Text
    BY <1>2, FrameIsTyped DEF IInv, Message
  <2>2. Document(m.text, "Client") \in DocumentType /\ Document(m.text, "Client").text = m.text
    BY <2>1, DocumentIsTyped DEF Document
  <2> QED
    BY <1>6, <2>2, AnalysisIsComplete DEF IInv, Peace, Quiescent
<1>12. DocumentPath(paths', id) = path
  <2>1. path \in DOMAIN paths' /\ paths'[path] = id
    BY <1>8
  <2>2. \A q \in DOMAIN paths' : paths'[q] = paths'[path] => q = path
    BY <2>1 DEF IInv, Table, PathsAreSound
  <2> QED
    BY <2>1, <2>2, PathIsFound
<1>13. display' = [display EXCEPT ![path] = doc.info.shown] /\ DOMAIN display = Paths
  BY <1>8, <1>12 DEF Peace, Quiescent
<1>14. Keeps(u)'
  <2>1. ASSUME NEW p \in Paths, OpenIn(u, p)
        PROVE  /\ p \in DOMAIN paths'
               /\ UpToDate(documents'[paths'[p]], u.mirror[p], display'[p])
    <3>1. CASE p = path
      <4>1. documents'[id] = doc
        BY <1>7, <1>8 DEF IInv, TypeOK
      <4>2. display'[p] = doc.info.shown /\ u.mirror[p] = m.text
        BY <1>10, <1>13, <3>1
      <4>3. p \in DOMAIN paths' /\ paths'[p] = id
        BY <1>8, <3>1
      <4> QED
        BY <1>11, <4>1, <4>2, <4>3
    <3>2. CASE p # path
      <4>1. u.mirror[p] = now.mirror[p] /\ display'[p] = display[p]
        BY <1>10, <1>13, <3>2
      <4>2. p \in DOMAIN paths /\ (paths[p] # target =>
               UpToDate(documents[paths[p]], now.mirror[p], display[p]))
        BY <1>3, <2>1, <4>1 DEF Keeps, OpenIn
      <4>3. PICK d \in 1 .. Len(documents) : d = paths[p] /\ d # target
        BY <1>2, <4>2, PathsAreIds
      <4>4. documents'[d] = documents[d]
        BY <1>8 DEF IInv, TypeOK
      <4>5. p \in DOMAIN paths' /\ paths'[p] = d
        BY <1>8, <3>2, <4>2, <4>3
      <4> QED
        BY <4>1, <4>2, <4>3, <4>4, <4>5
    <3> QED
      BY <3>1, <3>2
  <2>2. DOMAIN u.mirror = Paths
    BY <1>10
  <2> QED
    BY <1>2, <1>3, <1>4, <1>10, <2>1, <2>2 DEF Keeps
<1>15. Quiescent'
  BY <1>2, <1>4, <1>13 DEF Peace, Quiescent
<1> QED
  BY <1>3, <1>4, <1>14, <1>15, HandledPeace

LEMMA ClosePeace ==
    ASSUME IInv, Peace, HandleClose
    PROVE  Peace'
<1>1. Handling
  BY DEF HandleClose, Notification
<1>2. todo # <<>> /\ target = NoDocument /\ busy /\ status = "running"
  BY <1>1 DEF Handling
<1>3. PICK now, u : Keeps(now) /\ Leads(now, m, u) /\ Behind(u)
  BY <1>2, HandlesNext DEF IInv
<1>4. /\ todo' = Tail(todo)
      /\ UNCHANGED <<inbox, client, target, busy, status, is_initialized, exit_code, maximum_errors,
                     paths, display>>
  BY DEF HandleClose, Silently, Done, process
<1>5. Closes(now, m, u)
  BY <1>3 DEF HandleClose, Notification, IsNotification, Leads, Edits, Opens, Leaves, Begins,
              Ends, Passing, Tells, Asks, RequestsOfDocument
<1>6. PICK path : path = m.path
  OBVIOUS
<1>7. /\ path \in Paths /\ u.phase = now.phase /\ path \in DOMAIN paths
      /\ u.mirror = [now.mirror EXCEPT ![path] = Closed] /\ DOMAIN now.mirror = Paths
  BY <1>3, <1>5, <1>6 DEF Closes, Shows, View, Keeps, OpenIn
<1>8. ~OpenIn(u, path) /\ DOMAIN u.mirror = Paths
      /\ \A q \in Paths \ {path} : u.mirror[q] = now.mirror[q]
  BY <1>7 DEF OpenIn
<1>9. PICK doc : documents' = [documents EXCEPT ![paths[path]] = doc]
  <2>1. CASE documents[Id].ownership = "Client"
    BY <1>6, <2>1 DEF HandleClose, Id
  <2>2. CASE documents[Id].ownership # "Client"
    <3>1. documents' = documents
      BY <2>2 DEF HandleClose
    <3>2. documents = [documents EXCEPT ![paths[path]] = documents[paths[path]]]
      BY DEF IInv, TypeOK
    <3> QED
      BY <3>1, <3>2
  <2> QED
    BY <2>1, <2>2
<1>10. \A p \in Paths : OpenIn(u, p) =>
          /\ p \in DOMAIN paths'
          /\ UpToDate(documents'[paths'[p]], u.mirror[p], display'[p])
  BY <1>2, <1>3, <1>4, <1>7, <1>8, <1>9, OtherDocumentsKept
<1>11. Keeps(u)'
  BY <1>2, <1>3, <1>4, <1>7, <1>8, <1>10 DEF Keeps
<1>12. Quiescent'
  BY <1>2, <1>4 DEF Peace, Quiescent
<1> QED
  BY <1>3, <1>4, <1>11, <1>12, HandledPeace

(* An analysis for another position changes neither text nor diagnostics.  *)
LEMMA CompletionPeace ==
    ASSUME IInv, Peace, HandleCompletion
    PROVE  Peace'
<1>1. Handling
  BY DEF HandleCompletion, Request
<1>2. todo # <<>> /\ target = NoDocument /\ busy /\ status = "running"
  BY <1>1 DEF Handling
<1>3. PICK now, u : Keeps(now) /\ Leads(now, m, u) /\ Behind(u)
  BY <1>2, HandlesNext DEF IInv
<1>4. /\ todo' = Tail(todo)
      /\ UNCHANGED <<inbox, client, target, busy, status, is_initialized, exit_code, maximum_errors,
                     paths, display>>
  BY DEF HandleCompletion, Answer, Done, process
<1>5. u = now /\ OpenIn(now, m.path)
  BY <1>3 DEF HandleCompletion, Request, IsRequest, Leads, Edits, Opens, Closes, Leaves, Begins,
              Ends, Passing, Tells, Asks, RequestsOfDocument
<1>6. PICK path : path = m.path
  OBVIOUS
<1>7. path \in Paths /\ path \in DOMAIN paths
      /\ UpToDate(documents[paths[path]], now.mirror[path], display[path])
  <2>1. path \in Paths /\ path \in DOMAIN paths
        /\ (paths[path] # target =>
              UpToDate(documents[paths[path]], now.mirror[path], display[path]))
    BY <1>3, <1>5, <1>6 DEF Keeps, OpenIn
  <2> QED
    BY <1>2, <2>1, PathsAreIds
<1>8. PICK old \in DocumentType : old = documents[paths[path]]
  <2>1. paths[path] \in 1 .. Len(documents)
    BY <1>7, PathsAreIds
  <2> QED
    BY <2>1, ElementOfSeq DEF IInv, TypeOK
<1>9. PICK moved \in DocumentType : moved = [old EXCEPT !.edit_position = m.position]
                                    /\ moved.text = old.text
  <2>1. m.position \in Int
    BY <1>2, FrameIsTyped DEF IInv, Message
  <2>2. PICK other : other = [old EXCEPT !.edit_position = m.position]
    OBVIOUS
  <2>3. other \in DocumentType /\ other.text = old.text
    BY <1>8, <2>1, <2>2 DEF DocumentType
  <2> QED
    BY <2>2, <2>3
<1>10. PICK doc : /\ documents' = [documents EXCEPT ![paths[path]] = doc]
                  /\ UpToDate(doc, now.mirror[path], display[path])
  <2>1. CASE old.edit_position # m.position
    <3>1. documents' = [documents EXCEPT ![paths[path]] = Analyzed(moved)]
      BY <1>6, <1>8, <1>9, <2>1 DEF HandleCompletion, Id
    <3>2. UpToDate(Analyzed(moved), moved.text, Analyzed(moved).info.shown)
      BY AnalysisIsComplete DEF IInv, Peace, Quiescent
    <3>3. UpToDate(Analyzed(moved), now.mirror[path], display[path])
      BY <1>7, <1>8, <1>9, <3>2 DEF UpToDate
    <3> QED
      BY <3>1, <3>3
  <2>2. CASE old.edit_position = m.position
    <3>1. documents' = documents
      BY <1>6, <1>8, <2>2 DEF HandleCompletion, Id
    <3>2. documents = [documents EXCEPT ![paths[path]] = old]
      BY <1>8 DEF IInv, TypeOK
    <3> QED
      BY <1>7, <1>8, <3>1, <3>2
  <2> QED
    BY <2>1, <2>2
<1>11. \A p \in Paths : OpenIn(u, p) =>
          /\ p \in DOMAIN paths'
          /\ UpToDate(documents'[paths'[p]], u.mirror[p], display'[p])
  BY <1>2, <1>3, <1>4, <1>5, <1>7, <1>10, OtherDocumentsKept
<1>12. Keeps(u)'
  BY <1>2, <1>3, <1>4, <1>5, <1>11 DEF Keeps
<1>13. Quiescent'
  BY <1>2, <1>4 DEF Peace, Quiescent
<1> QED
  BY <1>3, <1>4, <1>12, <1>13, HandledPeace

(* The changes of a didChange lead through the texts they lead through on  *)
(* the client's side.                                                      *)
LEMMA BeginPeace ==
    ASSUME IInv, Peace, BeginChange
    PROVE  Peace'
<1>1. Handling
  BY DEF BeginChange, Notification
<1>2. todo # <<>> /\ target = NoDocument /\ busy /\ status = "running"
  BY <1>1 DEF Handling
<1>3. PICK now : Keeps(now) /\ Pipe(now)
  BY DEF Peace
<1>4. Edits(now, m, LastText(now, m)) \/ \E u : Edits(now, m, u)
  <2>1. PICK mid : Reaches(now, todo, mid)
    BY <1>3 DEF Pipe
  <2>2. PICK u : Leads(now, m, u)
    BY <1>2, <2>1, ReachesFirst DEF IInv, TypeOK, m
  <2> QED
    BY <2>2 DEF BeginChange, Notification, IsNotification, Leads, Closes, Opens, Leaves, Begins,
                Ends, Passing, Tells, Asks, RequestsOfDocument
<1>5. PICK path : path = m.path
  OBVIOUS
<1>6. OpenIn(now, path) /\ path \in Paths /\ path \in DOMAIN paths /\ m.method = "didChange"
      /\ (paths[path] # target => UpToDate(documents[paths[path]], now.mirror[path],
                                           display[path]))
  BY <1>3, <1>4, <1>5 DEF Edits, Keeps, OpenIn, Tells
<1>7. paths[path] # NoDocument /\ documents[paths[path]].text = now.mirror[path]
  BY <1>2, <1>6, PathsAreIds DEF UpToDate
<1>8. /\ target' = paths[path] /\ rest' = m.changes
      /\ UNCHANGED <<inbox, client, process, database, busy, todo, display>>
  BY <1>5 DEF BeginChange, Id
<1>9. m' = m
  BY <1>8 DEF m
<1>10. PICK changes \in Seq(Change) : changes = m.changes
  BY <1>2, FrameIsTyped DEF IInv, Message
<1>11. rest' = SubSeq(changes, 0 + 1, Len(changes)) /\ After(now.mirror[path], changes)[0] = now.mirror[path]
  <2>1. changes = SubSeq(changes, 1, Len(changes))
    BY SubSeqFull
  <2> QED
    BY <1>8, <1>10, <2>1, AfterFollows
<1>12. Under(now)'
  <2>1. UNCHANGED <<documents, paths>>
    BY <1>8 DEF database
  <2>2. 0 \in 0 .. Len(changes)
    BY <1>10
  <2>3. \E k \in 0 .. Len(changes) : /\ rest' = SubSeq(changes, k + 1, Len(changes))
                                     /\ documents'[target'].text = After(now.mirror[path], changes)[k]
    BY <1>7, <1>8, <1>11, <2>1, <2>2
  <2> QED
    BY <1>5, <1>6, <1>8, <1>9, <1>10, <2>1, <2>3 DEF Under
<1>13. Keeps(now)'
  <2>1. UNCHANGED <<documents, paths, is_initialized, exit_code, display>>
    BY <1>8 DEF database, process
  <2>2. ASSUME NEW p \in Paths, OpenIn(now, p)
        PROVE  /\ p \in DOMAIN paths
               /\ UpToDate(documents[paths[p]], now.mirror[p], display[p])
    <3>1. p \in DOMAIN paths
          /\ (paths[p] # target => UpToDate(documents[paths[p]], now.mirror[p], display[p]))
      BY <1>3, <2>2 DEF Keeps
    <3> QED
      BY <1>2, <3>1, PathsAreIds
  <2> QED
    BY <1>3, <1>12, <2>1, <2>2 DEF Keeps
<1>14. Quiescent' /\ Pipe(now)'
  <2>1. ClientView' = ClientView /\ UNCHANGED <<draft, inbox, todo, busy, status, maximum_errors, display>>
    BY <1>8 DEF ClientView, client, process, database
  <2> QED
    BY <1>3, <2>1 DEF Quiescent, Pipe, Peace
<1> QED
  BY <1>13, <1>14 DEF Peace

(* The change the server is at is one of those the client made. *)
Midway(now, u, path, changes, k) ==
    /\ Keeps(now) /\ Pipe(now) /\ Edits(now, m, u) /\ Behind(u)
    /\ path = m.path /\ changes = m.changes
    /\ path \in DOMAIN paths /\ paths[path] = target
    /\ k <= Len(changes) /\ Len(rest) = Len(changes) - k
    /\ rest = SubSeq(changes, k + 1, Len(changes))
    /\ documents[target].text = After(now.mirror[path], changes)[k]
    /\ k < Len(changes) => /\ c = changes[k + 1]
                           /\ Tail(rest) = SubSeq(changes, k + 2, Len(changes))

LEMMA UnderWay ==
    ASSUME IInv, Peace, Changing
    PROVE  \E now, u : \E path \in Paths, changes \in Seq(Change), k \in Nat :
              Midway(now, u, path, changes, k)
<1>1. target # NoDocument /\ todo # <<>>
  BY DEF Changing, IInv, TypeOK
<1>2. PICK now, mid, last : /\ Keeps(now) /\ Reaches(now, todo, mid)
                            /\ Passes(mid, inbox, last)
                            /\ Reaches(last, draft, ClientView)
  BY DEF Peace, Pipe
<1>3. PICK u : Leads(now, m, u) /\ Reaches(u, Tail(todo), mid)
  BY <1>1, <1>2, ReachesFirst DEF IInv, TypeOK, m
<1>4. Under(now)
  BY <1>1, <1>2 DEF Keeps
<1>5. Edits(now, m, u)
  <2>1. m.method = "didChange"
    BY <1>4 DEF Under
  <2> QED
    BY <1>3, <2>1 DEF Leads, Closes, Opens, Leaves, Begins, Ends, Passing, Tells, Asks,
                      RequestsOfDocument
<1>6. Behind(u) /\ Pipe(now)
  BY <1>2, <1>3 DEF Behind, Pipe
<1>7. PICK changes \in Seq(Change) : changes = m.changes
  BY <1>1, FrameIsTyped DEF IInv, Message
<1>8. PICK path \in Paths : path = m.path
  BY <1>5 DEF Edits, OpenIn
<1>9. PICK n \in Nat : n = Len(changes)
  OBVIOUS
<1>10. PICK k \in 0 .. n :
         /\ rest = SubSeq(changes, k + 1, n)
         /\ documents[target].text = After(now.mirror[path], changes)[k]
  BY <1>4, <1>7, <1>8, <1>9 DEF Under
<1>11. Len(rest) = n - k
  <2>1. k + 1 \in Nat /\ k + 1 <= n + 1 /\ k + 1 >= 1
    BY <1>10
  <2>2. \A i \in 1 .. n : i \in 1 .. Len(changes)
    BY <1>9
  <2> QED
    BY <1>9, <1>10, <2>1, <2>2
<1>12. ASSUME k < n
       PROVE  c = changes[k + 1] /\ Tail(rest) = SubSeq(changes, k + 2, n)
  <2>1. k + 1 \in 1 .. Len(changes) /\ n \in (k + 1) .. Len(changes) /\ (k + 1) + 1 = k + 2
    BY <1>9, <1>10, <1>12
  <2>2. /\ Head(SubSeq(changes, k + 1, n)) = changes[k + 1]
        /\ Tail(SubSeq(changes, k + 1, n)) = SubSeq(changes, (k + 1) + 1, n)
    BY <2>1, HeadTailOfSubSeq
  <2> QED
    BY <1>10, <2>1, <2>2 DEF c
<1>13. k \in Nat /\ k <= n /\ path \in DOMAIN paths /\ paths[path] = target
  BY <1>4, <1>8, <1>10 DEF Under
<1>14. Midway(now, u, path, changes, k)
  BY <1>2, <1>5, <1>6, <1>7, <1>8, <1>9, <1>10, <1>11, <1>12, <1>13 DEF Midway
<1> QED
  BY <1>13, <1>14

(* Each change of a polite client can be applied where the server is. *)
LEMMA ChangesFit ==
    ASSUME IInv, Peace
    PROVE  ~ChangeOutOfRange /\ ~AbandonChange
<1> SUFFICES ASSUME ChangeOutOfRange \/ AbandonChange PROVE FALSE
  OBVIOUS
<1>1. Changing /\ rest # <<>>
  BY DEF ChangeOutOfRange, AbandonChange
<1>2. PICK now, u : \E path \in Paths, changes \in Seq(Change), k \in Nat :
                       Midway(now, u, path, changes, k)
  BY <1>1, UnderWay
<1>3. PICK path \in Paths, changes \in Seq(Change), k \in Nat :
         Midway(now, u, path, changes, k)
  BY <1>2
<1>4. k + 1 \in 1 .. Len(changes) /\ k < Len(changes) /\ (k + 1) - 1 = k
  <2>1. PICK n \in Nat : n = Len(changes)
    OBVIOUS
  <2>2. PICK left \in Nat : left = Len(rest) /\ left # 0
    BY <1>1 DEF IInv, TypeOK
  <2>3. k <= n /\ left = n - k
    BY <1>3, <2>1, <2>2 DEF Midway
  <2> QED
    BY <2>1, <2>2, <2>3
<1>5. c = changes[k + 1] /\ Applicable(now.mirror[path], changes)
      /\ documents[target].text = After(now.mirror[path], changes)[k]
  BY <1>3, <1>4 DEF Midway, Edits
<1>6. c.kind = "whole" \/ (c.kind = "range" /\ InRange(documents[target].text, c))
  <2>1. PICK texts : texts = After(now.mirror[path], changes)
    OBVIOUS
  <2>2. PICK i \in 1 .. Len(changes) : i = k + 1 /\ i - 1 = k
    BY <1>4
  <2>3. \/ changes[i].kind = "whole"
        \/ changes[i].kind = "range" /\ InRange(texts[i - 1], changes[i])
    BY <1>5, <2>1, <2>2 DEF Applicable
  <2>4. c = changes[i] /\ texts[i - 1] = documents[target].text
    BY <1>5, <2>1, <2>2
  <2> QED
    BY <2>3, <2>4
<1> QED
  BY <1>6 DEF ChangeOutOfRange, AbandonChange

LEMMA ApplyPeace ==
    ASSUME IInv, Peace, ApplyContentChange
    PROVE  Peace'
<1>1. Changing /\ rest # <<>>
  BY DEF ApplyContentChange
<1>2. PICK now, u : \E path \in Paths, changes \in Seq(Change), k \in Nat :
                       Midway(now, u, path, changes, k)
  BY <1>1, UnderWay
<1>3. PICK path \in Paths, changes \in Seq(Change), k \in Nat :
         Midway(now, u, path, changes, k)
  BY <1>2
<1>4. k + 1 \in 1 .. Len(changes) /\ k < Len(changes) /\ (k + 1) - 1 = k /\ (k + 1) + 1 = k + 2
  <2>1. PICK n \in Nat : n = Len(changes)
    OBVIOUS
  <2>2. PICK left \in Nat : left = Len(rest) /\ left # 0
    BY <1>1 DEF IInv, TypeOK
  <2>3. k <= n /\ left = n - k
    BY <1>3, <2>1, <2>2 DEF Midway
  <2> QED
    BY <2>1, <2>2, <2>3
<1>5. UNCHANGED <<inbox, process, paths, maximum_errors, busy, todo, target, display, client>>
      /\ rest' = Tail(rest)
  BY DEF ApplyContentChange
<1>6. target \in 1 .. Len(documents) /\ documents[target] \in DocumentType
  <2>1. target \in 1 .. Len(documents)
    BY <1>3, PathsAreIds DEF Midway
  <2> QED
    BY <2>1, ElementOfSeq DEF IInv, TypeOK
<1>7. PICK doc : doc = Changed(documents[target], c)
  OBVIOUS
<1>8. doc.text = Edited(documents[target].text, c)
  <2>1. PICK text : text = Edited(documents[target].text, c)
    OBVIOUS
  <2>2. PICK old \in DocumentType : old = documents[target]
    BY <1>6
  <2>3. \E position : doc = [old EXCEPT !.text = text, !.edit_position = position]
    BY <1>7, <2>1, <2>2 DEF Changed, Edited
  <2>4. PICK position : doc = [old EXCEPT !.text = text, !.edit_position = position]
    BY <2>3
  <2> QED
    BY <2>1, <2>2, <2>4 DEF DocumentType
<1>9. documents' = [documents EXCEPT ![target] = doc]
  BY <1>7 DEF ApplyContentChange
<1>10. documents'[target] = doc
       /\ \A d \in 1 .. Len(documents) : d # target => documents'[d] = documents[d]
  BY <1>6, <1>9 DEF IInv, TypeOK
<1>11. documents'[target].text = After(now.mirror[path], changes)[k + 1]
  <2>1. After(now.mirror[path], changes)[k + 1]
        = Edited(After(now.mirror[path], changes)[(k + 1) - 1], changes[k + 1])
    BY <1>4, AfterFollows
  <2>2. c = changes[k + 1] /\ documents[target].text = After(now.mirror[path], changes)[k]
    BY <1>3, <1>4 DEF Midway
  <2> QED
    BY <1>4, <1>8, <1>10, <2>1, <2>2
<1>12. Under(now)'
  <2>1. m' = m
    BY <1>5 DEF m
  <2>2. rest' = SubSeq(changes, (k + 1) + 1, Len(changes))
    BY <1>3, <1>4, <1>5 DEF Midway
  <2>3. k + 1 \in 0 .. Len(changes)
    BY <1>4
  <2>4. m.method = "didChange" /\ m.path = path /\ m.changes = changes
        /\ path \in DOMAIN paths /\ paths[path] = target
    BY <1>3 DEF Midway, Edits, Tells
  <2>5. target' = target /\ paths' = paths
    BY <1>5
  <2>6. \E j \in 0 .. Len(changes) :
           /\ rest' = SubSeq(changes, j + 1, Len(changes))
           /\ documents'[target'].text = After(now.mirror[path], changes)[j]
    BY <1>11, <2>2, <2>3, <2>5
  <2> QED
    BY <2>1, <2>4, <2>5, <2>6 DEF Under
<1>13. Keeps(now)'
  <2>1. Keeps(now) /\ target # NoDocument
    BY <1>1, <1>3 DEF Midway, Changing
  <2>2. ASSUME NEW p \in Paths, OpenIn(now, p)
        PROVE  p \in DOMAIN paths
               /\ (paths[p] # target => UpToDate(documents'[paths[p]], now.mirror[p], display[p]))
    <3>1. p \in DOMAIN paths
          /\ (paths[p] # target => UpToDate(documents[paths[p]], now.mirror[p], display[p]))
      BY <2>1, <2>2 DEF Keeps
    <3>2. PICK d \in 1 .. Len(documents) : d = paths[p]
      BY <3>1, PathsAreIds
    <3> QED
      BY <1>10, <3>1, <3>2
  <2> QED
    BY <1>5, <1>12, <2>1, <2>2 DEF Keeps, process
<1>14. Quiescent' /\ Pipe(now)'
  <2>1. ClientView' = ClientView
        /\ UNCHANGED <<draft, inbox, todo, busy, status, maximum_errors, display>>
    BY <1>5 DEF ClientView, client, process
  <2> QED
    BY <1>3, <2>1 DEF Quiescent, Pipe, Peace, Midway
<1> QED
  BY <1>13, <1>14 DEF Peace

LEMMA FinishPeace ==
    ASSUME IInv, Peace, FinishChange
    PROVE  Peace'
<1>1. Changing /\ rest = <<>>
  BY DEF FinishChange
<1>2. PICK now, u : \E path \in Paths, changes \in Seq(Change), k \in Nat :
                       Midway(now, u, path, changes, k)
  BY <1>1, UnderWay
<1>3. PICK path \in Paths, changes \in Seq(Change), k \in Nat :
         Midway(now, u, path, changes, k)
  BY <1>2
<1>4. k = Len(changes) /\ paths[path] = target /\ path \in DOMAIN paths
  <2>1. Len(rest) = 0
    BY <1>1
  <2> QED
    BY <1>3, <2>1 DEF Midway
<1>5. UNCHANGED <<inbox, process, paths, maximum_errors, busy, client>>
      /\ todo' = Tail(todo) /\ target' = NoDocument
  BY DEF FinishChange
<1>6. PICK old \in DocumentType : old = documents[target]
  <2>1. target \in 1 .. Len(documents)
    BY <1>4, PathsAreIds
  <2> QED
    BY <2>1, ElementOfSeq DEF IInv, TypeOK
<1>7. PICK doc : doc = Analyzed(old)
  OBVIOUS
<1>8. PICK shown : shown = doc.info.shown
  OBVIOUS
<1>9. /\ documents' = [documents EXCEPT ![paths[path]] = doc]
      /\ display' = [display EXCEPT ![DocumentPath(paths, target)] = shown]
  BY <1>4, <1>6, <1>7, <1>8 DEF FinishChange, Publish
<1>10. display' = [display EXCEPT ![path] = shown] /\ DOMAIN display = Paths
  <2>1. DocumentPath(paths, paths[path]) = path
    BY <1>4, PathsAreIds, PathIsFound
  <2> QED
    BY <1>4, <1>9, <2>1 DEF Peace, Quiescent
<1>11. UpToDate(doc, LastText(now, m), shown)
  <2>1. UpToDate(doc, old.text, shown)
    BY <1>7, <1>8, AnalysisIsComplete DEF IInv, Peace, Quiescent
  <2>2. old.text = LastText(now, m)
    BY <1>3, <1>4, <1>6 DEF Midway, LastText
  <2> QED
    BY <2>1, <2>2
<1>12. /\ u.phase = now.phase /\ DOMAIN now.mirror = Paths
       /\ u.mirror = [now.mirror EXCEPT ![path] = LastText(now, m)]
       /\ Keeps(now) /\ Behind(u)
  BY <1>3 DEF Midway, Edits, Shows, View, Keeps
<1>13. /\ DOMAIN u.mirror = Paths /\ u.mirror[path] = LastText(now, m) /\ display'[path] = shown
       /\ \A q \in Paths \ {path} : display'[q] = display[q] /\ u.mirror[q] = now.mirror[q]
  BY <1>10, <1>12
<1>14. \A p \in Paths : OpenIn(u, p) =>
          /\ p \in DOMAIN paths'
          /\ UpToDate(documents'[paths'[p]], u.mirror[p], display'[p])
  <2>1. target \in {NoDocument, paths[path]} /\ target' = NoDocument /\ paths' = paths
    BY <1>4, <1>5
  <2>2. UpToDate(doc, u.mirror[path], display'[path])
    BY <1>11, <1>13
  <2> QED
    BY <1>4, <1>9, <1>12, <1>13, <2>1, <2>2, OtherDocumentsKept
<1>15. Keeps(u)'
  BY <1>5, <1>12, <1>13, <1>14 DEF Keeps, process
<1>16. Quiescent'
  <2>1. todo # <<>> /\ busy /\ status = "running"
    BY <1>1 DEF Changing, IInv, TypeOK
  <2>2. DOMAIN display' = Paths
    BY <1>10
  <2> QED
    BY <1>5, <2>1, <2>2 DEF Peace, Quiescent, process
<1> QED
  BY <1>5, <1>12, <1>15, <1>16, HandledPeace

-----------------------------------------------------------------------------
(* Frames are read and answered, and the process ends by exit alone.       *)
LEMMA FramePeace ==
    ASSUME IInv, Peace, ReadFrame \/ WriteReplies \/ EndOfInput \/ Stop
    PROVE  Peace'
<1>1. PICK now, mid, last : /\ Keeps(now) /\ Reaches(now, todo, mid)
                            /\ Passes(mid, inbox, last)
                            /\ Reaches(last, draft, ClientView)
  BY DEF Peace, Pipe
<1>2. UNCHANGED <<client, database, target, rest, display, exit_code, is_initialized>>
  BY DEF ReadFrame, WriteReplies, EndOfInput, Stop, process, frame
<1>3. ClientView' = ClientView /\ draft' = draft
  BY <1>2 DEF client, ClientView
<1>4. target = NoDocument
  BY DEF ReadFrame, WriteReplies, EndOfInput, Stop, IInv, TypeOK
<1>5. Keeps(now)'
  BY <1>1, <1>2, <1>4, KeepsStill DEF database
<1>6. CASE ReadFrame
  <2>1. /\ ~busy /\ inbox # <<>> /\ inbox' = Tail(inbox) /\ UNCHANGED status
        /\ IF Head(inbox) = <<>> THEN UNCHANGED <<busy, todo>>
                                 ELSE busy' = TRUE /\ todo' = Head(inbox)
    BY <1>6 DEF ReadFrame, process
  <2>2. todo = <<>>
    BY <2>1 DEF Peace, Quiescent
  <2>3. now = mid /\ todo' = Head(inbox)
    BY <1>1, <2>1, <2>2, ReachesNothing
  <2>4. PICK next : Reaches(mid, Head(inbox), next) /\ Passes(next, Tail(inbox), last)
    BY <1>1, <2>1, PassesFirst DEF IInv, TypeOK
  <2>5. Pipe(now)'
    BY <1>1, <1>3, <2>1, <2>3, <2>4 DEF Pipe
  <2>6. Quiescent'
    BY <1>2, <2>1, <2>2 DEF Peace, Quiescent, database
  <2> QED
    BY <1>5, <2>5, <2>6 DEF Peace
<1>7. CASE WriteReplies
  <2>1. todo = <<>> /\ UNCHANGED <<inbox, todo, status>>
    BY <1>7 DEF WriteReplies, process
  <2>2. Pipe(now)'
    BY <1>1, <1>3, <2>1 DEF Pipe
  <2>3. Quiescent'
    BY <1>2, <2>1 DEF Peace, Quiescent, database
  <2> QED
    BY <1>5, <2>2, <2>3 DEF Peace
<1>8. CASE EndOfInput
  <2>1. ~busy /\ exit_code = Running /\ inbox = <<>> /\ phase = "gone" /\ draft = <<>>
    BY <1>8 DEF EndOfInput
  <2>2. todo = <<>>
    BY <2>1 DEF Peace, Quiescent
  <2>3. now = ClientView
    BY <1>1, <2>1, <2>2, ReachesNothing, PassesNothing
  <2>4. exit_code = 0
    BY <1>1, <2>1, <2>3 DEF Keeps, ClientView, View
  <2> QED
    BY <2>1, <2>4 DEF Running
<1>9. CASE Stop
  <2>1. status' = "returned" /\ UNCHANGED <<inbox, todo, busy>>
    BY <1>9 DEF Stop, frame
  <2>2. Pipe(now)'
    BY <1>1, <1>3, <2>1 DEF Pipe
  <2>3. Quiescent'
    BY <1>2, <2>1 DEF Peace, Quiescent, database
  <2> QED
    BY <1>5, <2>2, <2>3 DEF Peace
<1> QED
  BY <1>6, <1>7, <1>8, <1>9

LEMMA InitPeace == Init => Peace
<1> SUFFICES ASSUME Init PROVE Peace
  OBVIOUS
<1>1. Quiescent
  BY DEF Init, Quiescent
<1>2. Keeps(ClientView)
  BY DEF Init, Keeps, ClientView, View, OpenIn
<1>3. Pipe(ClientView)
  <2>1. Reaches(ClientView, todo, ClientView) /\ Reaches(ClientView, draft, ClientView)
    BY ReachesNothing DEF Init
  <2>2. Passes(ClientView, inbox, ClientView)
    BY PassesNothing DEF Init
  <2> QED
    BY <2>1, <2>2 DEF Pipe
<1> QED
  BY <1>1, <1>2, <1>3 DEF Peace

LEMMA NextPeace ==
    ASSUME Civil
    PROVE  IInv /\ Peace /\ [Next]_vars => Peace'
<1> SUFFICES ASSUME IInv, Peace, [Next]_vars PROVE Peace'
  OBVIOUS
<1>1. IInv'
  BY NextIInv
<1>2. CASE Client
  BY <1>1, <1>2, ClientPeace DEF IInv
<1>3. CASE Server
  BY <1>1, <1>3, FramePeace, Impolite, PassingPeace, OpenPeace, ClosePeace, BeginPeace,
     ApplyPeace, ChangesFit, FinishPeace, CompletionPeace DEF Server
<1>4. CASE UNCHANGED vars
  BY <1>4, KeepsOn DEF vars, Pipe, ClientView, client, frame
<1> QED
  BY <1>2, <1>3, <1>4 DEF Next

THEOREM PeaceIsKept ==
    ASSUME Civil
    PROVE  Spec => []Peace
<1>1. IInv /\ Peace /\ [Next]_vars => Peace'
  BY NextPeace
<1> QED
  BY <1>1, InitPeace, Inductive, PTL DEF Spec

(* No message of a polite client stops the server but exit, and exit after *)
(* shutdown returns 0: nothing is refused, no change is out of range and   *)
(* no symbol lacks its value, whatever was edited, closed and opened       *)
(* again, and however the messages are batched and delayed.  Without a     *)
(* limit on errors, that is.                                               *)
THEOREM PoliteClientStaysServed ==
    ASSUME Polite, Limits \subseteq {0}
    PROVE  Spec => []PoliteClientIsServed
<1>1. Civil
  BY DEF Civil
<1>2. Peace => PoliteClientIsServed
  <2>1. ASSUME Peace PROVE PoliteClientIsServed
    <3>1. exit_code \in {0, Running}
      BY <2>1 DEF Peace, Keeps
    <3> QED
      BY <2>1, <3>1 DEF PoliteClientIsServed, Peace, Quiescent, Running
  <2> QED
    BY <2>1
<1> QED
  BY <1>1, <1>2, PeaceIsKept, PTL

(* Once everything under way has been handled, the server's text of each   *)
(* open document is the client's, and the diagnostics shown are those of   *)
(* that text.                                                              *)
THEOREM ClientAndServerStayAgreed ==
    ASSUME Polite, Limits \subseteq {0}
    PROVE  Spec => []ClientAndServerAgree
<1>1. Civil
  BY DEF Civil
<1>2. IInv /\ Peace => ClientAndServerAgree
  <2> SUFFICES ASSUME IInv, Peace, Quiet, NEW p \in Paths, IsOpen(p)
               PROVE  /\ p \in DOMAIN paths /\ documents[paths[p]].text = mirror[p]
                      /\ display[p] = Errors(mirror[p])
    BY DEF ClientAndServerAgree
  <2>1. PICK now, mid, last : /\ Keeps(now) /\ Reaches(now, todo, mid)
                              /\ Passes(mid, inbox, last)
                              /\ Reaches(last, draft, ClientView)
    BY DEF Peace, Pipe
  <2>2. todo = <<>> /\ inbox = <<>> /\ draft = <<>> /\ ~busy
    BY DEF Quiet, Peace, Quiescent
  <2>3. now = ClientView
    BY <2>1, <2>2, ReachesNothing, PassesNothing
  <2>4. now.mirror = mirror /\ OpenIn(now, p)
    BY <2>3 DEF ClientView, View, OpenIn, IsOpen
  <2>5. target = NoDocument
    BY <2>2 DEF IInv, TypeOK
  <2>6. p \in DOMAIN paths
        /\ (paths[p] # target => UpToDate(documents[paths[p]], mirror[p], display[p]))
    BY <2>1, <2>4 DEF Keeps
  <2>7. paths[p] # target
    BY <2>5, <2>6, PathsAreIds
  <2> QED
    BY <2>6, <2>7 DEF UpToDate
<1> QED
  BY <1>1, <1>2, PeaceIsKept, Inductive, PTL
=============================================================================
