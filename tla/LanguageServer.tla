--------------------------- MODULE LanguageServer ---------------------------
(***************************************************************************)
(* The language server (language-server/server.cpp) between the stream it  *)
(* reads and the stream it writes, with the document table it keeps in the *)
(* compilation database (libcompiler/compiler.cpp).                        *)
(*                                                                         *)
(* A frame is the sequence of the messages of one batch; a message sent    *)
(* alone is a batch of one, and a frame without messages is a text that    *)
(* does not parse or an empty array.  A text is a sequence of structure    *)
(* definitions, each either "good" or "bad": a bad one has one error.      *)
(***************************************************************************)
EXTENDS Integers, Sequences, FiniteSets

CONSTANTS Paths,        \* the documents the client knows of
          Texts,        \* the texts it opens documents with
          Changes,      \* the lists of content changes it sends
          Limits,       \* the values of maximumErrors it configures
          Positions,    \* the places it asks about
          Methods,      \* the methods it uses
          Polite,       \* whether it keeps to the protocol
          MaxMessages,  \* bound: messages and frames it sends
          MaxBatch,     \* bound: messages in a batch, 0 for no batches
          MaxInbox      \* bound: frames sent and not read yet

NoId == 0               \* the message has no "id", or the reply's is null
NoPath == "no path"     \* a uri that is in no document table
NoPosition == -1        \* std::nullopt
NoDocument == 0         \* no didChange is being handled
Running == -1           \* exit_code has no value

Definition == {"good", "bad"}
Text == Seq(Definition)

Change == [kind : {"whole", "range", "malformed"}, from : Nat, to : Nat,
           text : Text, small : BOOLEAN]
Method == {"initialize", "shutdown", "completion", "documentSymbol", "hover", "unsupported",
           "didOpen", "didChange", "didClose", "didChangeConfiguration", "ignored", "exit",
           "malformed"}
Message == [id : Nat, method : Method, path : Paths \cup {NoPath}, text : Text,
            changes : Seq(Change), limit : Nat, position : Int]

ASSUME PathsAssumption     == NoPath \notin Paths
ASSUME TextsAssumption     == Texts \subseteq Text
ASSUME ChangesAssumption   == Changes \subseteq Seq(Change)
ASSUME LimitsAssumption    == Limits \subseteq Nat
ASSUME PositionsAssumption == Positions \subseteq Int

VARIABLES inbox,           \* frames sent and not read yet
          status,          \* the process: "running", "returned", "failed", "aborted"
          exit_code,       \* Server::exit_code
          is_initialized,  \* Server::is_initialized
          documents,       \* Database::documents
          paths,           \* Database::paths
          maximum_errors,  \* Database::config.maximum_errors
          error_count,     \* Database::error_count
          busy,            \* a frame is being handled
          todo,            \* its messages not handled yet
          target, rest,    \* the document and the changes of a didChange under way
          replies,         \* the replies of the frame so far
          replied,         \* the replies written
          display,         \* the diagnostics last published for each path
          phase,           \* client: "fresh", "active", "shut down", "gone"
          draft,           \* client: the batch it is putting together
          sent,            \* client: how many messages and frames it sent
          mirror           \* client: its text of each path, Closed if not open

Closed == <<"closed">>

database == <<documents, paths, maximum_errors, error_count>>
frame    == <<busy, todo, target, rest, replies>>
process  == <<status, exit_code, is_initialized>>
client   == <<phase, draft, sent, mirror>>
vars == <<inbox, process, database, frame, replied, display, client>>

-----------------------------------------------------------------------------
(* Documents and their analysis. *)

NoInfo == [text |-> <<>>, at |-> NoPosition, shown |-> 0, resolved |-> 0, env |-> FALSE]

Document(text, ownership) ==
    [text |-> text, ownership |-> ownership, edit_position |-> NoPosition, info |-> NoInfo]

Bad(text, n) == {i \in 1 .. n : text[i] = "bad"}
Errors(text) == Cardinality(Bad(text, Len(text)))

(* The error that brings the count to the limit stops the analysis, and is *)
(* followed by one more diagnostic that says so.  A count that is already  *)
(* at the limit or above it stops nothing.                                 *)
CutShort(text) == /\ error_count < maximum_errors
                  /\ maximum_errors <= error_count + Errors(text)
Resolved(text) == {n \in 1 .. Len(text) :
    CutShort(text) => error_count + Cardinality(Bad(text, n)) < maximum_errors}
Diagnostics(text) == IF CutShort(text) THEN maximum_errors - error_count + 1
                                       ELSE Errors(text)

(* Slips the code might contain have names that begin with Bug: each is an *)
(* alternative to the definition behind it, and a property refutes it.     *)
BugAnalyzedButLast(doc) ==
    [doc EXCEPT !.info = [text |-> doc.text, at |-> doc.edit_position,
                          shown |-> Diagnostics(doc.text), resolved |-> Len(doc.text) - 1,
                          env |-> TRUE]]
(* What analyze_document leaves in the document: the text and the edit     *)
(* position it looked at, how many diagnostics there are, and how many     *)
(* definitions have a value.                                               *)
Analyzed(doc) ==
    [doc EXCEPT !.info = [text     |-> doc.text,
                          at       |-> doc.edit_position,
                          shown    |-> Diagnostics(doc.text),
                          resolved |-> Cardinality(Resolved(doc.text)),
                          env      |-> TRUE]]

(* db::document_path *)
DocumentPath(table, id) == CHOOSE p \in DOMAIN table : table[p] = id

Publish(table, id, doc) == display' = [display EXCEPT ![DocumentPath(table, id)] = doc.info.shown]

EditText(text, from, to, new) == SubSeq(text, 1, from) \o new \o SubSeq(text, to + 1, Len(text))

(* apply_content_change, for a change it can apply.  A small edit is taken *)
(* for typing, and the position behind it becomes the edit position.       *)
Changed(doc, c) ==
    [doc EXCEPT !.text = IF c.kind = "whole" THEN c.text
                                             ELSE EditText(doc.text, c.from, c.to, c.text),
                !.edit_position = IF c.kind = "range" /\ c.small THEN c.from ELSE NoPosition]

InRange(text, c) == c.from <= c.to /\ c.to <= Len(text)

-----------------------------------------------------------------------------
(* The server: run_server reads a frame, handles its messages in order and *)
(* writes their replies together.                                          *)

Init == /\ inbox = <<>>
        /\ status = "running" /\ exit_code = Running /\ is_initialized = FALSE
        /\ documents = <<>> /\ paths = <<>>
        /\ maximum_errors = 0 /\ error_count = 0
        /\ busy = FALSE /\ todo = <<>> /\ target = NoDocument /\ rest = <<>>
        /\ replies = <<>> /\ replied = <<>>
        /\ display = [p \in Paths |-> 0]
        /\ phase = "fresh" /\ draft = <<>> /\ sent = 0
        /\ mirror = [p \in Paths |-> Closed]

Reply(id, code) == [id |-> id, code |-> code]

ReadFrame ==
    /\ status = "running" /\ ~busy /\ exit_code = Running
    /\ inbox # <<>>
    /\ inbox' = Tail(inbox)
    /\ IF Head(inbox) = <<>>
       THEN /\ replied' = Append(replied, Reply(NoId, "Invalid_request"))
            /\ UNCHANGED <<busy, todo>>
       ELSE /\ busy' = TRUE /\ todo' = Head(inbox)
            /\ UNCHANGED replied
    /\ UNCHANGED <<process, database, target, rest, replies, display, client>>

BugWriteKeepsReplies ==
    /\ status = "running" /\ busy /\ todo = <<>>
    /\ replied' = replied \o replies
    /\ busy' = FALSE
    /\ UNCHANGED <<inbox, process, database, todo, target, rest, replies, display, client>>
BugWriteOnlyBatches ==
    /\ status = "running" /\ busy /\ todo = <<>>
    /\ replied' = IF Len(replies) > 1 THEN replied \o replies ELSE replied
    /\ replies' = <<>> /\ busy' = FALSE
    /\ UNCHANGED <<inbox, process, database, todo, target, rest, display, client>>
WriteReplies ==
    /\ status = "running" /\ busy /\ todo = <<>>
    /\ replied' = replied \o replies
    /\ replies' = <<>> /\ busy' = FALSE
    /\ UNCHANGED <<inbox, process, database, todo, target, rest, display, client>>

(* rpc::read_message fails at the end of the stream. *)
EndOfInput ==
    /\ status = "running" /\ ~busy /\ exit_code = Running
    /\ inbox = <<>> /\ phase = "gone" /\ draft = <<>>
    /\ status' = "failed"
    /\ UNCHANGED <<inbox, exit_code, is_initialized, database, frame, replied, display, client>>

(* The loop of run_server ends only between two frames. *)
Stop ==
    /\ status = "running" /\ ~busy /\ exit_code # Running
    /\ status' = "returned"
    /\ UNCHANGED <<inbox, exit_code, is_initialized, database, frame, replied, display, client>>

(* The message being handled, and how its handling ends. *)
m == Head(todo)
Handling == status = "running" /\ busy /\ todo # <<>> /\ target = NoDocument
Done     == todo' = Tail(todo) /\ UNCHANGED <<inbox, busy, target, rest, replied, client>>
Silently == Done /\ UNCHANGED replies
Answer(code) == Done /\ replies' = Append(replies, Reply(m.id, code))

IsRequest      == m.id # NoId /\ m.method # "malformed"
IsNotification == m.id = NoId /\ m.method # "malformed"
Request(method)      == Handling /\ IsRequest /\ is_initialized /\ m.method = method
Notification(method) == Handling /\ IsNotification /\ is_initialized /\ m.method = method

(* as<Json::Object> of the message, or its method, throws Bad_json. *)
RefuseMalformed ==
    /\ Handling /\ m.method = "malformed"
    /\ Answer("Invalid_request")
    /\ UNCHANGED <<process, database, display>>

HandleInitialize ==
    /\ Handling /\ IsRequest /\ m.method = "initialize"
    /\ is_initialized' = TRUE
    /\ Answer("ok")
    /\ UNCHANGED <<status, exit_code, database, display>>

RefuseUninitialized ==
    /\ Handling /\ IsRequest /\ m.method # "initialize" /\ ~is_initialized
    /\ Answer("Server_not_initialized")
    /\ UNCHANGED <<process, database, display>>

HandleShutdown ==
    /\ Request("shutdown")
    /\ is_initialized' = FALSE
    /\ documents' = <<>> /\ paths' = <<>> /\ maximum_errors' = 0 /\ error_count' = 0
    /\ Answer("ok")
    /\ UNCHANGED <<status, exit_code, display>>

HandleExit ==
    /\ Handling /\ IsNotification /\ m.method = "exit"
    /\ exit_code' = IF is_initialized THEN 1 ELSE 0
    /\ Silently
    /\ UNCHANGED <<status, is_initialized, database, display>>

DropNotification ==
    /\ Handling /\ IsNotification /\ m.method # "exit" /\ ~is_initialized
    /\ Silently
    /\ UNCHANGED <<process, database, display>>

(* Bad_json: document_identifier_from_json finds no document for the path. *)
RequestsOfDocument      == {"completion", "documentSymbol", "hover"}
NotificationsOfDocument == {"didChange", "didClose"}
RefuseUnopened ==
    /\ Handling /\ is_initialized
    /\ \/ IsRequest /\ m.method \in RequestsOfDocument
       \/ IsNotification /\ m.method \in NotificationsOfDocument
    /\ m.path \notin DOMAIN paths
    /\ Answer("Invalid_params")
    /\ UNCHANGED <<process, database, display>>

Known == m.path \in DOMAIN paths
Id    == paths[m.path]

BugOpenWithLastId ==
    /\ Notification("didOpen")
    /\ documents' = Append(documents, Analyzed(Document(m.text, "Client")))
    /\ paths' = [p \in DOMAIN paths \cup {m.path} |->
                     IF p = m.path THEN Len(documents) ELSE paths[p]]
    /\ error_count' = error_count + Diagnostics(m.text)
    /\ Silently
    /\ UNCHANGED <<process, maximum_errors, display>>
(* The document is always a new one, also when the path has one already. *)
HandleOpen ==
    /\ Notification("didOpen")
    /\ LET id  == Len(documents) + 1
           doc == Analyzed(Document(m.text, "Client"))
       IN  /\ documents' = Append(documents, doc)
           /\ paths' = [p \in DOMAIN paths \cup {m.path} |->
                            IF p = m.path THEN id ELSE paths[p]]
           /\ error_count' = error_count + Diagnostics(m.text)
           /\ Publish(paths', id, doc)
    /\ Silently
    /\ UNCHANGED <<process, maximum_errors>>

(* The path keeps its document; what is left of it is the server's own. *)
HandleClose ==
    /\ Notification("didClose") /\ Known
    /\ documents' = IF documents[Id].ownership = "Client"
                    THEN [documents EXCEPT ![Id] = Document(<<>>, "Server")]
                    ELSE documents
    /\ Silently
    /\ UNCHANGED <<process, paths, maximum_errors, error_count, display>>

BeginChange ==
    /\ Notification("didChange") /\ Known
    /\ target' = Id /\ rest' = m.changes
    /\ UNCHANGED <<inbox, process, database, busy, todo, replies, replied, display, client>>

Changing == status = "running" /\ busy /\ target # NoDocument
c == Head(rest)

ApplyContentChange ==
    /\ Changing /\ rest # <<>>
    /\ c.kind = "whole" \/ (c.kind = "range" /\ InRange(documents[target].text, c))
    /\ documents' = [documents EXCEPT ![target] = Changed(@, c)]
    /\ rest' = Tail(rest)
    /\ UNCHANGED <<inbox, process, paths, maximum_errors, error_count,
                   busy, todo, target, replies, replied, display, client>>

(* The range is asserted to lie in the text: the process is aborted. *)
ChangeOutOfRange ==
    /\ Changing /\ rest # <<>>
    /\ c.kind = "range" /\ ~InRange(documents[target].text, c)
    /\ status' = "aborted"
    /\ UNCHANGED <<inbox, exit_code, is_initialized, database, frame, replied, display, client>>

BugAbandonKeepsPosition ==
    /\ Changing /\ rest # <<>> /\ c.kind = "malformed"
    /\ target' = NoDocument /\ rest' = <<>> /\ todo' = Tail(todo)
    /\ replies' = Append(replies, Reply(m.id, "Invalid_params"))
    /\ UNCHANGED <<inbox, process, database, busy, replied, display, client>>
BugAbandonGoesOn ==
    /\ Changing /\ rest # <<>> /\ c.kind = "malformed"
    /\ documents' = [documents EXCEPT ![target].edit_position = NoPosition]
    /\ rest' = Tail(rest) /\ todo' = Tail(todo)
    /\ replies' = Append(replies, Reply(m.id, "Invalid_params"))
    /\ UNCHANGED <<inbox, process, paths, maximum_errors, error_count,
                   busy, target, replied, display, client>>
(* Bad_json from inside the loop: the changes before it have been made,    *)
(* and the document is not analysed.                                       *)
AbandonChange ==
    /\ Changing /\ rest # <<>> /\ c.kind = "malformed"
    /\ documents' = [documents EXCEPT ![target].edit_position = NoPosition]
    /\ target' = NoDocument /\ rest' = <<>> /\ todo' = Tail(todo)
    /\ replies' = Append(replies, Reply(m.id, "Invalid_params"))
    /\ UNCHANGED <<inbox, process, paths, maximum_errors, error_count,
                   busy, replied, display, client>>

BugFinishPublishesOld ==
    /\ Changing /\ rest = <<>>
    /\ LET doc == Analyzed(documents[target])
       IN  /\ documents' = [documents EXCEPT ![target] = doc]
           /\ error_count' = error_count + Diagnostics(doc.text)
           /\ Publish(paths, target, documents[target])
    /\ target' = NoDocument /\ todo' = Tail(todo)
    /\ UNCHANGED <<inbox, process, paths, maximum_errors, busy, rest, replies, replied, client>>
FinishChange ==
    /\ Changing /\ rest = <<>>
    /\ LET doc == Analyzed(documents[target])
       IN  /\ documents' = [documents EXCEPT ![target] = doc]
           /\ error_count' = error_count + Diagnostics(doc.text)
           /\ Publish(paths, target, doc)
    /\ target' = NoDocument /\ todo' = Tail(todo)
    /\ UNCHANGED <<inbox, process, paths, maximum_errors, busy, rest, replies, replied, client>>

HandleChangeConfig ==
    /\ Notification("didChangeConfiguration")
    /\ maximum_errors' = m.limit
    /\ Silently
    /\ UNCHANGED <<process, documents, paths, error_count, display>>

(* "initialized", "$/..." and what the server does not support; an open of *)
(* a document in another language.                                         *)
IgnoreNotification ==
    /\ Notification("ignored")
    /\ Silently
    /\ UNCHANGED <<process, database, display>>

(* completion and signatureHelp look again when asked about another place. *)
HandleCompletion ==
    /\ Request("completion") /\ Known
    /\ LET doc   == [documents[Id] EXCEPT !.edit_position = m.position]
           again == documents[Id].edit_position # m.position
       IN  /\ documents' = IF again THEN [documents EXCEPT ![Id] = Analyzed(doc)] ELSE documents
           /\ error_count' = error_count + (IF again THEN Diagnostics(doc.text) ELSE 0)
    /\ Answer("ok")
    /\ UNCHANGED <<process, paths, maximum_errors, display>>

(* root_env_id and the values of the definitions are there. *)
Outlined(doc) == doc.info.env /\ doc.info.resolved = Len(doc.info.text)

HandleSymbols ==
    /\ Request("documentSymbol") /\ Known /\ Outlined(documents[Id])
    /\ Answer("ok")
    /\ UNCHANGED <<process, database, display>>

(* std::bad_optional_access, which only main catches. *)
SymbolsThrow ==
    /\ Request("documentSymbol") /\ Known /\ ~Outlined(documents[Id])
    /\ status' = "failed"
    /\ UNCHANGED <<inbox, exit_code, is_initialized, database, frame, replied, display, client>>

(* The requests that read the document's info and change nothing. *)
HandleRead ==
    /\ Request("hover") /\ Known
    /\ Answer("ok")
    /\ UNCHANGED <<process, database, display>>

RefuseUnsupported ==
    /\ Request("unsupported")
    /\ Answer("Request_failed")
    /\ UNCHANGED <<process, database, display>>

Server ==
    \/ ReadFrame \/ WriteReplies \/ EndOfInput \/ Stop
    \/ RefuseMalformed \/ HandleInitialize \/ RefuseUninitialized \/ HandleShutdown
    \/ HandleExit \/ DropNotification \/ RefuseUnopened \/ HandleOpen \/ HandleClose
    \/ BeginChange \/ ApplyContentChange \/ ChangeOutOfRange \/ AbandonChange \/ FinishChange
    \/ HandleChangeConfig \/ IgnoreNotification \/ HandleCompletion
    \/ HandleSymbols \/ SymbolsThrow \/ HandleRead \/ RefuseUnsupported

-----------------------------------------------------------------------------
(* The client.  It writes messages one by one or in batches, and does not  *)
(* wait for replies.  A polite one initializes the server first, opens     *)
(* what it has not opened, refers only to what it has opened, at places in *)
(* its text, and after shutdown only says exit.                            *)

Blank == [id |-> NoId, method |-> "malformed", path |-> NoPath, text |-> <<>>,
          changes |-> <<>>, limit |-> 0, position |-> NoPosition]
Note(method) == [Blank EXCEPT !.method = method]
Ask(method)  == [Note(method) EXCEPT !.id = sent + 1]
About(p, message) == [message EXCEPT !.path = p]

IsOpen(p)   == mirror[p] # Closed
Addressable == {p \in Paths : Polite => IsOpen(p)}
Session     == Polite => phase = "active"
Mirror(new) == mirror' = IF Polite THEN new ELSE mirror

(* The texts a list of changes passes through, from the client's own one.  *)
After(text, changes) ==
    LET after[i \in 0 .. Len(changes)] ==
            IF i = 0 THEN text
            ELSE LET change == changes[i]
                 IN  IF change.kind = "whole" THEN change.text
                     ELSE EditText(after[i - 1], change.from, change.to, change.text)
    IN  after
Applicable(text, changes) ==
    \A i \in 1 .. Len(changes) :
        \/ changes[i].kind = "whole"
        \/ changes[i].kind = "range" /\ InRange(After(text, changes)[i - 1], changes[i])

Say(message) ==
    /\ sent < MaxMessages /\ phase # "gone" /\ Len(inbox) < MaxInbox
    /\ sent' = sent + 1
    /\ \/ draft = <<>> /\ inbox' = Append(inbox, <<message>>) /\ UNCHANGED draft
       \/ Len(draft) < MaxBatch /\ draft' = Append(draft, message) /\ UNCHANGED inbox
    /\ message.method \in Methods
    /\ UNCHANGED <<process, database, frame, replied, display>>

Initialize ==
    /\ Polite => phase = "fresh"
    /\ Say(Ask("initialize"))
    /\ phase' = "active" /\ UNCHANGED mirror

Open == \E p \in Paths, t \in Texts :
    /\ Session /\ (Polite => ~IsOpen(p))
    /\ Say([About(p, Note("didOpen")) EXCEPT !.text = t])
    /\ Mirror([mirror EXCEPT ![p] = t]) /\ UNCHANGED phase

Close == \E p \in Addressable :
    /\ Session
    /\ Say(About(p, Note("didClose")))
    /\ Mirror([mirror EXCEPT ![p] = Closed]) /\ UNCHANGED phase

ChangeText == \E p \in Addressable, changes \in Changes :
    /\ Session /\ (Polite => Applicable(mirror[p], changes))
    /\ Say([About(p, Note("didChange")) EXCEPT !.changes = changes])
    /\ Mirror([mirror EXCEPT ![p] = After(mirror[p], changes)[Len(changes)]])
    /\ UNCHANGED phase

ChangeConfig == \E limit \in Limits :
    /\ Session
    /\ Say([Note("didChangeConfiguration") EXCEPT !.limit = limit])
    /\ UNCHANGED <<phase, mirror>>

AskAboutDocument == \E p \in Addressable, method \in RequestsOfDocument :
    /\ Session
    /\ \E position \in IF method = "completion" THEN Positions ELSE {NoPosition} :
           Say([About(p, Ask(method)) EXCEPT !.position = position])
    /\ UNCHANGED <<phase, mirror>>

SayMalformed ==
    /\ ~Polite
    /\ Say(Note("malformed")) \/ Say(Ask("malformed"))
    /\ UNCHANGED <<phase, mirror>>

SayOther ==
    /\ Session
    /\ Say(Note("ignored")) \/ Say(Ask("unsupported"))
    /\ UNCHANGED <<phase, mirror>>

Shutdown ==
    /\ Session
    /\ Say(Ask("shutdown"))
    /\ phase' = "shut down"
    /\ Mirror([p \in Paths |-> Closed])

Exit ==
    /\ Polite => phase = "shut down"
    /\ Say(Note("exit"))
    /\ phase' = IF Polite THEN "gone" ELSE phase
    /\ UNCHANGED mirror

SendBatch ==
    /\ draft # <<>> /\ Len(inbox) < MaxInbox
    /\ inbox' = Append(inbox, draft) /\ draft' = <<>>
    /\ UNCHANGED <<process, database, frame, replied, display, phase, sent, mirror>>

(* A frame that holds no message, and the end of the stream. *)
SendNothing ==
    /\ ~Polite /\ sent < MaxMessages /\ phase # "gone" /\ Len(inbox) < MaxInbox
    /\ sent' = sent + 1
    /\ inbox' = Append(inbox, <<>>)
    /\ UNCHANGED <<process, database, frame, replied, display, draft, phase, mirror>>

HangUp ==
    /\ ~Polite /\ phase # "gone" /\ draft = <<>>
    /\ phase' = "gone"
    /\ UNCHANGED <<inbox, process, database, frame, replied, display, draft, sent, mirror>>

Client ==
    \/ Initialize \/ Open \/ Close \/ ChangeText \/ ChangeConfig \/ AskAboutDocument
    \/ SayMalformed \/ SayOther \/ Shutdown \/ Exit \/ SendBatch \/ SendNothing \/ HangUp

(* The client chooses whether to say anything; the server, one thread that *)
(* blocks only to read, handles what it is sent.                           *)
Next == Server \/ Client
Spec == Init /\ [][Next]_vars /\ WF_vars(Server)

-----------------------------------------------------------------------------
(* Properties. *)

(* Every variable of the server keeps its type, and a document that is     *)
(* being changed is in the table.                                          *)
Info == [text : Text, at : Int, shown : Nat, resolved : Nat, env : BOOLEAN]
DocumentType == [text : Text, ownership : {"Client", "Server"},
                 edit_position : Int, info : Info]
TypeOK ==
    /\ inbox \in Seq(Seq(Message)) /\ draft \in Seq(Message) /\ todo \in Seq(Message)
    /\ status \in {"running", "returned", "failed", "aborted"}
    /\ exit_code \in {Running, 0, 1} /\ is_initialized \in BOOLEAN /\ busy \in BOOLEAN
    /\ documents \in Seq(DocumentType)
    /\ DOMAIN paths \subseteq Paths \cup {NoPath}
    /\ maximum_errors \in Nat /\ error_count \in Nat /\ sent \in Nat
    /\ target \in NoDocument .. Len(documents) /\ rest \in Seq(Change)
    /\ target # NoDocument => busy /\ todo # <<>>

(* A path names one document that exists, and no two paths name the same:  *)
(* document_path finds the path a document was opened with, and its        *)
(* "unreachable" is.                                                       *)
PathsAreSound ==
    /\ \A p \in DOMAIN paths : paths[p] \in 1 .. Len(documents)
    /\ \A p, q \in DOMAIN paths : paths[p] = paths[q] => p = q
    /\ target # NoDocument => \E p \in DOMAIN paths : paths[p] = target

(* Before initialize and after shutdown the server holds no document, also *)
(* when the messages of one batch set it up and tear it down.              *)
UninitializedIsEmpty ==
    ~is_initialized => documents = <<>> /\ paths = <<>> /\ error_count = 0

(* Any client, whatever it opens twice, closes, edits half-way or shuts     *)
(* down, leaves the table of documents in order.                           *)
TableIsSound == PathsAreSound /\ UninitializedIsEmpty

(* handle_completion and handle_signature_help trust the edit position:    *)
(* where a document has one, its info is about that position in its text,  *)
(* through edits that fail half-way, closes and other requests.            *)
EditPositionIsAnalyzed ==
    \A d \in 1 .. Len(documents) :
        documents[d].edit_position # NoPosition /\ d # target =>
            /\ documents[d].info.at = documents[d].edit_position
            /\ documents[d].info.text = documents[d].text

(* What a path named before it was opened again is never touched again,    *)
(* until a shutdown drops every document.                                  *)
Named == {paths[p] : p \in DOMAIN paths}
OrphansAreInert ==
    [][\A d \in 1 .. Len(documents) :
          d \notin Named => documents' = <<>> \/ documents'[d] = documents[d]]_vars

(* The replies that have an id come in the order of the requests, and no   *)
(* request has two.                                                        *)
RepliesInOrder ==
    \A i, j \in DOMAIN replied :
        i < j /\ replied[i].id # NoId /\ replied[j].id # NoId => replied[i].id < replied[j].id

(* What a polite client sees. *)
Quiet == status = "running" /\ ~busy /\ inbox = <<>> /\ draft = <<>>

(* Once the server has handled what it was sent, its text of every open    *)
(* document is the client's, over incremental edits, closing and opening    *)
(* again, and the diagnostics the client shows are those of that text,      *)
(* although a completion analyses again and publishes nothing.              *)
ClientAndServerAgree ==
    Quiet => \A p \in Paths : IsOpen(p) =>
                 /\ p \in DOMAIN paths /\ documents[paths[p]].text = mirror[p]
                 /\ display[p] = Errors(mirror[p])

(* No message of a polite client stops the server but exit, and exit after *)
(* shutdown returns 0.                                                     *)
PoliteClientIsServed == status \in {"running", "returned"} /\ exit_code # 1

(* Every request that reaches the server is answered.                      *)
InPipe(id)  == \E i \in 1 .. Len(inbox) : \E j \in 1 .. Len(inbox[i]) : inbox[i][j].id = id
Replied(id) == \E i \in 1 .. Len(replied) : replied[i].id = id
RequestsAreAnswered == \A id \in 1 .. MaxMessages : InPipe(id) ~> Replied(id)

=============================================================================
