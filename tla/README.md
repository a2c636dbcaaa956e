# Formal verification of Kieli

Kieli is a statically typed language with a compiler front end and a language
server, written in C++. This directory holds TLA+ models of its core, TLC
configurations that check them on small instances, and TLAPS proofs of what
should hold for every instance. Paths below are relative to `src/src/`.

    tlc -workers 2 -config MCResolver.cfg MCResolver     # one run
    tlapm CollectorProofs.tla                            # one proof module

PROJECT.json lists the runs, the source lines each definition models, a seeded
bug for each checked property, the hazards and the findings.

## 1. The system

The text of a document passes through a pipeline of libraries, all called from
one thread:

    editor <-> language-server --(text)--> liblex -> libparse -> libdesugar
                    |                                   |
                    +-- libcompiler (database)     libresolve (collect, resolve, unify)
                                                        |
                                                      libutl (Disjoint_set, String_pool, ...)

The parser is a loop that calls a visitor for every definition it has
extracted; in the language server the visitor desugars the definition and
binds it to a symbol (`collect.cpp`). Once the text is at its end, every
symbol is resolved (`resolve.cpp`, `resolve_definition.cpp`), which resolves
other symbols on demand, and every function body infers its types
(`unification.cpp`) over a union-find structure (`disjoint_set.cpp`).
Diagnostics go back through a callback that counts errors and throws when the
configured number is reached.

| Component | State | Operations | What is hard about it | What makes it correct |
|---|---|---|---|---|
| `libutl/disjoint_set` | parent links, weights | add, find, merge, find_without_compressing | links are rewritten while they are followed; the heavier root is hung below the lighter one | no cycle, calls return, the classes are those that were merged |
| Type and mutability inference (`unification.cpp`, `occurs_check.cpp`, `Block_state`) | type and mutability variables with kind, slot and solved flag; their classes; the arenas of types and mutabilities | fresh variable, unify, solve, flatten, ensure; one visitor per expression and pattern | order of merging and solving; flags and slots kept in two places; types overwritten while visitors hold them | an accepted body satisfies the relations it was asked for; types stay finite; every variable ends solved |
| Names, scopes and loops (`bind_symbol`, `resolve_path.cpp`, `resolve_pattern.cpp`, `Block_state::loop_info`) | environments, symbols with use counts, the innermost loop | new_scope, bind_symbol, find_starting_point, report_unused, loop and break | shadowing in one scope, bindings that count from their end, a field saved and restored around each loop | lexical scoping; each unused binding is reported once; a break belongs to its loop |
| Language server (`server.cpp`, `json.cpp`) | initialized, exit code, edit position and info of each document | one handler per method, batches | any order of messages; a change list that fails half-way; cached analysis | server and client agree on texts; each request is answered once, in order; no message of a well-behaved client ends the process |
| Compilation database (`compiler.cpp`, `db.hpp`) | documents, path table, error count | client_open, client_close, text_range, edit_text, count_diagnostic | opening twice leaves a document behind; the limit throws through everything; positions are lines and columns, the text is one string | paths name live, distinct documents; an edit is the editor's edit |
| RPC framing (`rpc.cpp`) | the stream | read_message, write_message | length header, a stream that stops anywhere | messages arrive whole, in order, once |
| Lexer (`lex.cpp`) | offset and position | next | two counters over nested comments, escapes, line breaks | tokens cover the text in order, with the right positions; it ends |
| Definition loop and collector (`parse.hpp`, `parse.cpp`, `parse_definition.cpp`, `collect.cpp`) | block depth; stack of environments; symbols | one turn per definition, recovery by exception | parser and collector count blocks separately and errors reach only one | no definition is lost, each is in the module it is written in, no assertion fails |
| Definition resolution (`resolve_*.cpp`) | what is memoised, scopes of signatures, use counts | resolve_symbol, warn_if_unused and what they call | order on demand, cycles, references into growing vectors | same result in any order; each text once; unused means unused |
| Parser inside definitions (`parse_*.cpp`) | one token of lookahead, semantic tokens, the previous path's offset | one function per grammatical form | separated sequences, operator chains, what is consumed before a failure, semantic tokens recorded out of order and retyped | the tree's brackets and rows are the text's; what is skipped is reported; it ends |
| Desugaring (`libdesugar`) | none that lasts | tree to tree | what is asked before and after a part is desugared; omitted parts | the equations of its README |
| Formatter (`libformat`) | indentation | one visitor per node | spaces are decided form by form | the same tokens, none run together, but for what section 4 lists |
| Tree display, driver | none that lasts | tree to text | layout | |
| String pool, index vector, mailbox | pooled strings; a queue | make; push, pop | lifetime, blocking | equal strings have equal ids; nothing is lost |

The whole program has one thread, and nothing is persisted. What makes it hard
is not interleaving but *order*: legal calls in an order nobody tried, state
that is kept twice, errors that leave by exception in the middle of an update,
values cached on the assumption that nothing has changed, and recursion that
is driven by the input. The client and the server are the one pair of
concurrent actors.

## 2. Modules

Each component has a module, an `MC` module with the inputs for TLC, and
`.cfg` files; proofs are in a module `...Proofs` of their own, those about Rpc
and TextDocument in EditorProofs. A slip the code
might contain has a name that begins with `Bug` and stands right before the
definition it is a variant of; nothing else uses it. PROJECT.json says which
property refutes each.

- **Partition** is the abstract specification of a union-find structure:
  classes with a leader each, and calls that are made with arguments and end in
  one step. What a call does is tied to what it was called with: `find` answers
  with the leader of its argument, `merge` joins the classes of its two
  arguments and no others, and a call is refused if and only if it names a node
  that was never added. **DisjointSet** is the forest of
  `disjoint_set.cpp`. One action is one turn of the loop of `find`
  (`Halve`, which rewrites a link while it climbs), so that the forest is seen in
  the middle of a search and between the two searches of `merge`. A history
  variable `leader` holds the classes, and through it DisjointSet implements
  Partition (`ImplementsPartition`): the two searches of a merge, and every turn
  of a search, are no steps of the partition's call.
- **Unification** is one function body: a sequence of `let` statements, each
  with a pattern (a name or a pair of names, with a mutability), an optional
  type and an initializer: a wildcard, a literal, `ret`, a name, a conditional,
  a pair or its field, an ascription, a call, a match, a reference to a place,
  a place behind a reference, or both. `Let` resolves one of them with every
  call it makes (`Fresh`, `Unify`, `SetSolution`, `Require`, `Borrow`), and
  `EndOfBody` is `ensure_no_unsolved_variables`, first over mutabilities
  (`EnsureMutability`), then over types (`EnsureType`). `block` is `Block_state`
  and the two arenas: an identifier is an index, and solving a variable
  overwrites its slot as the code does. Pairs stand for tuples, arrays and
  slices, references for pointers. `required` records what relations were
  asked for, and `marks` which of the known weaknesses (section 4) a body has
  met, so that each property says exactly which of them it excepts. The
  classes of variables are those that DisjointSet is shown to keep.
- **Scopes** is names and loops in one function: a text of events (template
  parameters, patterns, bindings that count from their end, blocks, uses,
  loops, breaks) is chosen while it is resolved, one per action, with the
  environments and symbols the code keeps. The properties read the same text
  without environments: what a name means by the braces around it. Their
  definitions take the text as a parameter, because the proofs compare a text
  with the one that has an event more.
- **Channel** is the abstract specification of a stream of messages: they
  arrive whole, in order and once, and a writer that leaves may lose its last
  one. **Rpc** is `write_message` and `read_message` with one action for each
  symbol that is written or read and `MeetEnd` for the end of the stream. It
  implements Channel (`ImplementsChannel`).
- **LineBuffer** is what an editor means by a change: a document is a sequence
  of lines. **TextDocument** is `text_range`, `edit_text` and
  `apply_content_change` on one string. It implements LineBuffer
  (`TextIsLines`), through the lines that the string spells.
- **LanguageServer** composes the server, the database and a client that
  writes into the server's input whenever it likes. One action is one handler;
  `didChange` is split into its content changes, since any of them may throw
  or abort. A frame is a batch of messages, its replies are written together.
  A text is a sequence of structure definitions, each with an error or
  without: that is enough to tell what the error limit cuts off. `Polite`
  chooses between a client that keeps to the protocol and one that sends
  anything in any order.
- **Lexer** is `lex.cpp` over character classes, one class for each distinction
  its predicates make; one action is one turn of whichever loop it is in.
- **Collector** is the loop of `parse.hpp` and the collector it calls. A
  document is a sequence of items, each what one turn of the loop extracts: a
  complete definition, a module, an impl block, a definition that fails, a
  closing brace, anything else. One action is one turn, and one is one token
  skipped in recovery.
- **Resolver** is the resolution of a document's definitions. The calls in
  progress are an explicit stack, a frame is a call and how far it has read its
  text; what a text asks of other definitions is a sequence of uses. The
  machine's stack has room for `MaxDepth` calls, so that endless recursion
  is a phase the model reaches (`overflow`) and not one it cannot express.
- **Parser** is what `parse_*.cpp` does inside a definition, as a machine with a
  stack: `todo` holds what the calls in progress have still to do, and one
  step does the first of it: try a token, require it and fail, parse a form,
  build a node from the results so far. A separated sequence, an operator chain
  and each grammatical form is an operator that yields such instructions, in
  the order of the function it stands for. The text is chosen as it is read:
  each token not seen before may be any of the alphabet's, so that one run
  covers every text of a document's beginning and up to `M` tokens more.
  What is consumed, what is reported, where a failure leaves the parser and
  the semantic tokens with their retyping are kept; ranges are not, and a
  literal is a token that is valid or not.
- **Desugar** is the translation of Parser's trees, one operator for each
  function of `libdesugar` that does more than translate the parts. Its README
  lists equations between texts, such as `x | f(y)` and `f(x, y)`:
  `Equations` holds them as pairs of definitions, with every fragment of a few
  in the place of each letter; the document made of the two is parsed, and both
  are desugared to one tree, but for blocks that only hold a result (the code
  puts the conditional of a `while` into the loop without a block).

- **Format** is `libformat` on the same trees: the sequence of tokens and
  spaces each node is printed as. The text a definition was read from is still
  there when it has been parsed, so that the two are compared. Numbers are told
  apart by how they are printed: with a dot, without one, or with an exponent.

Three of the modules implement an abstract one (`INSTANCE ... WITH`):
DisjointSet a Partition, Rpc a Channel, TextDocument a LineBuffer. What a text
or a program is made of is chosen in `Init` (Lexer, Collector, Resolver; token
by token or event by event in Parser and Scopes) from a constant, so that the
proofs are for every document. `MCLibrary` and `MCResolver` each run several
modules side by side: a behaviour is that of one of them, and the others stay idle.

## 3. Runs

Twelve runs, one for each question.

| Run | Question | Bounds |
|---|---|---|
| library | Do classes, links and weights stay right, do calls return, is the forest a Partition? Is the stream a Channel, wherever it is cut? Does an edit of the string do what the editor did to the lines? | 4 nodes, unbounded calls, one index out of range; 3 messages whose contents look like headers, a hang-up anywhere; texts of 4 characters, insertions of 2, every position of the text and one behind it |
| inference | Does an accepted body satisfy its relations, do types stay finite, does the end of a body decide only what is open? | seven vocabularies of 2 or 3 free statements: plain types; references and places; generic mutabilities; calls and matches; destructured pairs; what can knot a class into its own solution; what diverges |
| inference_late_merge | *violation*: do the relations hold without exception? | 4 statements, names and wildcards |
| server | Is the document table sound, and are replies in order, under any client? | 4 messages, alone or in batches of 2, a frame ahead; 2 paths, every method |
| server_polite | Is a polite client served: texts, diagnostics, answers | 7 messages, 1 path, no error limit |
| server_throw | *violation*: also with an error limit? | 4 messages |
| lexer | Do the tokens follow the text, with the right positions, to its end? | every text of 4 characters of 14 classes; every text of 7 of three alphabets (comments, strings, numbers) |
| lexer_multiline_token | *violation*: does a token stay on its line? | 4 characters |
| collector | Do parser and collector agree, is every definition kept and placed? | every document of 5 items, 2 names |
| collector_implementation | *violation*: do the assertions hold with impl blocks? | 3 items |
| resolver | Does lazy resolution give what the text says? | every pair of definitions with up to one use in each text, initialisers with a use inside; triples of a function, a structure or enumeration and a third, in several orders |
| (same run) | Do names mean what the text says, is each unused binding reported once, whose is a break? | every text of 8 events of one name, blocks and bindings; of 5 events of any kind and two names, one of them silent; of 8 events of loops, breaks, blocks |
| parser | Are trees, semantic tokens and reports those of the text, does parsing end, do the README's equations hold, are definitions printed as they were read, but for the literals and signs of section 4? | 16 beginnings, each with an alphabet, and every continuation of 2 to 5 tokens; 201 equations; 32 forms in each of 11 places, and 5 definitions that are no functions |

Why the bounds are enough to meet the cases: four nodes are the fewest that
make a tree of depth two in which compression changes a link that another
search then follows. Late merging needs four statements without a prelude,
which is why the violating run has four. The passing run excepts it by mark and
not by bound, and its preludes put the body where the interesting step is one
or two statements away: two places, references to them and two reads of an
open one; a variable, its alias, and pairs of it. Three statements after that
reach every pair of forms with a name shared between them. A message of three
symbols is longer than its separator and has a length of two digits; three of
them are one behind the reader, one under way and one cut off. Four characters
are two lines of one and both line feeds, or an edit across the only one, and an
insertion of two splits a line. Eight events are three nested constructs with a
use or a break between them and two bindings of one name, or a loop in the
operand of a break in a loop. Four messages are initialize, two opens of a path
and a change or close of either, or initialize, an open, a request that sets
the edit position and a change that fails half-way; two in a batch are a
session that ends in the frame it begins in. Seven are a session with an open, two changes,
a close, an open again and a request. In seven characters there is a comment in
a comment (`/*/**/` and one more), an escaped backslash before a quote, and a
number, dot, number, dot, number. Five items are two nested modules with one
definition and their ends, or a failure between any two of these. In pairs and
triples every kind of definition uses every other, in both directions, cycles
of length one to three included; a stack of five calls is deeper than any
chain without a cycle among three definitions, which `OverflowMeansCycle`
itself confirms. Five tokens after a beginning are
an operand, an operator, an operand and two brackets, or two elements, their
separator and a closing bracket: each beginning stops inside the form its
alphabet is about. The fragments of the equations are names, literals, infix
calls and blocks that contain sugar themselves, three forms of a function that
are no calls, three patterns, two blocks.

**Deadlock.** Every run has `CHECK_DEADLOCK FALSE`, as every system
stops: a lexer that has reached the end of its text, a server that has
returned, a client that has said what it had to say (`MaxMessages`), a union-find
that is at `MaxNodes` and idle, a reader that has met the end of the stream, a
body that is resolved. What must not stop is stated as liveness.

**Fairness.** `DisjointSet`: `WF(Step)`, a call that has begun goes on; nothing makes
the caller call. `Rpc`: `WF(Flush)` and `WF(Read)`, both ends are processes
that run, but the writer may leave at any time and need not begin a message;
under it `ImplementsChannel` says that what was written completely arrives.
`LanguageServer`: `WF(Server)`, the server is one thread
that blocks only to read; there is none for the client. `Lexer`, `Collector`,
`Resolver`, `Parser`: `WF(Next)` (in `MCResolver` of the resolver's own steps), each is
one function call that waits for nothing. `Unification`, `Scopes` and
`TextDocument` state none and check no liveness.

## 4. What the runs show to go wrong

Four disagreements of the code with a statement in the repository are runs
that end in a violation.

1. **A late merge forgets a solution** (`unification.cpp:173`). Merging two
   variables keeps the solution stored at the root that stays, whatever the other
   root had. `let a = _; let b: I32 = a; let c = a; let d: Bool = a;` is
   accepted.
2. **An interrupted analysis ends the server** (`json.cpp:579`). When the error
   limit stops an analysis, a structure in the environment has no value, and
   `documentSymbol` takes it with `.value()`.
3. **A string token spans lines** (`lex.cpp:210`). The character after a
   backslash is taken unseen, also a line break, and the range goes to
   `add_semantic_token`, which asserts that it does not span lines.
4. **An impl block empties the collector's stack** (`collect.cpp:153`). The
   parser counts impl blocks, the collector opens no environment for them, and
   pops one at every counted brace: after `impl X {}` the next definition
   aborts.

Other behaviour met while modelling, which no line of the repository
contradicts, is kept in the models as it is:

- Inference:
  - *mixed*: the integral kind is copied to the other variable, not to its
    class, so a later solution may consult a stale kind, and an integer literal
    is accepted as a `Bool`.
  - *blind*: the occurs check compares one variable, not its class, so a type
    may contain itself; the next comparison of it recurses until the stack is
    used up.
  - *never*: `set_type_solution` checks a second solution as a subtype of the
    first whichever side the variable was on, so `!` may replace a type it
    should only have been compared with: an initializer of type `I32` is accepted where
    `!` was declared.
  - *torn*: `set_type_solution` overwrites a type whose parts a visitor further
    up is iterating over (undefined behaviour in the code; the model goes no
    further). Bodies that get there have a diagnostic already (`TypesStayFinite`).
  - A class of several mutability variables that is solved to `mut` gets an error at the end
    of the body: every member without a flag of its own asks the root to be immutable.
    A mutability that was solved to `immut` and is then asked to be `mut` is an
    error whichever came first, so `&mut *r` is accepted only if `r` was not used before.
  - `let a = 1; let b = a;` depends on the end of the body to be solved.
- Scopes: the guard of a pattern is resolved before the names of the pattern are
  bound, and cannot use them; the names of a match arm are bound in the scope of
  the match and are still there after it. A type parameter is shadowed by a
  parameter of its name, a mutability parameter is not, and then the parameter
  is an error. The operand of a `break` outside of a loop is not resolved.
- Framing: the text before the length is skipped without being looked at; the
  end of the stream is no failure of `ignore`, so a writer that leaves between
  two messages is reported as a missing length and not as a missing header.
- Edits: a range whose end lies before its start, or a line that is not there,
  aborts the process. A column behind the end of its line counts on into the
  next line; editors do not send such positions, and the model does not either.
- Formatting: `& &x`, `* *x`, `&*x`, `&@x` and `&::x` are printed without the
  space they need, and read again as one operator; `1 .x` becomes `1.x`, which
  is read again as one floating-point number without a value. Numbers are
  printed in their shortest form (`std::print("{}")`, `format_expression.cpp:56`):
  `1.0` is printed as `1` and becomes an integer; `100000.0` is printed as
  `1e+05` and `0.00001` as `1e-05`, which the lexer, whose numbers have no sign
  in them (`lex.cpp:216`), reads as three tokens, the first of which is no
  number. So a definition with such a number no longer parses once it is
  formatted. `FormattingKeepsTokens` says which tokens take its place, and that
  nothing else is made up. Adjacent strings are joined. The template parameters of an impl block are printed before its
  type, where they are not read. A tuple index above 65535 ends the process.
  Definitions with syntax errors, and all comments, are left out of the
  formatted text without a word, since `format_document` is given a sink that
  ignores what is reported (`server.cpp`).
- Server: an error in a notification is answered, with a null id; a closed
  document is still known, empty and the server's own; the error count is
  compared with the limit for equality and is never reset, so once past the
  limit analyses run without one (`db.hpp` says that the exception is thrown
  whenever the limit is reached); shutdown replaces the configuration by a
  default one.
- Lexer: an unterminated comment silently ends the input, since `next` discards
  the error although an `Unterminated_comment` token type exists; `;` is not a
  *valid* character, so a run of invalid characters swallows it.
- Recovery skips closing braces too: what follows a failure inside a module may
  be collected into it although it stands behind its end.
- Resolution: definitions that need each other (alias cycles, a signature whose
  type is `typeof` of the function, enumerations whose fields name their
  own constructors) recurse without an end and without a diagnostic. A struct
  initialiser keeps references into the vectors of constructors and fields; when the
  structure or enumeration its field needs is resolved meanwhile, the vectors
  grow and the references dangle (`HeldReferencesAreFresh` holds for documents
  in which definitions precede their uses, and its mutant shows it fail in the
  other order). Template parameters of structures and enumerations are never
  reported as unused. Fields of a failing initialiser are not resolved.
- Parser: `parse_infix_chain` tests `is_precedence` without a negation, so that
  the last row (`* / %`) binds loosest and all other operators alike, from left
  to right: the table reads as if it were meant the other way around
  (`LastRowBindsLoosest` states what the code does). A number literal out of
  range is consumed and reported, and then not there: a second error follows, or
  `f(9999...)` is `f()`. A tuple index above 65535 is an error node without a
  report of its own, and a tuple index is recorded as a semantic token twice.
  `fn`, `impl`, `typeof` and `_` where an expression is read commit to a
  type, so that an unfinished expression swallows the `fn` of the next
  definition. `if X { ... }` is read as a struct initialiser. `a.b()()` and
  `x.[y](z)` cannot be written; template arguments that begin with `(` are
  types; a type parameter's default stands only behind a `:`;
  an impl block reads its template parameters behind its `{`. The range of a
  node is an argument beside the call that parses it, and the order of the two
  is the compiler's; an infix call's range is that of its operator; an `else if`
  keeps only its second `if` token.
- Desugaring: `x | (f(y))` is `f(x, y)` as well, and `x | (f | g)` is `g(x, f)`:
  parentheses do not make the right side of a pipe a function. A concept's
  type requirements lose their template parameters. Parameters that share a
  type share its node. `if (let ...)` is a conditional whose condition is a `let`.

## 5. What is proved

| Module | Theorems | Inductive invariant |
|---|---|---|
| DisjointSetProofs | types; links lead to heavier nodes, so no cycle; the root found for `merge` stays one; `ClimbFindsLeader`; the forest implements Partition, call by call and with the same arguments | types, `LighterThanParent`, *leader follows links* (a node and its parent have one leader; a root leads itself), *the search stays in the class it began in* (which ties what a call finds to its arguments), `FoundRootStays` |
| LanguageServerProofs | types; `TableIsSound`; `EditPositionIsAnalyzed`; `OrphansAreInert`; `RepliesInOrder`; for a polite client without an error limit `PoliteClientIsServed`, `ClientAndServerAgree` | types and the document table: these together with *a document is changed only while initialized*. For the replies, *Line*: the identifiers in the draft, the inbox, the rest of the frame, its replies and the replies written are each in order, and each precedes those behind it. For the polite client, *Peace*: the messages under way lead, one after the other, from a view of the texts that the server keeps to the view that the client has; a change under way has made the first so many of its changes |
| EditorProofs (Rpc) | Rpc implements the safety of Channel (`MessagesArriveWhole`); `read_message` fails only behind the end of the stream, with every complete message returned (`FailsWithNothingLost`) | *Agree*, until the end of the stream is met: what lies in the stream is the frames of the messages still to be received, one behind the other, the first as far as it is not read, the last perhaps without an end that is still to be written or never will be; and the reader is at a place of the first frame, with as much of its length or content as is read |
| EditorProofs (TextDocument) | TextDocument implements LineBuffer (`TextIsLines`); `EditPositionFollowsText` | the text is a string, and the edit position, when there is one, is that of an offset behind what was typed last. The argument is one fact, `LinesOfJoined`: the lines of two strings one after the other are those of both, the last of the first continued by the first of the second |
| CollectorProofs | types; `StackFollowsBlocks`, the assertions included; `DefinitionsAreKept` | the arenas typed piece by piece, and, for texts without impl blocks, *stack and count agree and nothing has aborted*. For the definitions, *Kept*: what is behind the cursor is listed, what a name means is the first of its name, and while no syntax error has occurred each definition is where its braces put it, since the modules on the stack are those that the text has open at the cursor |
| LexerProofs | types; `TokensAreDisjoint`; `PositionsAgree`; `TokensFollowText` | these and *a token that is about to end has taken a character*. For the positions, *Placed*: also the token being read, and that the last newline before the offset is a number. For the text, *Gaps*: each token begins where the blanks behind the one before it end, and what is being skipped is the rest of them; and *Shapes*: each token, and the one being read, consists of what its type allows |
| ResolverProofs | `ScopeLastsUntilBody`, `HeldReferencesAreFresh`; `ResolutionMatchesText`; `OverflowMeansCycle`, provided that the stack has room for more calls than a document has definitions | *Sound* calls (each is at a place of its own text, and has resolved what it has read), *Frames* (a body is begun by `analyze_document` alone, so it is the first frame), *Completed* (no signature of a complete body is in progress). For documents in order, *Ordered*: the calls in progress are those of one definition, and what is pending or meant lies before it. For the texts, *Chain*: each task in progress needs the next, none of them is complete unless the text has a cycle, and the meaning of each complete alias is found in as many steps as aliases are complete; *Turns*: what either loop of `analyze_document` has passed is complete or in progress; *Counting*: without an error or a cycle, each use that has been read is counted once, and what is reported is what nothing uses |
| ScopesProofs | `NamesResolveLexically`, `UnusedIsReportedOnce`, `BreaksBelongToTheirLoop`, all from `FunctionFollowsText` | *Reading*: the stack is the constructs the text has open, the environment of each block on it is a child of that of the block around it, and the loop in use is the innermost of them with the first break that has ended; each environment in view shows the binding that stands in its scope; a symbol is counted when a use has referred to it, and reported when it is bound to a name no more and nothing has used it; each use refers to what its name meant where it stands |
| Minimum | every set of numbers with an element has a least one; a function on places may be defined by its values at later places, one on numbers by its values at lesser numbers | |

The assumptions are the named ones of the modules: `MaxNodes`, `MaxDepth` and
`MaxInsert` are numbers, `OutOfRange` is not; the header and the separator of a
frame are not empty and neither is a message, which is a sequence of the
symbols that also make up headers, lengths and separators; texts are sequences over their alphabets; a path is
not `NoPath`; in a document of Resolver, struct initialisers nest and an alias
names one type; what a function of Scopes is made of has names among `Names`
and binds variables or types. The theorems about the polite client assume what the run
server_polite sets: the client is polite and configures no limit but 0. With a
limit they would be false, as server_throw shows. No bound of a run is
used: the proofs hold for every number of nodes, every number of messages, every
document and every depth of the stack, and for functions of any length that
bind patterns of any number of names.

*Why strengthening is needed.* That links lead to heavier nodes is not enough
to link what `merge` found: that its first result is still a root after the
second search, which rewrites links, rests on roots being left alone, and the
refinement needs the search to stay in one class. That a path names a live
document in the middle of a change needs that change to be on a document with a path.
The collector's agreement with the parser would be lost in one step if it
had aborted before, so that both are one invariant. A token is not empty because
the loop that collects it can be left only after its first character: the
predicate that chose the loop accepts what the loop takes.
Replies are in order because everything a request passes through is a queue:
the order of the replies alone says nothing of what the next one will be. The
position agrees with the offset when each step moves both past the same
characters, also where two are taken at once, the second of which may be a
newline behind a backslash.

Client and server agree only when nothing is under way, and that is never the
case in the middle of a session. What holds at every moment is a sequence of
views: the server's, one more for each message in the rest of the frame, the
inbox and the draft, and the client's at the end. Each handler makes the first
step of that sequence, each message sent adds one at its end. A definition's
module is that of the last brace open before it, a statement about counts of
braces in the text; it is kept because the count above each module on the stack
grows and shrinks with the stack. The scope of a function is erased by whoever
completes its body. Definitions may need each other, and a signature may even be
in progress twice; what keeps a second completion from storing a scope after
the body has erased it is that nobody but `analyze_document` begins a body.
Held references are fresh because a resolution that is begun while they are
held, in a document where each definition stands before its uses, finds
everything resolved already.

The reader of the stream looks at nothing but digits: it skips the header and
the separator unseen, so that any content would do for them, and one frame read
a symbol too far would make every message behind it another one. What keeps it in
step is that the digits of a length, read one by one until something else
comes, give that length, and that something else comes, the separator. When the writer
leaves, the rest of its frame is missing, and the frame is no longer one of a
message to be received; the reader cannot tell, goes on into it, and runs out of
symbols before the last. That nothing complete is lost then needs one thing more:
only the last frame can be missing a part.

The lines of a text are what its line feeds make of it, and a position is a count
of them and a distance. That a splice of the string is a splice of the lines is
not shown by following either: both texts are cut at the two offsets into
strings, the lines of strings one after the other are joined line by line, and
the position of an offset is the place of the joint. The loop of `text_range`
walks from offset to offset along their positions, which are all different, so
it stops at the offset whose position it was given, or at none.

Nothing in the code notices a definition that is needed while it is in progress.
But what is in progress is a chain in which each task needs the next one, so a
task that is in it twice shows a cycle of the text; and a stack with room for more
calls than there are definitions cannot be full of different tasks, since only
the first can be a body. Without a cycle, then, each text is read by one
call, once, and a place of the text has been counted exactly when it is behind
that call's cursor or its task is complete. What an alias means is found by
following aliases through the text as many times as there are definitions:
enough, because each step of the chain ends at an alias that was complete
before.

What a name means in Scopes is a statement about the whole text: which
braces enclose the use, which bindings stand directly inside of them, which of
those are complete before it. None of it changes when the text grows, except
that a binding still open becomes complete at its end; so an invariant about
the text so far can be kept event by event, and only for what is in view: the
environment of a block that has ended may hold anything, since no name climbs
to it and its symbols have been reported. The climb of `find_starting_point` ends in
the environment of the innermost block that binds the name because the parent
of each environment in view is that of the block around it. A symbol is
reported once because it leaves an environment once, when another binding takes
its name or when its block ends; nothing counts it afterwards, since by then no
name means it. A binding that could not be bound never enters one, and is never
reported. That the type of a loop is that of the break that was complete
first, and not of the one that was begun first, rests on breaks nesting: a break
inside the operand of another one belongs to the same loop and ends before it.

*Recursion without induction.* The library states induction with an operator as
a parameter, which the provers cannot instantiate. Where a proof needs it, it
takes the least number at which the claim fails (Minimum) and shows a smaller
one: so for the climb of `find_without_compressing`, for the changes of a list
(`After`), for the initialisers of a text, for the nesting of constructs
(`Around`), the names of a pattern (`BindPattern`) and the digits of a number (`Digits`). That a recursive function of a text
exists at all (where a comment ends, where the blanks behind a place end) is
shown in the same way, and what is proved of it uses its equation only. This covers recursive functions over
numbers, and not operators declared RECURSIVE.

**Only model-checked.** All of `Unification`, `Parser`, `Desugar`, `Format` (their
operators recurse over data); and every liveness property, `RequestsAreAnswered`
of polite clients and the part of `ImplementsChannel` that says that messages do
arrive among them: temporal reasoning under fairness is beyond the provers
used. Conversely `FoundRootStays`, `OrphansAreInert` and the types of
DisjointSet, Collector and Lexer are proved and have no run of their own.

## 6. Abstractions, and what is not modelled

- Keywords are names and punctuation is operators in `Lexer`: `find_token` tells
  them apart after the token has ended.
- Positions are lines in `LanguageServer`, lines and columns in `TextDocument`;
  hints, actions, completion items and references are not kept. JSON is
  abstract. A message is a frame in `LanguageServer`; that the header keeps
  frames apart is what `Rpc` shows. Negative and unrepresentable lengths are
  left out of `Rpc`: no writer of the repository sends them.
- `Collector` sees a definition's inside as one item that succeeds or fails;
  tokens that a failure leaves behind are items of their own.
- `Resolver` has no modules, template arguments or duplicate names: names are
  definitions. It does not model types beyond which definition an alias means;
  a body whose types do not fit only adds diagnostics. Names inside a function
  are `Scopes`, types inside a function are `Unification`.
- `Unification` has no structure initialisers and fields, no array literals and
  no operator definitions; names in it are those of `let` statements.
- Of what lies outside a function, `Scopes` has only whether the module defines
  the name.
- `Format` is what the formatter prints and what it needs a space for; layout,
  indentation and escapes in strings are not in it, and of the function-body
  styles only the one that leaves bodies as they are.
- Not modelled: the string pool (a map from strings to their index), the
  index vector (its width is 32 bits, and nothing counts towards them here), the mailbox (used only by its test), the tree display (layout
  only), and the driver (reads a file, calls the libraries, prints).

## 7. Plan

Order so far: DisjointSet, Unification, LanguageServer, Collector, Lexer,
Resolver, Parser, Desugar, with proofs of the first, third, fourth and fifth;
then Unification again with mutabilities, references and places, and Scopes,
Rpc, TextDocument, Format; then proofs about the texts of documents, polite
clients, the resolution on demand, the lines of a document, the names of a
function and the frames of a stream. Next:

1. **Paths** in Resolver: modules and globals, template arguments, constructors
   in patterns.
2. The composition Lexer - Parser - Collector: what the collector is given for a
   text, with the blocks that a failure inside a definition leaves open.
3. The delta encoding of semantic tokens (`json.cpp`).
