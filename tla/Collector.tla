------------------------------ MODULE Collector ------------------------------
(***************************************************************************)
(* Parsing a document and collecting its definitions into environments:    *)
(* the loop ki::par::parse (libparse/parse.hpp), the extraction functions  *)
(* of parse_definition.cpp, error recovery (parse.cpp) and the Collector   *)
(* that the loop calls (libresolve/collect.cpp).                           *)
(*                                                                         *)
(* The parser counts open blocks in block_depth; the collector keeps the   *)
(* environments of open modules on env_id_stack.  Neither sees the other's *)
(* record, and only their agreement puts a definition where it is written. *)
(*                                                                         *)
(* A text is a sequence of items, each the tokens that one turn of the     *)
(* loop extracts:                                                          *)
(*   definition  a complete function, structure, enumeration, alias or     *)
(*               concept                                                   *)
(*   module      `module name {'                                           *)
(*   impl        `impl Type {'                                             *)
(*   impl_fails  `impl Type {' with malformed template parameters after it *)
(*   broken      a definition keyword whose extraction fails               *)
(*   close       `}' where a definition may begin                          *)
(*   stray       any other token, also one left over by a failure          *)
(***************************************************************************)
EXTENDS Integers, Sequences, FiniteSets

CONSTANTS Names,  \* what definitions are called
          Texts   \* the documents

Definitions == [kind : {"definition", "module"}, name : Names]
Marks       == [kind : {"impl", "impl_fails", "broken", "close", "stray"}]
ASSUME TextsAssumption == Texts \subseteq Seq(Definitions \cup Marks)

VARIABLES text,          \* the document
          cursor,        \* how many items the parser has taken
          status,        \* parsing, skipping, finished or aborted
          block_depth,   \* ki::par::Context
          env_id_stack,  \* Collector: the environments of open modules
          environments,  \* the arena: parent and map of each environment
          symbols,       \* the arena: name, place, environment; a module's own environment
          symbol_order,  \* Collector: what collect_document returns
          diagnostics    \* what was reported, and at which item

vars == <<text, cursor, status, block_depth, env_id_stack, environments, symbols,
          symbol_order, diagnostics>>

Root == 1
None == 0
Init ==
    /\ text \in Texts
    /\ cursor = 0 /\ status = "parsing" /\ block_depth = 0
    /\ env_id_stack = <<Root>>
    /\ environments = <<[parent |-> None, map |-> [n \in {} |-> 0]]>>
    /\ symbols = <<>> /\ symbol_order = <<>> /\ diagnostics = {}
-----------------------------------------------------------------------------
(* peek and extract: the item after the cursor. *)
AtEnd       == cursor = Len(text)
item        == text[cursor + 1]
Peek(kinds) == ~AtEnd /\ item.kind \in kinds
Extract(kind) == status = "parsing" /\ Peek({kind}) /\ cursor' = cursor + 1

Report(what) == diagnostics' = diagnostics \cup {[what |-> what, at |-> cursor + 1]}

(* Collector::env_id, and the assertion it makes. *)
HasEnvironment == env_id_stack # <<>>
env_id         == env_id_stack[Len(env_id_stack)]
Abort == status' = "aborted" /\ UNCHANGED <<text, env_id_stack, environments, symbols,
                                             symbol_order, diagnostics>>

(* Collector::bind: bind_symbol makes a symbol, which is listed whether or *)
(* not its name was free; what the collector binds cannot be shadowed.     *)
With(map, n, symbol) ==
    [m \in DOMAIN map \cup {n} |-> IF m = n THEN symbol ELSE map[m]]
Bind(n, opened, envs) ==
    /\ symbols' = Append(symbols, [name |-> n, at |-> cursor + 1, env |-> env_id,
                                   opened |-> opened])
    /\ symbol_order' = Append(symbol_order, Len(symbols) + 1)
    /\ IF n \in DOMAIN envs[env_id].map
       THEN Report("redefinition") /\ environments' = envs
       ELSE /\ environments' = [envs EXCEPT ![env_id].map = With(@, n, Len(symbols) + 1)]
            /\ UNCHANGED diagnostics

(* extract_function and its siblings, and the collector's operators. *)
CollectDefinition ==
    /\ Extract("definition")
    /\ UNCHANGED block_depth
    /\ IF HasEnvironment
       THEN Bind(item.name, None, environments) /\ UNCHANGED <<text, status, env_id_stack>>
       ELSE Abort

(* extract_submodule. *)
BugModulePushedFirst ==
    /\ Extract("module")
    /\ block_depth' = block_depth + 1
    /\ IF HasEnvironment
       THEN LET child == Len(environments) + 1 IN
            /\ symbols' = Append(symbols, [name |-> item.name, at |-> cursor + 1,
                                           env |-> child, opened |-> child])
            /\ symbol_order' = Append(symbol_order, Len(symbols) + 1)
            /\ environments' =
                  Append(environments, [parent |-> env_id,
                                        map |-> [n \in {item.name} |-> Len(symbols) + 1]])
            /\ env_id_stack' = Append(env_id_stack, child)
            /\ UNCHANGED <<text, status, diagnostics>>
       ELSE Abort
CollectModule ==
    /\ Extract("module")
    /\ block_depth' = block_depth + 1
    /\ IF HasEnvironment
       THEN LET child == Len(environments) + 1 IN
            /\ Bind(item.name, child,
                    Append(environments, [parent |-> env_id, map |-> [n \in {} |-> 0]]))
            /\ env_id_stack' = Append(env_id_stack, child)
            /\ UNCHANGED <<text, status>>
       ELSE Abort

(* extract_implementation: the collector reports the block and opens no    *)
(* environment for it.                                                     *)
CollectImplementation ==
    /\ Extract("impl")
    /\ block_depth' = block_depth + 1
    /\ Report("unsupported")
    /\ UNCHANGED <<text, status, env_id_stack, environments, symbols, symbol_order>>

(* extract_block_end, when a block is open. *)
BugBlockEndKeepsModule ==
    /\ Extract("close") /\ block_depth > 0
    /\ block_depth' = block_depth - 1
    /\ UNCHANGED <<text, status, env_id_stack, environments, symbols, symbol_order,
                   diagnostics>>
CollectBlockEnd ==
    /\ Extract("close") /\ block_depth > 0
    /\ block_depth' = block_depth - 1
    /\ IF HasEnvironment
       THEN /\ env_id_stack' = SubSeq(env_id_stack, 1, Len(env_id_stack) - 1)
            /\ UNCHANGED <<text, status, environments, symbols, symbol_order, diagnostics>>
       ELSE Abort
-----------------------------------------------------------------------------
(* Failure is thrown and caught by the loop, which skips. *)
Fail(what) ==
    /\ Report(what)
    /\ status' = "skipping"
    /\ UNCHANGED <<text, env_id_stack, environments, symbols, symbol_order>>

FailDefinition == Extract("broken") /\ Fail("expected") /\ UNCHANGED block_depth

(* extract_implementation, when parse_template_parameters throws: the      *)
(* block has been counted.                                                 *)
FailImplementation == Extract("impl_fails") /\ Fail("expected")
                      /\ block_depth' = block_depth + 1

(* extract_block_end, when no block is open. *)
FailBlockEnd == Extract("close") /\ block_depth = 0 /\ Fail("unexpected brace")
                /\ UNCHANGED block_depth

(* handle_bad_token *)
FailToken == Extract("stray") /\ Fail("expected a definition") /\ UNCHANGED block_depth

(* skip_to_next_recovery_point: a closing brace is no recovery point. *)
IsRecoveryPoint ==
    Peek({"definition", "module", "impl", "impl_fails", "broken"}) \/ AtEnd
BugSkipKeepsToken ==
    /\ status = "skipping" /\ ~IsRecoveryPoint
    /\ UNCHANGED vars
Skip ==
    /\ status = "skipping" /\ ~IsRecoveryPoint
    /\ cursor' = cursor + 1
    /\ UNCHANGED <<text, status, block_depth, env_id_stack, environments, symbols,
                   symbol_order, diagnostics>>
Recover ==
    /\ status = "skipping" /\ IsRecoveryPoint
    /\ status' = "parsing"
    /\ UNCHANGED <<text, cursor, block_depth, env_id_stack, environments, symbols,
                   symbol_order, diagnostics>>

(* handle_end_of_input *)
Finish ==
    /\ status = "parsing" /\ AtEnd
    /\ status' = "finished"
    /\ IF block_depth # 0 THEN Report("expected braces") ELSE UNCHANGED diagnostics
    /\ UNCHANGED <<text, cursor, block_depth, env_id_stack, environments, symbols,
                   symbol_order>>

Next ==
    \/ CollectDefinition \/ CollectModule \/ CollectImplementation \/ CollectBlockEnd
    \/ FailDefinition \/ FailImplementation \/ FailBlockEnd \/ FailToken
    \/ Skip \/ Recover \/ Finish

(* The loop is one thread that waits for nothing. *)
Spec == Init /\ [][Next]_vars /\ WF_vars(Next)
-----------------------------------------------------------------------------
Environments == DOMAIN environments
Symbols      == DOMAIN symbols

(* Indices into the arenas are valid, and the stack holds environments,    *)
(* each the parent of the next.                                            *)
TypeOK ==
    /\ text \in Seq(Definitions \cup Marks)
    /\ cursor \in 0 .. Len(text)
    /\ status \in {"parsing", "skipping", "finished", "aborted"}
    /\ block_depth \in Nat
    /\ env_id_stack \in Seq(Environments)
    /\ \A e \in Environments :
          /\ environments[e].parent \in 0 .. e - 1
          /\ DOMAIN environments[e].map \subseteq Names
          /\ \A n \in DOMAIN environments[e].map : environments[e].map[n] \in Symbols
    /\ symbols \in Seq([name : Names, at : Nat, env : Nat, opened : Nat])
    /\ \A s \in Symbols : symbols[s].env \in Environments

(* For every document without impl blocks, however broken, the parser's    *)
(* count of open blocks and the collector's stack of environments agree    *)
(* after every item, errors and recovery included, and the assertions of   *)
(* Collector hold: a closing brace that is counted has an environment to   *)
(* close.                                                                  *)
HasImplementation ==
    \E i \in DOMAIN text : text[i].kind \in {"impl", "impl_fails"}
StackFollowsBlocks ==
    ~HasImplementation =>
        /\ status # "aborted"
        /\ Len(env_id_stack) = block_depth + 1
        /\ env_id_stack[1] = Root
        /\ \A k \in 1 .. block_depth :
              environments[env_id_stack[k + 1]].parent = env_id_stack[k]

(* No definition is lost, whatever stands before it: every complete        *)
(* definition, and nothing else, has been listed once, in textual order.   *)
(* A name means the first definition of that name in its module: a later   *)
(* one is listed, reported, and displaces nothing.                         *)
Definition(i) == text[i].kind \in {"definition", "module"}
EveryDefinitionIsCollected ==
    /\ status = "finished" =>
        /\ {symbols[s].at : s \in Symbols} = {i \in DOMAIN text : Definition(i)}
        /\ symbol_order = [s \in Symbols |-> s]
        /\ \A r, s \in Symbols : r < s => symbols[r].at < symbols[s].at
    /\ \A e \in Environments, s \in Symbols : symbols[s].env = e =>
        /\ symbols[s].name \in DOMAIN environments[e].map
        /\ LET first == environments[e].map[symbols[s].name] IN
           /\ symbols[first].env = e /\ symbols[first].name = symbols[s].name
           /\ first <= s
           /\ first < s <=> [what |-> "redefinition", at |-> symbols[s].at] \in diagnostics

(* What braces mean, from the text alone: the blocks around an item. *)
Count(kinds, from, to) == Cardinality({i \in from .. to : text[i].kind \in kinds})
Opening == {"module", "impl", "impl_fails"}
Around(i) ==
    {j \in 1 .. i - 1 : /\ text[j].kind = "module"
                        /\ \A k \in j + 1 .. i - 1 :
                              Count({"close"}, j + 1, k) <= Count(Opening, j + 1, k)}

(* Parser and collector together put every definition of a document        *)
(* without syntax errors into the environment of the module that the       *)
(* braces put it in.                                                       *)
SyntaxErrors == {d \in diagnostics : d.what # "redefinition"}
WhereWritten(s) ==
    LET modules == Around(symbols[s].at) IN
    IF modules = {} THEN symbols[s].env = Root
    ELSE \E m \in Symbols : /\ symbols[m].at = CHOOSE i \in modules : \A j \in modules : j <= i
                            /\ symbols[s].env = symbols[m].opened
PlacedAsWritten ==
    status = "finished" /\ SyntaxErrors = {} => \A s \in Symbols : WhereWritten(s)

(* Definitions are all there, each in its module, under its name, in order. *)
DefinitionsAreKept == EveryDefinitionIsCollected /\ PlacedAsWritten

(* Every turn of the loop takes an item or ends: no document keeps the     *)
(* parser in its recovery.                                                 *)
CollectingEnds == <>(status \in {"finished", "aborted"})

(* collect.cpp asserts, in env_id and at every block end, that the stack   *)
(* of environments is not empty.                                           *)
NeverAborts == status # "aborted"
=============================================================================
