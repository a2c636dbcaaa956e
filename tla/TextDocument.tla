----------------------------- MODULE TextDocument ----------------------------
(***************************************************************************)
(* A document the client edits: text_range and edit_text of                *)
(* libcompiler/compiler.cpp and apply_content_change of                    *)
(* language-server/server.cpp.  The text is one string; a symbol of it is  *)
(* a character or LF.  One action is one content change.                   *)
(***************************************************************************)
EXTENDS Integers, Sequences, FiniteSets

CONSTANTS Characters,   \* the characters that are not line feeds
          LF,           \* the line feed
          MaxText,      \* bound: no change makes the text longer than this
          MaxInsert     \* bound: no change inserts more than this

ASSUME MaxInsertAssumption == MaxInsert \in Nat

VARIABLES text,           \* Document::text
          edit_position,  \* Document::edit_position, or NoPosition
          aborted,        \* an assertion of text_range has failed
          change          \* the last content change

documentVars == <<text, edit_position, aborted, change>>

At(line, column) == [line |-> line, column |-> column]
NoPosition == At(0, -1)

Strings(n) == UNION {[1 .. k -> Characters \cup {LF}] : k \in 0 .. n}
Small == 5               \* a change as small as this is taken for typing

(* advance, and the position of the offset that is reached from another    *)
(* one: what the loop of text_range counts.                                *)
BugAdvanceKeepsColumn(p, c) ==
    IF c = LF THEN At(p.line + 1, p.column) ELSE At(p.line, p.column + 1)
Advance(p, c) == IF c = LF THEN At(p.line + 1, 0) ELSE At(p.line, p.column + 1)
Walk(string, start, from) ==
    LET pos[i \in from .. Len(string)] ==
            IF i = from THEN start ELSE Advance(pos[i - 1], string[i])
    IN  pos

(* The offset at which a line begins, counting its line feeds.             *)
LineFeeds(string) == {i \in DOMAIN string : string[i] = LF}
LineStarts(string) == {0} \cup LineFeeds(string)
LineOf(string, offset) == Cardinality({i \in LineFeeds(string) : i <= offset})
HasLine(string, line)   == \E i \in LineStarts(string) : LineOf(string, i) = line
LineStart(string, line) == CHOOSE i \in LineStarts(string) : LineOf(string, i) = line

NotAfter(p, q) == p.line < q.line \/ (p.line = q.line /\ p.column <= q.column)

(* text_range: the two offsets, or Nowhere when an assertion fails.        *)
Nowhere == <<-1, -1>>
TextRange(string, start, stop) ==
    IF ~NotAfter(start, stop) \/ ~HasLine(string, start.line) THEN Nowhere
    ELSE LET begin == LineStart(string, start.line) + start.column
             pos   == Walk(string, start, begin)
             ends  == {i \in begin .. Len(string) : pos[i] = stop}
         IN  IF begin > Len(string) \/ ends = {} THEN Nowhere
             ELSE <<begin, CHOOSE i \in ends : \A j \in ends : i <= j>>

-----------------------------------------------------------------------------
Whole == At(0, -2)      \* of a change that names no range
Change(start, stop, new) == [start |-> start, stop |-> stop, text |-> new]

DocumentInit == /\ text = <<>> /\ edit_position = NoPosition /\ aborted = FALSE
        /\ change = Change(Whole, Whole, <<>>)

(* A change without a range. *)
ChangeAll(new) ==
    /\ change' = Change(Whole, Whole, new)
    /\ text' = new
    /\ edit_position' = NoPosition
    /\ UNCHANGED aborted

BugEditPositionAtStop(start, stop, new) ==
    IF start.line = stop.line /\ Len(new) < Small /\ LineFeeds(new) = {}
    THEN At(stop.line, stop.column + Len(new)) ELSE NoPosition
(* Where the user is taken to be typing. *)
EditPosition(start, stop, new) ==
    IF start.line = stop.line /\ Len(new) < Small /\ LineFeeds(new) = {}
    THEN At(start.line, start.column + Len(new)) ELSE NoPosition

ChangeRange(start, stop, new) ==
    LET range == TextRange(text, start, stop)
    IN  /\ change' = Change(start, stop, new)
        /\ IF range = Nowhere THEN aborted' = TRUE /\ UNCHANGED <<text, edit_position>>
           ELSE /\ text' = SubSeq(text, 1, range[1]) \o new \o SubSeq(text, range[2] + 1, Len(text))
                /\ Len(text') <= MaxText
                /\ edit_position' = EditPosition(start, stop, new)
                /\ UNCHANGED aborted

(* The positions a client sends: those of its text, which is the server's, *)
(* and the line after the last.                                            *)
Lines == LineOf(text, Len(text)) + 1
Sent  == {At(LineOf(text, i), i - LineStart(text, LineOf(text, i))) : i \in 0 .. Len(text)}
         \cup {At(Lines, 0)}

DocumentNext == /\ ~aborted
        /\ \/ \E new \in Strings(MaxInsert) : ChangeAll(new)
           \/ \E start, stop \in Sent, new \in Strings(MaxInsert) : ChangeRange(start, stop, new)

DocumentSpec == DocumentInit /\ [][DocumentNext]_documentVars
-----------------------------------------------------------------------------
(* The string is the lines it spells, and every change does to it what the *)
(* editor did to its lines; positions that are not there abort.            *)
LinesOf(string) ==
    [n \in 1 .. (LineOf(string, Len(string)) + 1) |->
        LET begin == LineStart(string, n - 1)
            end   == IF HasLine(string, n) THEN LineStart(string, n) - 1 ELSE Len(string)
        IN  SubSeq(string, begin + 1, end)]
Editor == INSTANCE LineBuffer WITH lines <- LinesOf(text), alive <- ~aborted,
                                     change <- [change EXCEPT !.text = LinesOf(@)]
TextIsLines == Editor!Spec

(* The edit position is a position of the text, and what the user typed    *)
(* ends there.                                                             *)
EditPositionFollowsText ==
    edit_position # NoPosition /\ ~aborted =>
        LET range == TextRange(text, edit_position, edit_position)
        IN  /\ range # Nowhere
            /\ SubSeq(text, range[1] - Len(change.text) + 1, range[1]) = change.text
=============================================================================
