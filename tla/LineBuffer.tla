------------------------------ MODULE LineBuffer -----------------------------
(***************************************************************************)
(* What an editor means by a content change: a document is a sequence of   *)
(* lines, and a change replaces what lies between two positions, each a    *)
(* line and a column of it.  TextDocument.tla implements this on one       *)
(* string with line feeds in it.                                           *)
(***************************************************************************)
EXTENDS Integers, Sequences

VARIABLES lines,        \* the document
          alive,        \* the process has not been aborted
          change        \* the last change the editor asked for: two positions
                      \* and the lines that replace what is between them

vars == <<lines, alive, change>>

Whole == [line |-> 0, column |-> -2]     \* of a change that names no range
InLines(p) == p.line < Len(lines) /\ p.column <= Len(lines[p.line + 1])
NotAfter(p, q) == p.line < q.line \/ (p.line = q.line /\ p.column <= q.column)

Init == lines = <<<<>>>> /\ alive = TRUE /\ change = [start |-> Whole, stop |-> Whole, text |-> lines]

Before(p) == SubSeq(lines[p.line + 1], 1, p.column)
After(p)  == SubSeq(lines[p.line + 1], p.column + 1, Len(lines[p.line + 1]))

(* The first line that is inserted follows what is before the range, and   *)
(* what is after the range follows the last one.                           *)
Spliced(before, text, after) ==
    IF Len(text) = 1 THEN <<before \o text[1] \o after>>
    ELSE <<before \o text[1]>> \o SubSeq(text, 2, Len(text) - 1) \o <<text[Len(text)] \o after>>

ReplaceAll == change'.start = Whole /\ lines' = change'.text /\ UNCHANGED alive

InOrder(start, stop) == InLines(start) /\ InLines(stop) /\ NotAfter(start, stop)

Replace == LET start == change'.start
               stop  == change'.stop
           IN  /\ start # Whole /\ InOrder(start, stop)
               /\ lines' = SubSeq(lines, 1, start.line)
                           \o Spliced(Before(start), change'.text, After(stop))
                           \o SubSeq(lines, stop.line + 2, Len(lines))
               /\ UNCHANGED alive

(* Positions that are not there, or the wrong way round. *)
Refuse == /\ change'.start # Whole /\ ~InOrder(change'.start, change'.stop)
          /\ alive' = FALSE /\ UNCHANGED lines

Next == alive /\ (ReplaceAll \/ Replace \/ Refuse)

Spec == Init /\ [][Next]_vars
=============================================================================
