--------------------------------- MODULE Rpc ---------------------------------
(***************************************************************************)
(* write_message and read_message of language-server/rpc.cpp over a        *)
(* stream that hands on one symbol at a time, with a writing end that can  *)
(* go away between any two of them.                                        *)
(*                                                                         *)
(* A symbol is "h" for a letter of "Content-Length: ", which is HeaderSize *)
(* symbols long, "r" for a character of the separator, or a digit.  Digits *)
(* count in base two.  The content of a message may look like any of them. *)
(***************************************************************************)
EXTENDS Integers, Sequences

CONSTANTS Messages,     \* the contents of the messages, never empty
          HeaderSize,   \* "Content-Length: "sv.size()
          BreakSize,    \* "\r\n\r\n"sv.size()
          MaxWritten    \* bound: messages written

NoNumber == -1
Digit    == {"0", "1"}
Symbols  == Digit \cup {"h", "r"}

ASSUME MessagesAssumption == Messages \subseteq Seq(Symbols) \ {<<>>}
ASSUME SizesAssumption    == HeaderSize \in Nat \ {0} /\ BreakSize \in Nat \ {0}

VARIABLES outbox,       \* the rest of the message that is being written
          written,      \* how many messages were begun
          open,         \* the writing end is there
          pipe,         \* symbols written and not read
          reading,      \* what read_message is reading, or "failed"
          left,         \* symbols still to skip or to read of it
          number,       \* content_length as far as it is read, or NoNumber
          content,      \* the content as far as it is read
          ended,        \* the end of the stream was met: eofbit
          queue,        \* history: messages written and not received
          received      \* history: what read_message returned

written_end == <<outbox, written, open, queue>>
reader      == <<reading, left, number, content, ended>>
streamVars == <<outbox, written, open, pipe, reading, left, number, content, ended, queue, received>>

ValueOf(digit) == IF digit = "1" THEN 1 ELSE 0
Digits(n) ==
    LET digits[i \in 0 .. n] == LET last == IF i % 2 = 1 THEN "1" ELSE "0"
                                 IN  IF i < 2 THEN <<last>> ELSE Append(digits[i \div 2], last)
    IN  digits[n]
Times(symbol, n) == [i \in 1 .. n |-> symbol]

-----------------------------------------------------------------------------
StreamInit ==
    /\ outbox = <<>> /\ written = 0 /\ open = TRUE /\ pipe = <<>>
    /\ reading = "header" /\ left = HeaderSize /\ number = NoNumber /\ content = <<>>
    /\ ended = FALSE
    /\ queue = <<>> /\ received = <<>>

(* Slips the code might contain have names that begin with Bug: each is an *)
(* alternative to the definition behind it, and a property refutes it.     *)
BugFrameCountsBreak(m) ==
    Times("h", HeaderSize) \o Digits(Len(m) + 1) \o Times("r", BreakSize) \o m
(* write_message *)
Frame(m) == Times("h", HeaderSize) \o Digits(Len(m)) \o Times("r", BreakSize) \o m

WriteMessage ==
    /\ open /\ outbox = <<>> /\ written < MaxWritten
    /\ \E m \in Messages : outbox' = Frame(m) /\ queue' = Append(queue, m)
    /\ written' = written + 1
    /\ UNCHANGED <<open, pipe, reader, received>>

(* The stream takes what it can. *)
Flush == /\ open /\ outbox # <<>>
         /\ pipe' = Append(pipe, Head(outbox)) /\ outbox' = Tail(outbox)
         /\ UNCHANGED <<written, open, queue, reader, received>>

HangUp == /\ open /\ open' = FALSE
          /\ outbox' = <<>>
          /\ queue' = IF outbox = <<>> THEN queue ELSE SubSeq(queue, 1, Len(queue) - 1)
          /\ UNCHANGED <<written, pipe, reader, received>>

-----------------------------------------------------------------------------
(* read_message.  The reader waits for a symbol, or for the end.           *)
Shift == /\ ~ended /\ pipe # <<>> /\ pipe' = Tail(pipe)
         /\ UNCHANGED <<written_end, ended>>

(* in.ignore(n): any n symbols.                                            *)
Ignore ==
    /\ reading \in {"header", "break"} /\ Shift
    /\ IF left > 1 THEN left' = left - 1 /\ UNCHANGED reading
       ELSE IF reading = "header" THEN left' = 0 /\ reading' = "length"
       ELSE left' = number /\ reading' = "content"
    /\ UNCHANGED <<number, content, received>>

(* in >> content_length: white space, then the digits.  What ends them is  *)
(* left for the next reader; anything but a digit in their place is an     *)
(* error.                                                                  *)
ReadDigit ==
    /\ reading = "length" /\ Shift
    /\ \/ /\ number = NoNumber /\ Head(pipe) = "r" /\ UNCHANGED number
       \/ /\ Head(pipe) \in Digit
          /\ number' = 2 * (IF number = NoNumber THEN 0 ELSE number) + ValueOf(Head(pipe))
    /\ UNCHANGED <<reading, left, content, received>>
EndOfDigits ==
    /\ reading = "length" /\ ~ended /\ pipe # <<>>
    /\ Head(pipe) \notin Digit /\ ~(number = NoNumber /\ Head(pipe) = "r")
    /\ IF number = NoNumber THEN reading' = "failed" /\ UNCHANGED left
       ELSE reading' = "break" /\ left' = BreakSize
    /\ UNCHANGED <<written_end, pipe, number, content, ended, received>>

(* in.read: the message is returned when its last symbol is there, and the *)
(* next call begins with everything fresh.                                 *)
ReadContent ==
    /\ reading = "content" /\ left > 0 /\ ~ended /\ pipe # <<>> /\ pipe' = Tail(pipe)
    /\ IF left > 1
       THEN /\ left' = left - 1 /\ content' = Append(content, Head(pipe))
            /\ UNCHANGED <<reading, number, queue, received>>
       ELSE /\ reading' = "header" /\ left' = HeaderSize /\ number' = NoNumber /\ content' = <<>>
            /\ received' = Append(received, Append(content, Head(pipe)))
            /\ queue' = Tail(queue)
    /\ UNCHANGED <<outbox, written, open, ended>>

(* The end of the stream is no failure of ignore, nor of >> after a digit: *)
(* the reader goes on, and fails at whatever it does next.                 *)
MeetEnd ==
    /\ ~open /\ pipe = <<>> /\ reading # "failed"
    /\ ended' = TRUE
    /\ reading' = IF ended THEN "failed"
                  ELSE CASE reading = "header" -> "length"
                         [] reading = "length" -> IF number = NoNumber THEN "failed" ELSE "break"
                         [] reading = "break"  -> "content"
                         [] OTHER              -> "failed"
    /\ UNCHANGED <<written_end, pipe, left, number, content, received>>

Read == Ignore \/ ReadDigit \/ EndOfDigits \/ ReadContent \/ MeetEnd
StreamNext == WriteMessage \/ Flush \/ HangUp \/ Read

(* Both ends are processes that run: what is begun is written, unless the  *)
(* writer goes away, and what is there is read.                            *)
StreamSpec == StreamInit /\ [][StreamNext]_streamVars /\ WF_streamVars(Flush) /\ WF_streamVars(Read)
-----------------------------------------------------------------------------
(* Messages arrive whole, in order and once; one that was cut off by the   *)
(* end of the stream is never delivered in part, and every other one is.   *)
Ends == INSTANCE Channel WITH Messages <- Messages, queue <- queue,
                              received <- received, open <- open
ImplementsChannel == Ends!Spec
=============================================================================
