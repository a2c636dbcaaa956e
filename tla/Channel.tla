------------------------------- MODULE Channel -------------------------------
(***************************************************************************)
(* What the framing of the language server promises the two ends of a      *)
(* stream: the messages that were written arrive, whole, in order and      *)
(* once, however the bytes are cut up on the way.  When the writing end    *)
(* goes away, a message it had not finished is lost and no other one is.   *)
(* Rpc.tla implements this with a header, a length and a separator.        *)
(***************************************************************************)
EXTENDS Integers, Sequences

CONSTANT Messages       \* what the two ends say to each other

VARIABLES queue,        \* written and not received yet
          received,     \* what the reading end was given, in order
          open          \* the writing end is there

vars == <<queue, received, open>>

Init == queue = <<>> /\ received = <<>> /\ open = TRUE

Write(m) == /\ open
            /\ queue' = Append(queue, m)
            /\ UNCHANGED <<received, open>>

(* The last message may have been under way. *)
HangUp == /\ open /\ open' = FALSE
          /\ \/ queue' = queue
             \/ queue # <<>> /\ queue' = SubSeq(queue, 1, Len(queue) - 1)
          /\ UNCHANGED received

Receive == /\ queue # <<>>
           /\ received' = Append(received, Head(queue))
           /\ queue' = Tail(queue)
           /\ UNCHANGED open

Next == (\E m \in Messages : Write(m)) \/ HangUp \/ Receive

(* Nothing else arrives, and what has been written, or is complete when    *)
(* the writer leaves, does.                                                *)
Safety == Init /\ [][Next]_vars
Spec   == Safety /\ WF_vars(Receive)
=============================================================================
