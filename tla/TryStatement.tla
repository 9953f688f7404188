---------------------------- MODULE TryStatement ----------------------------
(***************************************************************************)
(* What a try ... catch ... finally statement promises, whatever the stack *)
(* of the language that implements it looks like: the body runs once; the  *)
(* handler runs once if the body failed, with its error; the closing part  *)
(* runs once in any case, and its own failure counts only if there is no   *)
(* other.                                                                  *)
(***************************************************************************)
EXTENDS Sequences

CONSTANTS
    Functions,  \* what can be called
    Errors,     \* what can be raised
    None        \* no function, no error, no argument

VARIABLES
    body, handler, closing, \* the parts of the statement; None where absent
    phase,                  \* the part to run next
    pending,                \* the error on its way out
    calls                   \* the calls made: <<function, argument>>

vars == <<body, handler, closing, phase, pending, calls>>
parts == <<body, handler, closing>>

Init ==
    /\ body \in Functions \cup {None}
    /\ handler \in Functions \cup {None}
    /\ closing \in Functions \cup {None}
    /\ phase = "start"
    /\ pending = None
    /\ calls = <<>>

Refuse == phase = "start" /\ phase' = "refused" /\ UNCHANGED <<parts, pending, calls>>

Accept == /\ phase = "start" /\ body # None
          /\ phase' = "body" /\ UNCHANGED <<parts, pending, calls>>

Body == /\ phase = "body" /\ phase' = "handler"
        /\ calls' = Append(calls, <<body, None>>)
        /\ pending' \in Errors \cup {None}
        /\ UNCHANGED parts

Handler ==
    /\ phase = "handler" /\ phase' = "closing"
    /\ IF pending # None /\ handler # None
       THEN /\ calls' = Append(calls, <<handler, pending>>)
            /\ pending' \in Errors \cup {None}
       ELSE UNCHANGED <<calls, pending>>
    /\ UNCHANGED parts

Closing ==
    /\ phase = "closing" /\ phase' = "done"
    /\ IF closing # None
       THEN /\ calls' = Append(calls, <<closing, None>>)
            /\ IF pending = None THEN pending' \in Errors \cup {None} ELSE UNCHANGED pending
       ELSE UNCHANGED <<calls, pending>>
    /\ UNCHANGED parts

Next == Refuse \/ Accept \/ Body \/ Handler \/ Closing

TrySpec == Init /\ [][Next]_vars
=============================================================================
