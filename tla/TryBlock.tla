------------------------------ MODULE TryBlock ------------------------------
(***************************************************************************)
(* jlua.try and jlua.throw (tryBlock and throwObj of jlua.c): a C function *)
(* that finds its three arguments, the error under way and the functions   *)
(* it calls all on one Lua stack, and tells them apart by their position.  *)
(* A position past the arguments holds whatever the last call left there.  *)
(***************************************************************************)
EXTENDS Integers, Sequences

CONSTANTS
    Functions,      \* the Lua functions
    Plain,          \* other values that can be raised: strings, Java objects
    Nil,            \* the Lua value nil
    None,           \* no value: a position past the top of the stack
    Message,        \* the error about wrong arguments
    FunctionErrors, \* may a function be raised as an error?
    Debugs          \* what the global debug may be, see TraceStack

ASSUME ValuesAssumption ==
    /\ Functions \cap Plain = {} /\ Nil \notin Functions \cup Plain
    /\ None \notin Functions \cup Plain \cup {Nil}
    /\ Message \in Plain
ASSUME ModeAssumption ==
    /\ FunctionErrors \in BOOLEAN
    /\ Debugs \subseteq {"no table", "no traceback", "no string", "complete"}

VARIABLES
    args,       \* the arguments of jlua.try
    debug,      \* the state of the debug library
    stack,      \* the stack of the C function
    pc,         \* the next part of tryBlock
    err,        \* err # 0
    calls,      \* history: the calls made, <<function, argument or None>>
    thrown      \* history: the argument of the last jlua.throw that raised

tryVars == <<args, debug, stack, pc, err, calls, thrown>>

Values == Functions \cup Plain \cup {Nil}
\* What Lua code raises by itself.
Raisable == IF FunctionErrors THEN Functions \cup Plain ELSE Plain

-----------------------------------------------------------------------------
(* The stack of a C function. *)

\* The element at positive index i; None (LUA_TNONE) past the top.
At(s, i) == IF i <= Len(s) THEN s[i] ELSE None
TopOf(s) == s[Len(s)]
Drop(s, n) == SubSeq(s, 1, Len(s) - n)
IsFunction(s, i) == At(s, i) \in Functions

\* The stack after setExceptionStackTrace: it leaves the table debug below
\* the trace and pops once at its end, whatever it had pushed.
TraceStack(s, d) ==
    IF d \in {"no table", "no traceback"} THEN Drop(s, 1)
    ELSE IF d = "no string" THEN s
    ELSE Append(s, Nil)

\* What throwObj raises, called with v: a copy of index 1, nil past the top.
ThrowObj(v, d) ==
    LET s == TraceStack(<<v>>, d) IN IF Len(s) = 0 THEN Nil ELSE s[1]

\* The arguments tryBlock takes.
Accepts(a) ==
    \/ Len(a) = 1 /\ IsFunction(a, 1)
    \/ Len(a) = 2 /\ IsFunction(a, 1) /\ IsFunction(a, 2)
    \/ Len(a) = 3 /\ IsFunction(a, 1) /\ IsFunction(a, 3) /\ (a[2] = Nil \/ IsFunction(a, 2))

-----------------------------------------------------------------------------
TryTypeOK ==
    /\ args \in Seq(Values)
    /\ debug \in Debugs
    /\ stack \in Seq(Values)
    /\ pc \in {"check", "try", "catch", "finally", "end", "returned", "raised", "refused"}
    /\ err \in BOOLEAN
    /\ calls \in Seq(Functions \X (Values \cup {None}))
    /\ thrown \in Values \cup {None}

TryInit ==
    /\ args \in UNION {[1 .. n -> Values] : n \in 0 .. 4}
    /\ debug \in Debugs
    /\ stack = args
    /\ pc = "check"
    /\ err = FALSE
    /\ calls = <<>>
    /\ thrown = None

-----------------------------------------------------------------------------
\* lua_error: the top of the stack is on its way to the caller.
Refuse ==
    /\ pc = "check" /\ ~Accepts(args)
    /\ stack' = Append(stack, Message)
    /\ pc' = "refused"
    /\ UNCHANGED <<args, debug, err, calls, thrown>>

Accept ==
    /\ pc = "check" /\ Accepts(args)
    /\ pc' = "try"
    /\ UNCHANGED <<args, debug, stack, err, calls, thrown>>

\* The called function returns; rest is the stack without function and arguments.
Returns(rest) == stack' = rest /\ UNCHANGED thrown

\* It fails by itself, or by jlua.throw(v), and leaves the error on top of rest.
Fails(rest) ==
    \/ \E e \in Raisable : stack' = Append(rest, e) /\ UNCHANGED thrown
    \/ \E v \in Plain : stack' = Append(rest, ThrowObj(v, debug)) /\ thrown' = v

RunTry ==
    /\ pc = "try" /\ pc' = "catch"
    /\ calls' = Append(calls, <<stack[1], None>>)
    /\ \/ Returns(stack) /\ err' = FALSE
       \/ Fails(stack) /\ err' = TRUE
    /\ UNCHANGED <<args, debug>>

\* Mutant: without lua_insert the error is called, with the handler as argument.
RunCatchUninserted ==
    /\ pc = "catch" /\ err /\ IsFunction(stack, 2) /\ pc' = "finally"
    /\ stack' = Append(Drop(stack, 1), Message)
    /\ UNCHANGED <<args, debug, err, calls, thrown>>

\* The error, on the top, becomes the argument of what is at index 2.
RunCatch ==
    /\ pc = "catch" /\ err /\ IsFunction(stack, 2) /\ pc' = "finally"
    /\ calls' = Append(calls, <<stack[2], TopOf(stack)>>)
    /\ \/ Returns(Drop(stack, 1)) /\ err' = FALSE
       \/ Fails(Drop(stack, 1)) /\ err' = TRUE
    /\ UNCHANGED <<args, debug>>

SkipCatch ==
    /\ pc = "catch" /\ ~(err /\ IsFunction(stack, 2)) /\ pc' = "finally"
    /\ UNCHANGED <<args, debug, stack, err, calls, thrown>>

\* Mutant: an ignored error of the finally function stays on the stack.
RunFinallyUnpopped ==
    /\ pc = "finally" /\ IsFunction(stack, 3) /\ pc' = "end"
    /\ calls' = Append(calls, <<stack[3], None>>)
    /\ \/ Returns(stack) /\ UNCHANGED err
       \/ Fails(stack) /\ err' = TRUE
    /\ UNCHANGED <<args, debug>>

\* If there is an error already, an error of the finally function is popped,
\* and the step looks like a return.
RunFinally ==
    /\ pc = "finally" /\ IsFunction(stack, 3) /\ pc' = "end"
    /\ calls' = Append(calls, <<stack[3], None>>)
    /\ \/ Returns(stack) /\ UNCHANGED err
       \/ ~err /\ Fails(stack) /\ err' = TRUE
    /\ UNCHANGED <<args, debug>>

SkipFinally ==
    /\ pc = "finally" /\ ~IsFunction(stack, 3) /\ pc' = "end"
    /\ UNCHANGED <<args, debug, stack, err, calls, thrown>>

Finish ==
    /\ pc = "end" /\ pc' = IF err THEN "raised" ELSE "returned"
    /\ UNCHANGED <<args, debug, stack, err, calls, thrown>>

TryNext == Refuse \/ Accept \/ RunTry \/ RunCatch \/ SkipCatch \/ RunFinally \/ SkipFinally \/ Finish

TrySpec == TryInit /\ [][TryNext]_tryVars

-----------------------------------------------------------------------------
(***************************************************************************)
(* Between the parts the stack holds the arguments, and above them the     *)
(* error under way and nothing else: neither the error a handler received  *)
(* nor one that was ignored stays behind.                                  *)
(***************************************************************************)
Balanced ==
    pc \notin {"check", "refused"} =>
        IF err THEN Len(stack) = Len(args) + 1 /\ Drop(stack, 1) = args
        ELSE stack = args

(***************************************************************************)
(* tryBlock implements the statement that its arguments denote.            *)
(***************************************************************************)
Part(i) == IF IsFunction(args, i) THEN args[i] ELSE None

Phase ==
    IF pc = "check" THEN "start"
    ELSE IF pc = "try" THEN "body"
    ELSE IF pc = "catch" THEN "handler"
    ELSE IF pc = "finally" THEN "closing"
    ELSE IF pc = "refused" THEN "refused"
    ELSE "done"

Pending == IF err THEN TopOf(stack) ELSE None

Statement == INSTANCE TryStatement WITH
    Errors <- Values,
    body <- Part(1),
    handler <- Part(2),
    closing <- Part(3),
    phase <- Phase,
    pending <- Pending

ImplementsStatement == Statement!TrySpec

(***************************************************************************)
(* README.md: jlua.try takes a try_block, a catch_block and a              *)
(* finally_block.  Only these are ever called, each in its role.           *)
(***************************************************************************)
OnlyItsParts ==
    \A i \in 1 .. Len(calls) : \E k \in 1 .. 3 :
        /\ Part(k) = calls[i][1]
        /\ k = 1 <=> i = 1

(***************************************************************************)
(* README.md: jlua.throw "Throws Java exception or string."  The value     *)
(* raised is the one it was given.                                         *)
(***************************************************************************)
ThrowsItsArgument ==
    [][thrown' # thrown => TopOf(stack') = thrown']_tryVars

=============================================================================
