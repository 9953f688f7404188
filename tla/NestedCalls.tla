---------------------------- MODULE NestedCalls ----------------------------
(***************************************************************************)
(* What the bridge promises to Java code about calls that go back and      *)
(* forth between Java and Lua (README.md:12, "Lua error automatically      *)
(* causes Java exception and vice versa"): seen from Java they nest like   *)
(* calls of Java methods.  An activation ends by returning or because an   *)
(* exception leaves it, activations end one at a time, innermost first,    *)
(* and an exception stays the same object until somebody catches it.       *)
(***************************************************************************)
EXTENDS Naturals

CONSTANTS Throwables,   \* the exceptions Java code can see
          NoThrowable   \* none is on its way

VARIABLES active,       \* how many Java activations are on the stack
          thrown        \* the exception on its way to a handler
vars == <<active, thrown>>

Init == active = 1 /\ thrown = NoThrowable

Enter == /\ thrown = NoThrowable
         /\ active' = active + 1
         /\ UNCHANGED thrown

Return == /\ thrown = NoThrowable
          /\ active > 1
          /\ active' = active - 1
          /\ UNCHANGED thrown

Throw == /\ thrown = NoThrowable
         /\ thrown' \in Throwables
         /\ UNCHANGED active

Catch == /\ thrown # NoThrowable
         /\ thrown' = NoThrowable
         /\ UNCHANGED active

Leave == /\ thrown # NoThrowable
         /\ active > 1
         /\ active' = active - 1
         /\ UNCHANGED thrown

Next == Enter \/ Return \/ Throw \/ Catch \/ Leave

Spec == Init /\ [][Next]_vars
=============================================================================
