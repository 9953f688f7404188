---------------------------- MODULE LuaLanguage ----------------------------
(* Programs compiled, a statement at a time, and run to their end, an        *)
(* instruction at a time: by the compiler (LuaParser, LuaCode) and the       *)
(* machine (LuaVM), compared with what the program means (LuaSemantics).     *)
(* These are parameters: the composition says when each of them acts.        *)
EXTENDS LuaSemantics, LuaParser

CONSTANTS Programs,         \* the programs to run
          Compiler(_, _),   \* the parse state after one more statement
          Loader(_),        \* the machine with the compiled chunk loaded
          Machine(_),       \* the state after one more instruction
          Reference(_)      \* what a program answers

VARIABLES program,  \* the program
          P,        \* the functions being compiled, innermost last
          at,       \* the statement to compile next
          m         \* the machine, <<>> until the program is compiled

vars == <<program, P, at, m>>

Main == <<[OpenFunc EXCEPT !.vararg = {"IsVararg"}]>>

Init == program \in Programs /\ P = Main /\ at = 1 /\ m = <<>>

Compile == /\ m = <<>> /\ at <= Len(program)
           /\ P' = Compiler(P, program[at]) /\ at' = at + 1
           /\ UNCHANGED <<program, m>>

Load == /\ m = <<>> /\ at = Len(program) + 1
        /\ m' = Loader(P)
        /\ UNCHANGED <<program, P, at>>

Execute == /\ m # <<>> /\ ~Done(m)
           /\ m' = Machine(m)
           /\ UNCHANGED <<program, P, at>>

Next == Compile \/ Load \/ Execute
Spec == Init /\ [][Next]_vars

----------------------------------------------------------------------------
\* A compiled program does what the program says: the same values, or the
\* same error.
RunsAsWritten == m # <<>> => (Done(m) => Results(m) = Reference(program))

\* Every function compiled passes luaG_checkcode (lparser.c asserts it), and
\* no assertion of lparser.c and lcode.c fails on the way.
RECURSIVE Sound(_)
Sound(p) == p.ok /\ p.error = "" /\ luaG_checkcode(p) /\ \A i \in DOMAIN p.p : Sound(p.p[i])
CodeChecked == m # <<>> => Sound(m.main)

\* Between two instructions the top is the frame's, unless the next one takes
\* what is open above (lvm.c asserts it), and the open upvalues, in order,
\* are slots of live frames.
FramesKept ==
  m # <<>> /\ ~Done(m) =>
    LET ci == Frame(m)
        Slot_(i) == m.upvals[m.openupval[i]].slot
    IN /\ ci.base <= m.top /\ m.top <= StackSize
       /\ m.top = ci.top \/ luaG_checkopenop(NextIns(m))
       /\ \A i \in DOMAIN m.openupval :
            /\ \E frame \in ToSet(m.ci) : Slot_(i) \in frame.base..frame.top - 1
            /\ i > 1 => Slot_(i) < Slot_(i - 1)
=============================================================================
