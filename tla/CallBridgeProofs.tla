-------------------------- MODULE CallBridgeProofs --------------------------
(***************************************************************************)
(* For any exceptions, any number of coroutines and any depth of nesting:  *)
(* as long as Java enters Lua by pcall, every error becomes an exception;  *)
(* and seen from Java the bridge is a stack of method calls, however the   *)
(* process may end.                                                        *)
(*                                                                         *)
(* The argument: the error in flight was raised by the innermost           *)
(* activation, and a Lua activation that was not entered through an API    *)
(* function is itself a landing place of its Lua thread.  So an error that *)
(* lands without skipping Java lands in the innermost activation, and      *)
(* every step adds or removes one activation at most.                      *)
(*                                                                         *)
(* And tryBlock keeps its stack in order, and implements the try           *)
(* statement, as long as no function is raised as an error, for any        *)
(* functions and any error values.                                         *)
(***************************************************************************)
EXTENDS CallBridge, TryBlock, FiniteSetTheorems, SequenceTheorems, TLAPS

\* Who can call whom.
Shape ==
    /\ Depth >= 1
    /\ frames[1].via = "start"
    /\ \A i \in 2 .. Depth :
          /\ frames[i].via \in {"pcall", "api"} => InJava(i - 1)
          /\ frames[i].via \in {"catch", "resume", "c"} => ~InJava(i - 1)
          /\ frames[i].via = "catch" => frames[i].thr = frames[i - 1].thr
          /\ frames[i].via # "start"

\* The innermost activation has raised what is in flight.
Raised ==
    /\ flying.lang = "java" => InJava(Depth)
    /\ flying.lang = "lua" => ~InJava(Depth) /\ flying.thr = Top.thr

Protected ==
    "unprotected" \notin uses =>
        fate = "ok" /\ \A i \in DOMAIN frames : frames[i].via # "api"

IInv == TypeOK /\ Shape /\ Raised /\ Protected

-----------------------------------------------------------------------------
(* Entering keeps the activations below. *)
LEMMA Entered ==
    ASSUME TypeOK, NEW how \in JavaVia \union LuaVia, NEW t \in LuaThreads,
           Enter(how, t)
    PROVE  /\ frames' \in Seq([via : JavaVia \union LuaVia, thr : LuaThreads])
           /\ Depth \in Nat /\ Depth' = Depth + 1
           /\ \A i \in 1 .. Depth : frames'[i] = frames[i]
           /\ frames'[Depth'] = [via |-> how, thr |-> t]
<1>1. [via |-> how, thr |-> t] \in [via : JavaVia \union LuaVia, thr : LuaThreads]
  OBVIOUS
<1> QED
  BY <1>1, AppendProperties, LenProperties DEF TypeOK, Enter, Depth

(* A sequence without its last element. *)
LEMMA Front ==
    ASSUME NEW S, NEW s \in Seq(S), Len(s) > 1
    PROVE  /\ SubSeq(s, 1, Len(s) - 1) \in Seq(S)
           /\ Len(SubSeq(s, 1, Len(s) - 1)) = Len(s) - 1
           /\ \A i \in 1 .. Len(s) - 1 : SubSeq(s, 1, Len(s) - 1)[i] = s[i]
<1>1. Len(s) \in Nat
  BY LenProperties
<1>2. Len(s) - 1 \in 1 .. Len(s)
  BY <1>1
<1>3. \A i \in 1 .. Len(s) - 1 : s[i] \in S
  BY <1>1, ElementOfSeq
<1> QED
  BY <1>1, <1>2, <1>3, SubSeqProperties

(* Leaving the innermost activation keeps the others. *)
LEMMA Left ==
    ASSUME TypeOK, Depth > 1, frames' = Cut(Depth - 1)
    PROVE  /\ frames' \in Seq([via : JavaVia \union LuaVia, thr : LuaThreads])
           /\ Depth \in Nat /\ Depth' = Depth - 1
           /\ \A i \in 1 .. Depth' : frames'[i] = frames[i]
<1>1. frames \in Seq([via : JavaVia \union LuaVia, thr : LuaThreads])
      /\ Len(frames) > 1 /\ frames' = SubSeq(frames, 1, Len(frames) - 1)
  BY DEF TypeOK, Depth, Cut
<1>2. Len(frames) \in Nat /\ Depth = Len(frames) /\ Depth' = Len(frames')
  BY <1>1, LenProperties DEF Depth
<1> HIDE DEF LuaThreads, JavaVia, LuaVia, Depth
<1>3. /\ frames' \in Seq([via : JavaVia \union LuaVia, thr : LuaThreads])
      /\ Len(frames') = Len(frames) - 1
      /\ \A i \in 1 .. Len(frames) - 1 : frames'[i] = frames[i]
  BY <1>1, Front
<1> QED
  BY <1>2, <1>3

(* An error that skips no Java lands in the innermost activation. *)
LEMMA LandsInnermost ==
    ASSUME TypeOK, Shape, Raised, NEW i \in DOMAIN frames,
           Lands(i), ~JavaInside(i)
    PROVE  i = Depth
<1>1. Depth \in Nat /\ DOMAIN frames = 1 .. Depth
  BY LenProperties DEF TypeOK, Depth
<1>2. ~InJava(Depth) /\ flying.thr = frames[Depth].thr
  BY DEF Raised, Lands, Top
<1>3. frames[Depth].via \in JavaVia \union LuaVia
  <2>1. Depth \in 1 .. Len(frames)
    BY <1>1 DEF Shape, Depth
  <2>2. frames[Depth] \in [via : JavaVia \union LuaVia, thr : LuaThreads]
    BY <2>1, ElementOfSeq DEF TypeOK
  <2> QED
    BY <2>2
<1>4. CASE frames[Depth].via \in Landings
  BY <1>1, <1>2, <1>4 DEF Lands, Catches
<1>5. CASE frames[Depth].via = "api"
  <2>1. Depth # 1
    BY <1>5 DEF Shape
  <2>2. InJava(Depth - 1)
    BY <1>1, <1>5, <2>1 DEF Shape
  <2>3. i # Depth /\ i # Depth - 1
    BY <1>5, <2>2 DEF Lands, Catches, Landings, InJava, JavaVia
  <2>4. Depth - 1 \in i + 1 .. Depth
    BY <1>1, <2>3
  <2> QED
    BY <2>2, <2>4 DEF JavaInside
<1> QED
  BY <1>2, <1>3, <1>4, <1>5 DEF InJava, LuaVia

-----------------------------------------------------------------------------
Calls(how, t) ==
    /\ how \in {"pcall", "api"} => InJava(Depth)
    /\ how \in {"catch", "resume", "c"} => ~InJava(Depth)
    /\ how = "catch" => t = Top.thr
    /\ how = "api" => "unprotected" \in uses

(* A call by the rules keeps the stack in shape. *)
LEMMA EnterInv ==
    ASSUME IInv, NEW how \in (JavaVia \union LuaVia) \ {"start"},
           NEW t \in LuaThreads, Enter(how, t), Calls(how, t),
           flying = NoError, UNCHANGED <<uses, flying, fate>>,
           status' \in [Coroutines -> {"suspended", "running", "dead"}]
    PROVE  IInv'
<1> USE DEF IInv
<1>1. /\ frames' \in Seq([via : JavaVia \union LuaVia, thr : LuaThreads])
      /\ Depth \in Nat /\ Depth' = Depth + 1
      /\ \A i \in 1 .. Depth : frames'[i] = frames[i]
      /\ frames'[Depth'] = [via |-> how, thr |-> t]
  BY Entered
<1>2. TypeOK'
  BY <1>1 DEF TypeOK
<1>3. Shape'
  <2>1. Depth' >= 1 /\ frames'[1].via = "start"
    BY <1>1 DEF Shape
  <2>2. ASSUME NEW i \in 2 .. Depth'
        PROVE  /\ frames'[i].via \in {"pcall", "api"} => InJava(i - 1)'
               /\ frames'[i].via \in {"catch", "resume", "c"} => ~InJava(i - 1)'
               /\ frames'[i].via = "catch" => frames'[i].thr = frames'[i - 1].thr
               /\ frames'[i].via # "start"
    <3>1. CASE i \in 2 .. Depth
      BY <1>1, <3>1 DEF Shape, InJava
    <3>2. CASE i = Depth'
      BY <1>1, <3>2 DEF Calls, Shape, InJava, Top
    <3> QED
      BY <1>1, <3>1, <3>2
  <2> QED
    BY <2>1, <2>2 DEF Shape
<1>4. Raised'
  BY DEF Raised, NoError
<1>5. Protected'
  <2>1. DOMAIN frames' = 1 .. Depth' /\ DOMAIN frames = 1 .. Depth
    BY <1>1, LenProperties DEF TypeOK, Depth
  <2> QED
    BY <1>1, <2>1 DEF Protected, Calls
<1> QED
  BY <1>2, <1>3, <1>4, <1>5

(* Leaving the innermost activation keeps the stack in shape. *)
LEMMA LeaveInv ==
    ASSUME IInv, Depth > 1, frames' = Cut(Depth - 1),
           UNCHANGED <<uses, fate>>, flying' \in Errors, Raised',
           status' \in [Coroutines -> {"suspended", "running", "dead"}]
    PROVE  IInv'
<1> USE DEF IInv
<1>1. /\ frames' \in Seq([via : JavaVia \union LuaVia, thr : LuaThreads])
      /\ Depth \in Nat /\ Depth' = Depth - 1
      /\ \A i \in 1 .. Depth' : frames'[i] = frames[i]
  BY Left
<1>2. TypeOK'
  BY <1>1 DEF TypeOK
<1>3. Shape'
  <2>1. Depth' >= 1 /\ frames'[1].via = "start"
    BY <1>1 DEF Shape
  <2>2. \A i \in 2 .. Depth' : /\ i \in 2 .. Depth
                               /\ frames'[i] = frames[i]
                               /\ InJava(i - 1)' = InJava(i - 1)
                               /\ frames'[i - 1] = frames[i - 1]
    BY <1>1 DEF InJava
  <2> QED
    BY <2>1, <2>2 DEF Shape
<1>4. Protected'
  <2>1. DOMAIN frames' = 1 .. Depth' /\ DOMAIN frames = 1 .. Depth
    BY <1>1, LenProperties DEF TypeOK, Depth
  <2> QED
    BY <1>1, <2>1 DEF Protected
<1> QED
  BY <1>2, <1>3, <1>4

(* A step that leaves the stack alone. *)
LEMMA StillInv ==
    ASSUME IInv, UNCHANGED <<uses, frames, status, fate>>,
           flying' \in Errors, Raised'
    PROVE  IInv'
<1>1. TypeOK' /\ Shape' /\ Protected'
  BY DEF IInv, TypeOK, Shape, Protected, Depth, InJava
<1> QED
  BY <1>1 DEF IInv

(* What the invariant says of the innermost activation. *)
LEMMA Innermost ==
    ASSUME IInv
    PROVE  /\ Depth \in Nat /\ Depth >= 1 /\ DOMAIN frames = 1 .. Depth
           /\ Top.via \in JavaVia \union LuaVia /\ Top.thr \in LuaThreads
           /\ ~InJava(Depth) => Depth > 1
           /\ Depth > 1 => frames[Depth - 1].thr \in LuaThreads
<1>1. /\ Depth \in Nat /\ Depth >= 1 /\ DOMAIN frames = 1 .. Depth
      /\ Depth = Len(frames)
  BY LenProperties DEF IInv, TypeOK, Shape, Depth
<1>2. \A i \in 1 .. Depth :
         frames[i] \in [via : JavaVia \union LuaVia, thr : LuaThreads]
  BY <1>1, ElementOfSeq DEF IInv, TypeOK
<1>3. frames[1].via \in JavaVia
  BY DEF IInv, Shape, JavaVia
<1> QED
  BY <1>1, <1>2, <1>3 DEF Top, InJava

-----------------------------------------------------------------------------
(* One Java activation, nothing in flight. *)
LEMMA InitInv == Init => IInv
<1> SUFFICES ASSUME Init PROVE IInv
  OBVIOUS
<1>1. [via |-> "start", thr |-> Main]
         \in [via : JavaVia \union LuaVia, thr : LuaThreads]
  BY DEF JavaVia, LuaThreads
<1>2. Depth = 1 /\ frames[1].via = "start" /\ DOMAIN frames = {1}
  BY DEF Init, Depth
<1>3. TypeOK
  BY <1>1 DEF Init, TypeOK, Errors
<1> QED
  BY <1>2, <1>3 DEF IInv, Shape, Raised, Protected, Init, NoError

(* An error lands: it goes on as an exception, in the caller, or not at all. *)
LEMMA LandInv ==
    ASSUME IInv, NEW i \in DOMAIN frames,
           LandsInPcall(i) \/ LandsInCatch(i) \/ LandsInResume(i)
    PROVE  i = Depth /\ Depth > 1 /\ IInv'
<1>1. /\ Lands(i) /\ ~JavaInside(i) /\ frames' = Cut(i - 1)
      /\ UNCHANGED <<uses, fate>>
  BY DEF LandsInPcall, LandsInCatch, LandsInResume, Unwinds
<1>2. i = Depth
  BY <1>1, LandsInnermost DEF IInv
<1>3. /\ Depth > 1 /\ Depth \in Nat
      /\ frames[Depth - 1].thr \in LuaThreads /\ Top.thr \in LuaThreads
  BY <1>1, Innermost DEF IInv, Raised, Lands
<1>4. Depth' = Depth - 1 /\ frames'[Depth'] = frames[Depth - 1]
  BY <1>1, <1>2, <1>3, Left DEF IInv
<1>5. flying \in Errors /\ flying.lang = "lua" /\ flying.what \in ErrorValues
      /\ flying.thr \in LuaThreads
  BY <1>1 DEF IInv, TypeOK, Errors, Lands, NoError, JavaError, LuaError
<1>6. CASE LandsInPcall(i)
  <2>1. InJava(Depth - 1) /\ InJava(Depth)'
    BY <1>2, <1>3, <1>4, <1>6 DEF LandsInPcall, IInv, Shape, InJava
  <2>2. flying' \in Errors /\ flying'.lang = "java"
    BY <1>5, <1>6 DEF LandsInPcall, Errors, AsThrowable, Throwables, JavaError
  <2>3. Raised'
    BY <2>1, <2>2 DEF Raised
  <2> QED
    BY <1>1, <1>2, <1>3, <1>6, <2>2, <2>3, LeaveInv
       DEF LandsInPcall, IInv, TypeOK
<1>7. CASE LandsInCatch(i)
  <2>1. ~InJava(Depth - 1) /\ ~InJava(Depth)' /\ Top' = frames[Depth - 1]
        /\ frames[Depth - 1].thr = frames[Depth].thr
    BY <1>2, <1>3, <1>4, <1>7 DEF LandsInCatch, IInv, Shape, InJava, Top
  <2>2. flying' \in Errors
        /\ (flying'.lang = "none" \/ flying' = flying)
    BY <1>5, <1>7 DEF LandsInCatch, Errors, NoError
  <2>3. Raised'
    BY <1>5, <2>1, <2>2 DEF Raised, IInv, Top
  <2> QED
    BY <1>1, <1>2, <1>3, <1>7, <2>2, <2>3, LeaveInv
       DEF LandsInCatch, IInv, TypeOK
<1>8. CASE LandsInResume(i)
  <2>1. ~InJava(Depth - 1) /\ ~InJava(Depth)' /\ Top' = frames[Depth - 1]
    BY <1>2, <1>3, <1>4, <1>8 DEF LandsInResume, IInv, Shape, InJava, Top
  <2>2. flying' \in Errors
    BY <1>2, <1>3, <1>5, <1>8 DEF LandsInResume, Errors, NoError, LuaError
  <2>3. flying'.lang = "none"
        \/ (flying'.lang = "lua" /\ flying'.thr = frames[Depth - 1].thr)
    BY <1>2, <1>8 DEF LandsInResume, NoError, LuaError
  <2>4. Raised'
    BY <2>1, <2>3 DEF Raised
  <2>5. status' \in [Coroutines -> {"suspended", "running", "dead"}]
    BY <1>8 DEF LandsInResume, IInv, TypeOK
  <2> QED
    BY <1>1, <1>2, <1>3, <2>2, <2>4, <2>5, LeaveInv
<1> QED
  BY <1>2, <1>3, <1>6, <1>7, <1>8

(* Every error lands, unless Java entered Lua by an API function. *)
LEMMA Lost ==
    ASSUME IInv, NEW i \in DOMAIN frames,
           SkipsJava(i) \/ Panics
    PROVE  IInv'
<1>1. /\ flying.lang = "lua" /\ UNCHANGED <<uses, frames, flying, status>>
      /\ ~Catches(Depth, flying.thr) /\ fate' \in {"skipped", "panic"}
  <2>1. CASE SkipsJava(i)
    <3>1. PICK j \in i + 1 .. Depth : InJava(j)
      BY <2>1 DEF SkipsJava, JavaInside
    <3>2. Depth \in i + 1 .. Depth
      BY <3>1, Innermost
    <3> QED
      BY <2>1, <3>2 DEF SkipsJava, Lands
  <2>2. CASE Panics
    BY <2>2, Innermost DEF Panics
  <2> QED
    BY <2>1, <2>2
<1>2. Top.via = "api"
  BY <1>1, Innermost DEF IInv, Raised, Catches, InJava, LuaVia, Top
<1>3. "unprotected" \in uses
  BY <1>2, Innermost DEF IInv, Protected, Top
<1> QED
  BY <1>1, <1>3
     DEF IInv, TypeOK, Shape, Raised, Protected, Depth, InJava, Top

(* The invariant is inductive. *)
LEMMA NextInv == IInv /\ [Next]_vars => IInv'
<1> SUFFICES ASSUME IInv, [Next]_vars PROVE IInv'
  OBVIOUS
<1>0. /\ Depth \in Nat /\ Depth >= 1 /\ DOMAIN frames = 1 .. Depth
      /\ Top.via \in JavaVia \union LuaVia /\ Top.thr \in LuaThreads
      /\ ~InJava(Depth) => Depth > 1
      /\ Depth > 1 => frames[Depth - 1].thr \in LuaThreads
  BY Innermost
<1>t. status \in [Coroutines -> {"suspended", "running", "dead"}]
      /\ flying \in Errors
  BY DEF IInv, TypeOK
<1>1. CASE JavaCalls
  BY <1>0, <1>1, <1>t, EnterInv
     DEF JavaCalls, JavaRuns, Runs, Calls, JavaVia, LuaVia, Landings
<1>2. CASE JavaIndexes
  BY <1>0, <1>2, <1>t, EnterInv
     DEF JavaIndexes, JavaRuns, Runs, Calls, JavaVia, LuaVia, Landings
<1>3. CASE JavaReturns
  <2>1. Raised' /\ flying' \in Errors
    BY <1>3, <1>t DEF JavaReturns, JavaRuns, Runs, Raised, NoError
  <2> QED
    BY <1>3, <1>t, <2>1, LeaveInv DEF JavaReturns
<1>4. CASE JavaThrows
  <2>1. PICK e \in Throwables : flying' = JavaError(e)
    BY <1>4 DEF JavaThrows
  <2>2. flying' \in Errors /\ flying'.lang = "java"
    BY <2>1 DEF Errors, JavaError
  <2>3. Raised'
    BY <1>4, <2>2 DEF JavaThrows, JavaRuns, Raised, InJava, Depth
  <2> QED
    BY <1>4, <2>2, <2>3, StillInv DEF JavaThrows
<1>5. CASE JavaCatches
  <2>1. flying' \in Errors /\ Raised'
    BY <1>5 DEF JavaCatches, Errors, Raised, NoError
  <2> QED
    BY <1>5, <2>1, StillInv DEF JavaCatches
<1>6. CASE JavaLeaves
  <2>1. frames[Depth].via = "c" /\ ~InJava(Depth - 1)
    BY <1>0, <1>6 DEF JavaLeaves, IInv, Raised, Shape, InJava, JavaVia
  <2>2. Depth' = Depth - 1 /\ frames'[Depth'] = frames[Depth - 1]
    BY <1>0, <1>6, Left DEF JavaLeaves, IInv
  <2>3. flying.what \in Throwables
    BY <1>6, <1>t DEF JavaLeaves, Errors, NoError, JavaError, LuaError
  <2>4. flying' \in Errors /\ flying'.lang = "lua"
        /\ flying'.thr = frames[Depth - 1].thr
    BY <1>0, <1>6, <2>3 DEF JavaLeaves, Errors, LuaError, ErrorValues
  <2>5. Raised'
    BY <2>1, <2>2, <2>4 DEF Raised, InJava, Top
  <2> QED
    BY <1>6, <1>t, <2>4, <2>5, LeaveInv DEF JavaLeaves
<1>7. CASE LuaCallsJava
  <2>1. Main \in LuaThreads
    BY DEF LuaThreads
  <2> QED
    BY <1>0, <1>7, <1>t, <2>1, EnterInv
       DEF LuaCallsJava, LuaRuns, Runs, Calls, JavaVia
<1>8. CASE LuaTries
  BY <1>0, <1>8, <1>t, EnterInv
     DEF LuaTries, LuaRuns, Runs, Calls, LuaVia, Landings
<1>9. CASE LuaReturns
  <2>1. Raised' /\ flying' \in Errors
    BY <1>9, <1>t DEF LuaReturns, LuaRuns, Runs, Raised, NoError
  <2>2. status' \in [Coroutines -> {"suspended", "running", "dead"}]
    BY <1>9, <1>t DEF LuaReturns
  <2> QED
    BY <1>0, <1>9, <2>1, <2>2, LeaveInv DEF LuaReturns, LuaRuns
<1>10. CASE LuaRaises
  <2>1. PICK v \in ErrorValues : flying' = LuaError(v, Top.thr)
    BY <1>10 DEF LuaRaises
  <2>2. flying' \in Errors /\ flying'.lang = "lua" /\ flying'.thr = Top.thr
    BY <1>0, <2>1 DEF Errors, LuaError
  <2>3. Raised'
    BY <1>10, <2>2 DEF LuaRaises, LuaRuns, Raised, InJava, Depth, Top
  <2> QED
    BY <1>10, <2>2, <2>3, StillInv DEF LuaRaises
<1>11. ASSUME NEW co \in Coroutines, LuaResumes(co)
       PROVE  IInv'
  <2>1. co \in LuaThreads
    BY DEF LuaThreads
  <2>2. status' \in [Coroutines -> {"suspended", "running", "dead"}]
    BY <1>11, <1>t DEF LuaResumes
  <2> QED
    BY <1>0, <1>11, <2>1, <2>2, EnterInv
       DEF LuaResumes, LuaRuns, Runs, Calls, LuaVia, Landings, JavaVia
<1>12. CASE LuaYields
  <2>1. Raised' /\ flying' \in Errors
    BY <1>12, <1>t DEF LuaYields, LuaRuns, Runs, Raised, NoError
  <2>2. status' \in [Coroutines -> {"suspended", "running", "dead"}]
    BY <1>12, <1>t DEF LuaYields
  <2> QED
    BY <1>0, <1>12, <2>1, <2>2, LeaveInv DEF LuaYields, LuaRuns
<1>13. CASE Unwind
  <2>1. 1 \in DOMAIN frames
    BY <1>0
  <2> QED
    BY <1>13, <2>1, LandInv, Lost DEF Unwind
<1>14. CASE Ended \/ UNCHANGED vars
  BY <1>14 DEF Ended, vars, IInv, TypeOK, Shape, Raised, Protected, Depth,
               InJava, Top
<1> QED
  BY <1>1, <1>2, <1>3, <1>4, <1>5, <1>6, <1>7, <1>8, <1>9, <1>10, <1>11,
     <1>12, <1>13, <1>14 DEF Next

(* The invariant holds throughout. *)
LEMMA Invariance == Spec => []IInv
<1> QED
  BY InitInv, NextInv, PTL DEF Spec

(* README.md:12, for every depth of nesting: as long as Java enters Lua by *)
(* the calls that use pcall, no Lua error ends the process or skips a Java *)
(* method.                                                                 *)
THEOREM Safe == Spec => []ErrorsBecomeExceptionsByCalls
<1>1. IInv => ErrorsBecomeExceptionsByCalls
  BY DEF IInv, Protected, ErrorsBecomeExceptionsByCalls, ErrorsBecomeExceptions
<1> QED
  BY <1>1, Invariance, PTL

-----------------------------------------------------------------------------
(***************************************************************************)
(* The refinement: how each step changes the number of Java activations.   *)
(***************************************************************************)

JavaFrames == {i \in DOMAIN frames : InJava(i)}

(* There are finitely many, the outermost among them. *)
LEMMA JavaFinite ==
    ASSUME IInv
    PROVE  /\ IsFiniteSet(JavaFrames) /\ 1 \in JavaFrames
           /\ JavaActive = Cardinality(JavaFrames) /\ JavaActive \in Nat
           /\ Depth > 1 /\ InJava(Depth) => JavaActive > 1
<1>1. IsFiniteSet(1 .. Depth) /\ JavaFrames \subseteq 1 .. Depth
  BY Innermost, FS_Interval DEF JavaFrames
<1>2. IsFiniteSet(JavaFrames)
  BY <1>1, FS_Subset
<1>3. 1 \in JavaFrames
  BY Innermost DEF JavaFrames, IInv, Shape, InJava, JavaVia
<1>4. JavaActive = Cardinality(JavaFrames)
  BY DEF JavaActive, JavaFrames
<1>5. JavaActive \in Nat
  BY <1>2, <1>4, FS_CardinalityType
<1>6. ASSUME Depth > 1, InJava(Depth)
      PROVE  JavaActive > 1
  <2>1. Depth \in JavaFrames /\ Depth # 1
    BY <1>6, Innermost DEF JavaFrames
  <2>2. Cardinality(JavaFrames) # 0 /\ Cardinality(JavaFrames) # 1
    BY <1>2, <1>3, <2>1, FS_EmptySet, FS_Singleton
  <2> QED
    BY <1>4, <1>5, <2>2
<1> QED
  BY <1>2, <1>3, <1>4, <1>5, <1>6

(* Only an activation of Java code counts when it is entered. *)
LEMMA CountEnter ==
    ASSUME IInv, IInv', NEW how \in JavaVia \union LuaVia,
           NEW t \in LuaThreads, Enter(how, t)
    PROVE  JavaActive' = IF how \in JavaVia THEN JavaActive + 1 ELSE JavaActive
<1>1. /\ Depth \in Nat /\ Depth' = Depth + 1
      /\ \A i \in 1 .. Depth : frames'[i] = frames[i]
      /\ frames'[Depth'] = [via |-> how, thr |-> t]
  BY Entered DEF IInv
<1>2. DOMAIN frames = 1 .. Depth /\ DOMAIN frames' = 1 .. Depth'
  BY <1>1, LenProperties DEF IInv, TypeOK, Depth
<1>3. JavaFrames' = IF how \in JavaVia THEN JavaFrames \union {Depth + 1}
                                       ELSE JavaFrames
  BY <1>1, <1>2 DEF JavaFrames, InJava
<1>4. Depth + 1 \notin JavaFrames
  BY <1>1, <1>2 DEF JavaFrames
<1>5. JavaActive = Cardinality(JavaFrames) /\ JavaActive' = Cardinality(JavaFrames')
  BY DEF JavaActive, JavaFrames
<1> QED
  BY <1>3, <1>4, <1>5, JavaFinite, FS_AddElement

(* Only an activation of Java code counts when it is left. *)
LEMMA CountLeave ==
    ASSUME IInv, Depth > 1, frames' = Cut(Depth - 1)
    PROVE  JavaActive' = IF InJava(Depth) THEN JavaActive - 1 ELSE JavaActive
<1>1. /\ Depth \in Nat /\ Depth' = Depth - 1
      /\ \A i \in 1 .. Depth' : frames'[i] = frames[i]
      /\ frames' \in Seq([via : JavaVia \union LuaVia, thr : LuaThreads])
  BY Left DEF IInv
<1>2. DOMAIN frames = 1 .. Depth /\ DOMAIN frames' = 1 .. Depth'
  BY <1>1, LenProperties DEF IInv, TypeOK, Depth
<1>3. JavaFrames' = JavaFrames \ {Depth}
  BY <1>1, <1>2 DEF JavaFrames, InJava
<1>4. Depth \in JavaFrames <=> InJava(Depth)
  BY <1>1, <1>2 DEF JavaFrames
<1>5. JavaActive = Cardinality(JavaFrames) /\ JavaActive' = Cardinality(JavaFrames')
  BY DEF JavaActive, JavaFrames
<1> QED
  BY <1>3, <1>4, <1>5, JavaFinite, FS_RemoveElement

(* What is in flight, as Java will see it. *)
LEMMA Seen ==
    /\ AsSeen(NoError) = "none"
    /\ \A e \in Throwables : AsSeen(JavaError(e)) = e
    /\ \A v, t : AsSeen(LuaError(v, t)) = AsThrowable(v)
    /\ \A v : AsThrowable(v) \in Throwables
    /\ \A v \in Throwables : AsThrowable(v) = v
    /\ "none" \notin Throwables
    /\ \A e \in Errors : /\ e.lang = "none" => e = NoError
                         /\ e.lang # "none" => AsSeen(e) \in Throwables
                         /\ e.lang = "java" => AsSeen(e) = e.what
                                               /\ e.what \in Throwables
                         /\ e.lang = "lua" => AsSeen(e) = AsThrowable(e.what)
<1>1. /\ \A v : AsThrowable(v) \in Throwables
      /\ \A v \in Throwables : AsThrowable(v) = v
      /\ "none" \notin Throwables
  BY BridgeAssumption DEF AsThrowable, Throwables
<1>2. \A e : JavaError(e) # NoError /\ JavaError(e).what = e
             /\ JavaError(e).lang = "java"
  BY DEF JavaError, NoError
<1>3. \A v, t : LuaError(v, t) # NoError /\ LuaError(v, t).what = v
                /\ LuaError(v, t).lang = "lua"
  BY DEF LuaError, NoError
<1>4. NoError.lang = "none"
  BY DEF NoError
<1>5. \A e \in Errors : /\ e.lang = "none" => e = NoError
                        /\ e.lang = "java" => e.what \in Throwables
                        /\ e.lang # "none" => e # NoError
                        /\ e.lang \in {"none", "java", "lua"}
  BY <1>2, <1>3, <1>4 DEF Errors
<1> QED
  BY <1>1, <1>2, <1>3, <1>4, <1>5 DEF AsSeen

(* The program starts with one Java activation. *)
LEMMA InitRefines == Init => Nested!Init
<1> SUFFICES ASSUME Init PROVE Nested!Init
  OBVIOUS
<1>1. JavaFrames = {1}
  BY DEF Init, JavaFrames, InJava, JavaVia
<1>2. JavaActive = 1
  BY <1>1, FS_Singleton DEF JavaActive, JavaFrames
<1> QED
  BY <1>2, Seen DEF Init, InFlight, Nested!Init

(* Every step is a step of method calls or invisible to Java. *)
LEMMA NextRefines ==
    IInv /\ IInv' /\ [Next]_vars
       => [Nested!Next]_<<JavaActive, InFlight>>
<1> SUFFICES ASSUME IInv, IInv', [Next]_vars
             PROVE  [Nested!Next]_<<JavaActive, InFlight>>
  OBVIOUS
<1> DEFINE Same == UNCHANGED <<JavaActive, InFlight>>
<1> USE DEF InFlight
<1>0. /\ Depth \in Nat /\ Depth >= 1 /\ DOMAIN frames = 1 .. Depth
      /\ Top.via \in JavaVia \union LuaVia /\ Top.thr \in LuaThreads
      /\ ~InJava(Depth) => Depth > 1
      /\ JavaActive \in Nat /\ (Depth > 1 /\ InJava(Depth) => JavaActive > 1)
      /\ flying \in Errors /\ flying' \in Errors
  BY Innermost, JavaFinite DEF IInv, TypeOK
<1>f. frames' = frames => JavaActive' = JavaActive
  BY DEF JavaActive, InJava
<1>1. ASSUME JavaCalls \/ JavaIndexes \/ LuaTries
             \/ (\E co \in Coroutines : LuaResumes(co))
      PROVE  Same
  <2>1. PICK how \in LuaVia, t \in LuaThreads : Enter(how, t)
    BY <1>0, <1>1 DEF JavaCalls, JavaIndexes, LuaTries, LuaResumes, LuaVia,
                      Landings, LuaThreads
  <2>2. how \notin JavaVia
    BY DEF LuaVia, Landings, JavaVia
  <2>3. JavaActive' = JavaActive
    BY <2>1, <2>2, CountEnter
  <2> QED
    BY <1>1, <2>3 DEF JavaCalls, JavaIndexes, LuaTries, LuaResumes
<1>2. ASSUME LuaCallsJava PROVE Nested!Enter
  <2>1. JavaActive' = JavaActive + 1
    BY <1>2, CountEnter DEF LuaCallsJava, JavaVia, LuaThreads
  <2> QED
    BY <1>2, <2>1, Seen DEF LuaCallsJava, LuaRuns, Runs, Nested!Enter
<1>3. ASSUME JavaReturns PROVE Nested!Return
  <2>1. JavaActive' = JavaActive - 1
    BY <1>3, CountLeave DEF JavaReturns, JavaRuns
  <2> QED
    BY <1>0, <1>3, <2>1, Seen DEF JavaReturns, JavaRuns, Runs, Nested!Return
<1>4. ASSUME JavaThrows \/ LuaRaises PROVE Nested!Throw
  <2>1. InFlight = "none" /\ JavaActive' = JavaActive
    BY <1>4, <1>f, Seen DEF JavaThrows, LuaRaises, JavaRuns, LuaRuns, Runs
  <2>2. InFlight' \in Throwables
    BY <1>4, Seen DEF JavaThrows, LuaRaises
  <2> QED
    BY <2>1, <2>2 DEF Nested!Throw
<1>5. ASSUME JavaCatches PROVE Nested!Catch
  <2>1. InFlight \in Throwables /\ InFlight' = "none"
    BY <1>0, <1>5, Seen DEF JavaCatches
  <2> QED
    BY <1>5, <1>f, <2>1, Seen DEF JavaCatches, Nested!Catch
<1>6. ASSUME JavaLeaves PROVE Nested!Leave
  <2>1. InJava(Depth)
    BY <1>6 DEF JavaLeaves, IInv, Raised
  <2>2. JavaActive' = JavaActive - 1 /\ JavaActive > 1
    BY <1>0, <1>6, <2>1, CountLeave DEF JavaLeaves
  <2>3. InFlight \in Throwables /\ InFlight' = InFlight
    BY <1>0, <1>6, Seen DEF JavaLeaves
  <2> QED
    BY <2>2, <2>3, Seen DEF Nested!Leave
<1>7. ASSUME LuaReturns \/ LuaYields PROVE Same
  <2>1. JavaActive' = JavaActive
    BY <1>0, <1>7, CountLeave DEF LuaReturns, LuaYields, LuaRuns
  <2> QED
    BY <1>7, <2>1 DEF LuaReturns, LuaYields
<1>8. ASSUME NEW i \in DOMAIN frames,
             LandsInPcall(i) \/ LandsInCatch(i) \/ LandsInResume(i)
      PROVE  Same \/ Nested!Catch
  <2>1. /\ i = Depth /\ Depth > 1 /\ flying.lang = "lua"
        /\ frames' = Cut(Depth - 1) /\ ~InJava(Depth)
    BY <1>8, LandInv
       DEF LandsInPcall, LandsInCatch, LandsInResume, Unwinds, Lands, IInv, Raised
  <2>2. JavaActive' = JavaActive
    BY <2>1, CountLeave
  <2>3. InFlight = AsThrowable(flying.what) /\ InFlight \in Throwables
    BY <1>0, <2>1, Seen
  <2>4. flying' \in {NoError, flying, JavaError(AsThrowable(flying.what)),
                     LuaError(flying.what, frames[Depth - 1].thr)}
    BY <1>8, <2>1 DEF LandsInPcall, LandsInCatch, LandsInResume
  <2>5. InFlight' \in {"none", InFlight}
    BY <2>3, <2>4, Seen
  <2> QED
    BY <2>2, <2>3, <2>5, Seen DEF Nested!Catch
<1>9. ASSUME (\E i \in DOMAIN frames : SkipsJava(i)) \/ Panics \/ Ended
             \/ UNCHANGED vars
      PROVE  Same
  BY <1>9, <1>f DEF SkipsJava, Panics, Ended, vars
<1> QED
  BY <1>1, <1>2, <1>3, <1>4, <1>5, <1>6, <1>7, <1>8, <1>9
     DEF Next, Unwind, Nested!Next

(* Seen from Java, calls through Lua nest and end like calls of methods: *)
(* one at a time, by a return or by an exception, which stays the same   *)
(* object until it is caught (LuaObject.call, handleThrows,              *)
(* handleException).                                                     *)
THEOREM Refinement == Spec => ImplementsNested
<1> QED
  BY InitRefines, NextRefines, Invariance, PTL DEF Spec, ImplementsNested

-----------------------------------------------------------------------------
(***************************************************************************)
(* Coroutines: a resume is on the stack exactly while its coroutine runs.  *)
(***************************************************************************)

OnlyCoroutines ==
    \A i \in DOMAIN frames : frames[i].via = "resume" => frames[i].thr \in Coroutines
OInv == ResumedOnce /\ OnlyCoroutines

(* Calls other than a resume do not change who is resumed where. *)
LEMMA ResumesEnter ==
    ASSUME IInv, OInv, NEW how \in JavaVia \union LuaVia,
           NEW t \in LuaThreads, Enter(how, t),
           how = "resume" => t \in Coroutines
    PROVE  /\ OnlyCoroutines'
           /\ \A co \in Coroutines :
                 Resumes(co)' = IF how = "resume" /\ t = co
                                THEN Resumes(co) \union {Depth + 1} ELSE Resumes(co)
<1>1. /\ Depth \in Nat /\ Depth' = Depth + 1
      /\ \A i \in 1 .. Depth : frames'[i] = frames[i]
      /\ frames'[Depth'] = [via |-> how, thr |-> t]
      /\ frames' \in Seq([via : JavaVia \union LuaVia, thr : LuaThreads])
  BY Entered DEF IInv
<1>2. DOMAIN frames = 1 .. Depth /\ DOMAIN frames' = 1 .. Depth'
  BY <1>1, LenProperties DEF IInv, TypeOK, Depth
<1>3. OnlyCoroutines'
  BY <1>1, <1>2 DEF OnlyCoroutines, OInv
<1>4. ASSUME NEW co \in Coroutines
      PROVE  Resumes(co)' = IF how = "resume" /\ t = co
                            THEN Resumes(co) \union {Depth + 1} ELSE Resumes(co)
  <2>1. [via |-> how, thr |-> t] = [via |-> "resume", thr |-> co]
           <=> how = "resume" /\ t = co
    OBVIOUS
  <2> QED
    BY <1>1, <1>2, <2>1 DEF Resumes
<1> QED
  BY <1>3, <1>4

(* Leaving ends the resume that was innermost, if it was one. *)
LEMMA ResumesLeave ==
    ASSUME IInv, OInv, Depth > 1, frames' = Cut(Depth - 1)
    PROVE  /\ OnlyCoroutines'
           /\ \A co \in Coroutines :
                 /\ Resumes(co)' = Resumes(co) \ {Depth}
                 /\ Top = [via |-> "resume", thr |-> co] => Depth \in Resumes(co)
           /\ Top.via = "resume" =>
                 /\ Top.thr \in Coroutines
                 /\ Top = [via |-> "resume", thr |-> Top.thr]
                 /\ \A co \in Coroutines \ {Top.thr} : Depth \notin Resumes(co)
           /\ Top.via # "resume" => \A co \in Coroutines : Depth \notin Resumes(co)
<1>1. /\ Depth \in Nat /\ Depth' = Depth - 1
      /\ \A i \in 1 .. Depth' : frames'[i] = frames[i]
      /\ frames' \in Seq([via : JavaVia \union LuaVia, thr : LuaThreads])
  BY Left DEF IInv
<1>2. DOMAIN frames = 1 .. Depth /\ DOMAIN frames' = 1 .. Depth'
  BY <1>1, LenProperties DEF IInv, TypeOK, Depth
<1>3. Top \in [via : JavaVia \union LuaVia, thr : LuaThreads]
  <2>1. Depth \in 1 .. Len(frames)
    BY <1>1 DEF Depth
  <2> QED
    BY <2>1, ElementOfSeq DEF IInv, TypeOK, Top
<1>4. OnlyCoroutines'
  BY <1>1, <1>2 DEF OnlyCoroutines, OInv
<1>5. \A co \in Coroutines :
         /\ Resumes(co)' = Resumes(co) \ {Depth}
         /\ Top = [via |-> "resume", thr |-> co] <=> Depth \in Resumes(co)
  BY <1>1, <1>2 DEF Resumes, Top
<1>6. Top.via = "resume" => /\ Top.thr \in Coroutines
                            /\ Top = [via |-> "resume", thr |-> Top.thr]
  BY <1>1, <1>2, <1>3 DEF OInv, OnlyCoroutines, Top
<1> QED
  BY <1>4, <1>5, <1>6

(* Resumes come and go with the status of their coroutine. *)
LEMMA NextOnce == IInv /\ OInv /\ [Next]_vars => OInv'
<1> SUFFICES ASSUME IInv, OInv, [Next]_vars PROVE OInv'
  OBVIOUS
<1>0. status \in [Coroutines -> {"suspended", "running", "dead"}]
      /\ (~InJava(Depth) => Depth > 1) /\ 1 \in DOMAIN frames
  BY Innermost DEF IInv, TypeOK
<1>1. ASSUME NEW how \in (JavaVia \union LuaVia) \ {"resume"},
             NEW t \in LuaThreads, Enter(how, t), UNCHANGED <<status, fate>>
      PROVE  OInv'
  <2>1. OnlyCoroutines' /\ \A co \in Coroutines : Resumes(co)' = Resumes(co)
    BY <1>1, ResumesEnter
  <2> QED
    BY <1>1, <2>1 DEF OInv, ResumedOnce
<1>2. CASE JavaCalls \/ JavaIndexes \/ LuaCallsJava \/ LuaTries
  <2>1. Top.thr \in LuaThreads /\ Main \in LuaThreads
    BY Innermost DEF LuaThreads
  <2> QED
    BY <1>1, <1>2, <2>1 DEF JavaCalls, JavaIndexes, LuaCallsJava, LuaTries,
                            JavaVia, LuaVia, Landings
<1>3. ASSUME NEW co \in Coroutines, LuaResumes(co)
      PROVE  OInv'
  <2>1. /\ Enter("resume", co) /\ co \in LuaThreads
        /\ "resume" \in JavaVia \union LuaVia
    BY <1>3 DEF LuaResumes, LuaThreads, LuaVia, Landings
  <2>2. /\ OnlyCoroutines'
        /\ \A c \in Coroutines :
              Resumes(c)' = IF c = co THEN Resumes(c) \union {Depth + 1}
                                      ELSE Resumes(c)
    BY <2>1, ResumesEnter
  <2>3. fate = "ok" /\ fate' = fate /\ Resumes(co) = {}
        /\ status' = [status EXCEPT ![co] = "running"]
    BY <1>3 DEF LuaResumes, LuaRuns, Runs, OInv, ResumedOnce
  <2> QED
    BY <1>0, <2>2, <2>3 DEF OInv, ResumedOnce
<1>4. ASSUME Depth > 1, frames' = Cut(Depth - 1), fate = "ok", fate' = fate,
             Top.via # "resume", UNCHANGED status
      PROVE  OInv'
  BY <1>4, ResumesLeave DEF OInv, ResumedOnce
<1>5. ASSUME Depth > 1, frames' = Cut(Depth - 1), fate = "ok", fate' = fate,
             Top.via = "resume",
             NEW st \in {"suspended", "dead"},
             status' = [status EXCEPT ![Top.thr] = st]
      PROVE  OInv'
  <2>1. /\ OnlyCoroutines' /\ Top.thr \in Coroutines
        /\ Depth \in Resumes(Top.thr)
        /\ \A c \in Coroutines : Resumes(c)' = Resumes(c) \ {Depth}
        /\ \A c \in Coroutines \ {Top.thr} : Depth \notin Resumes(c)
    BY <1>5, ResumesLeave
  <2>2. Resumes(Top.thr) = {Depth}
    BY <1>5, <2>1 DEF OInv, ResumedOnce
  <2> QED
    BY <1>0, <1>5, <2>1, <2>2 DEF OInv, ResumedOnce
<1>6. CASE JavaReturns \/ JavaLeaves
  <2>1. Top.via # "resume"
    BY <1>6 DEF JavaReturns, JavaLeaves, JavaRuns, IInv, Raised, InJava, JavaVia, Top
  <2> QED
    BY <1>4, <1>6, <2>1 DEF JavaReturns, JavaLeaves, JavaRuns, Runs
<1>7. CASE LuaReturns \/ LuaYields
  BY <1>0, <1>4, <1>5, <1>7 DEF LuaReturns, LuaYields, LuaRuns, Runs
<1>8. ASSUME NEW i \in DOMAIN frames,
             LandsInPcall(i) \/ LandsInCatch(i) \/ LandsInResume(i)
      PROVE  OInv'
  <2>1. i = Depth /\ Depth > 1 /\ Top = frames[i]
        /\ frames' = Cut(Depth - 1) /\ fate = "ok" /\ fate' = fate
    BY <1>8, LandInv DEF LandsInPcall, LandsInCatch, LandsInResume, Unwinds, Top
  <2>2. LandsInResume(i) => Top.via = "resume" /\ flying.thr = Top.thr
    BY <2>1 DEF LandsInResume, Unwinds, Lands, Catches
  <2>3. ~LandsInResume(i) => Top.via # "resume" /\ UNCHANGED status
    BY <1>8, <2>1 DEF LandsInPcall, LandsInCatch
  <2> QED
    BY <1>4, <1>5, <2>1, <2>2, <2>3 DEF LandsInResume
<1>9. CASE UNCHANGED <<frames, status>> /\ (fate = fate' \/ fate' # "ok")
  BY <1>9 DEF OInv, ResumedOnce, OnlyCoroutines, Resumes
<1>10. CASE JavaThrows \/ JavaCatches \/ LuaRaises \/ Panics \/ Ended
            \/ (\E i \in DOMAIN frames : SkipsJava(i)) \/ UNCHANGED vars
  BY <1>9, <1>10 DEF JavaThrows, JavaCatches, LuaRaises, Panics, Ended,
                     SkipsJava, vars
<1> QED
  BY <1>2, <1>3, <1>6, <1>7, <1>8, <1>10 DEF Next, Unwind

(* A coroutine is resumed on the native stack exactly while it runs, and *)
(* once: no error leaves one running for ever (lua_resume, auxresume).   *)
THEOREM Coroutine == Spec => []ResumedOnce
<1>1. Init => OInv
  BY DEF Init, OInv, ResumedOnce, OnlyCoroutines, Resumes
<1>2. OInv => ResumedOnce
  BY DEF OInv
<1> QED
  BY <1>1, <1>2, NextOnce, Invariance, PTL DEF Spec

-----------------------------------------------------------------------------
(* jlua.try: what the arguments have passed, and that no error is a function *)

Between == {"try", "catch", "finally", "end", "returned", "raised"}

\* What the arguments have passed, and what is known before and after.
Order ==
    /\ pc \in {"check", "refused"} => err = FALSE
    /\ pc = "check" => stack = args /\ calls = <<>>
    /\ pc = "try" => err = FALSE
    /\ pc \in Between => Accepts(args)

\* No error is a function: the positions past the arguments stay harmless.
ErrorsPlain == err => TopOf(stack) \in Plain \cup {Nil}

TryIInv == TryTypeOK /\ Balanced /\ Order /\ ErrorsPlain

-----------------------------------------------------------------------------
(* An error put on the stack is on its top, above what was there. *)
LEMMA Pushed ==
    ASSUME NEW S, NEW s \in Seq(S), NEW e \in S
    PROVE  /\ Append(s, e) \in Seq(S)
           /\ Len(Append(s, e)) = Len(s) + 1
           /\ TopOf(Append(s, e)) = e
           /\ Drop(Append(s, e), 1) = s
<1>1. /\ Append(s, e) \in Seq(S) /\ Len(Append(s, e)) = Len(s) + 1
      /\ \A i \in 1 .. Len(s) : Append(s, e)[i] = s[i]
      /\ Append(s, e)[Len(s) + 1] = e
  BY AppendProperties
<1>2. Len(s) \in Nat
  BY LenProperties
<1>3. TopOf(Append(s, e)) = e
  BY <1>1 DEF TopOf
<1>4. Drop(Append(s, e), 1) = s
  <2>1. Drop(Append(s, e), 1) = SubSeq(Append(s, e), 1, Len(s))
    BY <1>1, <1>2 DEF Drop
  <2>2. QED
    BY <2>1, <1>1, <1>2, SubSeqProperties, SeqEqual
<1> QED
  BY <1>1, <1>3, <1>4

(* Popping one element leaves the others at their positions. *)
LEMMA Popped ==
    ASSUME NEW S, NEW s \in Seq(S), NEW a \in Seq(S),
           Len(s) = Len(a) + 1, Drop(s, 1) = a
    PROVE  \A i \in 1 .. Len(a) : s[i] = a[i]
<1>1. Len(s) \in Nat /\ Len(a) \in Nat
  BY LenProperties
<1>2. a = SubSeq(s, 1, Len(a))
  BY <1>1 DEF Drop
<1>3. ASSUME NEW i \in 1 .. Len(a)
      PROVE  SubSeq(s, 1, Len(a))[i] = s[i]
  BY <1>1, <1>3, SubSeqProperties
<1> QED
  BY <1>2, <1>3

(* jlua.throw raises its argument or nil. *)
LEMMA Thrown ==
    ASSUME NEW v \in Plain, NEW d \in Debugs
    PROVE  ThrowObj(v, d) \in Plain \cup {Nil}
<1>1. Drop(<<v>>, 1) = << >>
  BY DEF Drop
<1>2. Append(<<v>>, Nil)[1] = v
  OBVIOUS
<1>3. TraceStack(<<v>>, d) \in {<< >>, <<v>>, Append(<<v>>, Nil)}
  BY <1>1, ModeAssumption DEF TraceStack
<1> QED
  BY <1>2, <1>3 DEF ThrowObj

(* While the arguments are on the stack, index i < 4 finds argument i, or an
   error, which is not a function. *)
LEMMA Positions ==
    ASSUME TryIInv, pc \in Between, NEW i \in 1 .. 3
    PROVE  /\ Part(i) # None <=> IsFunction(stack, i)
           /\ IsFunction(stack, i) => /\ i <= Len(args) /\ i <= Len(stack)
                                      /\ stack[i] = args[i] /\ Part(i) = args[i]
                                      /\ args[i] \in Functions
<1> USE DEF TryIInv, TryTypeOK
<1>1. args \in Seq(Values) /\ stack \in Seq(Values) /\ Len(args) \in Nat /\ Len(stack) \in Nat
  BY LenProperties
<1>2. None \notin Functions
  BY ValuesAssumption
<1>3. CASE ~err
  <2>1. stack = args
    BY <1>3 DEF Balanced, Between
  <2> QED
    BY <2>1, <1>1, <1>2 DEF Part, IsFunction, At
<1>4. CASE err
  <2>1. Len(stack) = Len(args) + 1 /\ Drop(stack, 1) = args
    BY <1>4 DEF Balanced, Between
  <2>2. \A j \in 1 .. Len(args) : stack[j] = args[j]
    BY <2>1, <1>1, Popped
  <2>3. stack[Len(args) + 1] \notin Functions
    BY <2>1, <1>4, ValuesAssumption DEF ErrorsPlain, TopOf
  <2> QED
    BY <2>1, <2>2, <2>3, <1>1, <1>2 DEF Part, IsFunction, At
<1> QED
  BY <1>3, <1>4

(* A failing call leaves one more element: an error that is no function. *)
LEMMA Failure ==
    ASSUME TryIInv, FunctionErrors = FALSE, NEW rest \in Seq(Values), Fails(rest)
    PROVE  /\ stack' \in Seq(Values)
           /\ Len(stack') = Len(rest) + 1 /\ Drop(stack', 1) = rest
           /\ TopOf(stack') \in Plain \cup {Nil}
           /\ thrown' \in Values \cup {None}
<1> USE DEF TryIInv, TryTypeOK
<1>1. PICK e \in Plain \cup {Nil} : stack' = Append(rest, e)
  <2>1. CASE \E e \in Raisable : stack' = Append(rest, e)
    BY <2>1, FunctionErrors = FALSE DEF Raisable
  <2>2. CASE \E v \in Plain : stack' = Append(rest, ThrowObj(v, debug))
    BY <2>2, Thrown
  <2> QED
    BY <2>1, <2>2 DEF Fails
<1>2. e \in Values
  BY DEF Values
<1>3. thrown' \in Values \cup {None}
  BY DEF Fails, Values
<1> QED
  BY <1>1, <1>2, <1>3, Pushed

-----------------------------------------------------------------------------
(* The initial states have the arguments on the stack and nothing else. *)
LEMMA TryInitInv == TryInit => TryIInv
<1> SUFFICES ASSUME TryInit PROVE TryIInv
  OBVIOUS
<1>1. PICK n \in 0 .. 4 : args \in [1 .. n -> Values]
  BY DEF TryInit
<1>2. args \in Seq(Values)
  BY <1>1, SeqDef
<1>3. calls \in Seq(Functions \X (Values \cup {None}))
  BY EmptySeq DEF TryInit
<1>4. TryTypeOK
  BY <1>2, <1>3 DEF TryInit, TryTypeOK
<1> QED
  BY <1>4 DEF TryInit, TryIInv, Balanced, Order, ErrorsPlain, Between

(* Every step of tryBlock keeps the stack in order. *)
LEMMA TryNextInv == ASSUME FunctionErrors = FALSE PROVE TryIInv /\ [TryNext]_tryVars => TryIInv'
<1> SUFFICES ASSUME TryIInv, [TryNext]_tryVars PROVE TryIInv'
  OBVIOUS
<1> USE DEF TryIInv, TryTypeOK
<1>0. /\ args \in Seq(Values) /\ stack \in Seq(Values)
      /\ Len(args) \in Nat /\ Len(stack) \in Nat
      /\ calls \in Seq(Functions \X (Values \cup {None}))
  BY LenProperties
<1>1. CASE Refuse
  <2>1. Message \in Values
    BY ValuesAssumption DEF Values
  <2>2. stack' \in Seq(Values)
    BY <1>0, <1>1, <2>1 DEF Refuse
  <2>3. pc' = "refused" /\ err' = FALSE /\ UNCHANGED <<args, debug, calls, thrown>>
    BY <1>1 DEF Refuse, Order
  <2> QED
    BY <2>2, <2>3 DEF Order, Balanced, ErrorsPlain, Between
<1>2. CASE Accept
  <2>1. /\ pc' = "try" /\ err' = FALSE /\ stack' = args' /\ Accepts(args)
        /\ UNCHANGED <<args, debug, stack, calls, thrown>>
    BY <1>2 DEF Accept, Order
  <2>2. Accepts(args)'
    BY <2>1 DEF Accepts, IsFunction, At
  <2> QED
    BY <2>1, <2>2 DEF Order, Balanced, ErrorsPlain, Between
<1>3. CASE RunTry
  <2>1. pc = "try" /\ pc' = "catch" /\ err = FALSE /\ stack = args /\ Accepts(args)
    BY <1>3 DEF RunTry, Order, Between, Balanced
  <2>2. UNCHANGED <<args, debug>> /\ Accepts(args)'
    BY <1>3, <2>1 DEF RunTry, Accepts, IsFunction, At
  <2>3. calls' \in Seq(Functions \X (Values \cup {None}))
    <3>1. stack[1] \in Functions
      BY <2>1 DEF Accepts, IsFunction, At
    <3>2. <<stack[1], None>> \in Functions \X (Values \cup {None})
      BY <3>1
    <3> QED
      BY <1>0, <1>3, <3>2 DEF RunTry
  <2>4. CASE Returns(stack) /\ err' = FALSE
    BY <1>0, <2>1, <2>2, <2>3, <2>4 DEF Returns, Order, Balanced, ErrorsPlain, Between
  <2>5. CASE Fails(stack) /\ err' = TRUE
    <3>1. /\ stack' \in Seq(Values)
          /\ Len(stack') = Len(stack) + 1 /\ Drop(stack', 1) = stack
          /\ TopOf(stack') \in Plain \cup {Nil} /\ thrown' \in Values \cup {None}
      BY <1>0, <2>5, Failure
    <3>2. Drop(stack, 1)' = args' /\ TopOf(stack)' \in Plain \cup {Nil}
      BY <2>1, <2>2, <3>1 DEF Drop, TopOf
    <3> QED
      BY <2>1, <2>2, <2>3, <2>5, <3>1, <3>2 DEF Order, Balanced, ErrorsPlain, Between
  <2> QED
    BY <1>3, <2>4, <2>5 DEF RunTry
<1>4. CASE RunCatch
  <2>1. /\ pc = "catch" /\ pc' = "finally" /\ err = TRUE /\ Accepts(args)
        /\ Len(stack) = Len(args) + 1 /\ Drop(stack, 1) = args
        /\ TopOf(stack) \in Plain \cup {Nil}
    BY <1>4 DEF RunCatch, Order, Between, Balanced, ErrorsPlain
  <2>2. UNCHANGED <<args, debug>> /\ Accepts(args)'
    BY <1>4, <2>1 DEF RunCatch, Accepts, IsFunction, At
  <2>3. calls' \in Seq(Functions \X (Values \cup {None}))
    <3>1. stack[2] \in Functions
      BY <1>4, <2>1, Positions DEF RunCatch, Between
    <3>2. <<stack[2], TopOf(stack)>> \in Functions \X (Values \cup {None})
      BY <3>1, <2>1 DEF Values
    <3> QED
      BY <1>0, <1>4, <3>2 DEF RunCatch
  <2>4. CASE Returns(Drop(stack, 1)) /\ err' = FALSE
    BY <1>0, <2>1, <2>2, <2>3, <2>4 DEF Returns, Order, Balanced, ErrorsPlain, Between
  <2>5. CASE Fails(Drop(stack, 1)) /\ err' = TRUE
    <3>1. /\ stack' \in Seq(Values)
          /\ Len(stack') = Len(args) + 1 /\ Drop(stack', 1) = args
          /\ TopOf(stack') \in Plain \cup {Nil} /\ thrown' \in Values \cup {None}
      BY <1>0, <2>1, <2>5, Failure
    <3>2. Drop(stack, 1)' = args' /\ TopOf(stack)' \in Plain \cup {Nil}
      BY <2>1, <2>2, <3>1 DEF Drop, TopOf
    <3> QED
      BY <2>1, <2>2, <2>3, <2>5, <3>1, <3>2 DEF Order, Balanced, ErrorsPlain, Between
  <2> QED
    BY <1>4, <2>4, <2>5 DEF RunCatch
<1>5. CASE RunFinally
  <2>1. pc = "finally" /\ pc' = "end" /\ Accepts(args)
    BY <1>5 DEF RunFinally, Order, Between
  <2>2. UNCHANGED <<args, debug>> /\ Accepts(args)'
    BY <1>5, <2>1 DEF RunFinally, Accepts, IsFunction, At
  <2>3. calls' \in Seq(Functions \X (Values \cup {None}))
    <3>1. stack[3] \in Functions
      BY <1>5, <2>1, Positions DEF RunFinally, Between
    <3>2. <<stack[3], None>> \in Functions \X (Values \cup {None})
      BY <3>1
    <3> QED
      BY <1>0, <1>5, <3>2 DEF RunFinally
  <2>4. CASE Returns(stack) /\ UNCHANGED err
    <3>1. Drop(stack, 1)' = Drop(stack, 1) /\ TopOf(stack)' = TopOf(stack)
      BY <2>4 DEF Returns, Drop, TopOf
    <3> QED
      BY <1>0, <2>1, <2>2, <2>3, <2>4, <3>1 DEF Returns, Order, Balanced, ErrorsPlain, Between
  <2>5. CASE ~err /\ Fails(stack) /\ err' = TRUE
    <3>0. stack = args
      BY <2>1, <2>5 DEF Balanced
    <3>1. /\ stack' \in Seq(Values)
          /\ Len(stack') = Len(stack) + 1 /\ Drop(stack', 1) = stack
          /\ TopOf(stack') \in Plain \cup {Nil} /\ thrown' \in Values \cup {None}
      BY <1>0, <2>5, Failure
    <3>2. Drop(stack, 1)' = args' /\ TopOf(stack)' \in Plain \cup {Nil}
      BY <2>2, <3>0, <3>1 DEF Drop, TopOf
    <3> QED
      BY <2>1, <2>2, <2>3, <2>5, <3>0, <3>1, <3>2 DEF Order, Balanced, ErrorsPlain, Between
  <2> QED
    BY <1>5, <2>4, <2>5 DEF RunFinally
<1>6. CASE SkipCatch \/ SkipFinally \/ Finish \/ UNCHANGED tryVars
  <2>1. UNCHANGED <<args, debug, stack, err, calls, thrown>>
    BY <1>6 DEF SkipCatch, SkipFinally, Finish, tryVars
  <2>2. /\ Drop(stack, 1)' = Drop(stack, 1) /\ TopOf(stack)' = TopOf(stack)
        /\ Accepts(args)' = Accepts(args)
    BY <2>1 DEF Drop, TopOf, Accepts, IsFunction, At
  <2>3. \/ pc' = pc
        \/ pc \in Between /\ pc' \in {"finally", "end", "returned", "raised"}
    BY <1>6 DEF SkipCatch, SkipFinally, Finish, tryVars, Between
  <2> QED
    BY <2>1, <2>2, <2>3 DEF Order, Balanced, ErrorsPlain, Between
<1> QED
  BY <1>1, <1>2, <1>3, <1>4, <1>5, <1>6 DEF TryNext

(***************************************************************************)
(* Between the parts of a try statement, the stack of tryBlock holds its   *)
(* arguments and the error under way, and nothing else.                    *)
(***************************************************************************)
THEOREM TrySafe == ASSUME FunctionErrors = FALSE PROVE TrySpec => [](TryTypeOK /\ Balanced)
<1>1. TryIInv => TryTypeOK /\ Balanced
  BY DEF TryIInv
<1> QED
  BY <1>1, TryInitInv, TryNextInv, PTL DEF TrySpec

-----------------------------------------------------------------------------
(* The statement's initial states. *)
LEMMA TryInitRefines == TryInit => Statement!Init
<1> SUFFICES ASSUME TryInit PROVE Statement!Init
  OBVIOUS
<1>1. Phase = "start" /\ Pending = None /\ calls = <<>>
  BY DEF TryInit, Phase, Pending
<1>2. \A i \in 1 .. 3 : Part(i) \in Functions \cup {None}
  BY ValuesAssumption DEF Part, IsFunction, At
<1> QED
  BY <1>1, <1>2 DEF Statement!Init

(* Every step of tryBlock is a step of the statement, or none. *)
LEMMA TryNextRefines ==
    ASSUME FunctionErrors = FALSE, TryIInv, TryIInv', [TryNext]_tryVars
    PROVE  [Statement!Next]_Statement!vars
<1>0. /\ None \notin Functions
      /\ err => Pending \in Values /\ Pending # None
      /\ err' => Pending' \in Values
      /\ ~err => Pending = None
      /\ ~err' => Pending' = None
  BY ValuesAssumption DEF Pending, TryIInv, ErrorsPlain, Values
<1>a. /\ Pending \in Values \cup {None}
      /\ Pending' \in Values \cup {None}
  BY <1>0 DEF TryIInv, TryTypeOK
<1>b. UNCHANGED args => UNCHANGED <<Part(1), Part(2), Part(3)>>
  BY DEF Part, IsFunction, At
<1>c. err \in BOOLEAN /\ err' \in BOOLEAN
  BY DEF TryIInv, TryTypeOK
<1>1. CASE Refuse
  <2>1. /\ UNCHANGED args /\ Phase = "start" /\ Phase' = "refused" /\ UNCHANGED <<err, calls>>
        /\ err = FALSE
    BY <1>1 DEF Refuse, Phase, TryIInv, Order
  <2> QED
    BY <2>1, <1>b, <1>0 DEF Statement!Next, Statement!Refuse, Statement!parts
<1>2. CASE Accept
  <2>1. /\ UNCHANGED args /\ Phase = "start" /\ Phase' = "body" /\ UNCHANGED <<err, calls>>
        /\ err = FALSE /\ Accepts(args)
    BY <1>2 DEF Accept, Phase, TryIInv, Order
  <2>2. Part(1) # None
    BY <2>1, <1>0 DEF Accepts, Part, IsFunction, At
  <2> QED
    BY <2>1, <2>2, <1>b, <1>0 DEF Statement!Next, Statement!Accept, Statement!parts
<1>3. CASE RunTry
  <2>1. /\ UNCHANGED args /\ Phase = "body" /\ Phase' = "handler"
        /\ calls' = Append(calls, <<stack[1], None>>)
        /\ pc \in Between /\ Accepts(args)
    BY <1>3 DEF RunTry, Phase, TryIInv, Order, Between
  <2>2. Part(1) # None
    BY <2>1, <1>0 DEF Accepts, Part, IsFunction, At
  <2>3. stack[1] = Part(1)
    BY <2>1, <2>2, Positions
  <2> QED
    BY <2>1, <2>3, <1>a, <1>b DEF Statement!Next, Statement!Body, Statement!parts
<1>4. CASE RunCatch
  <2>1. /\ UNCHANGED args /\ Phase = "handler" /\ Phase' = "closing"
        /\ calls' = Append(calls, <<stack[2], Pending>>)
        /\ pc \in Between /\ err /\ IsFunction(stack, 2)
    BY <1>4 DEF RunCatch, Phase, Pending, Between
  <2>2. stack[2] = Part(2) /\ Part(2) # None
    BY <2>1, Positions
  <2>3. Pending # None
    BY <2>1, <1>0
  <2> QED
    BY <2>1, <2>2, <2>3, <1>a, <1>b DEF Statement!Next, Statement!Handler, Statement!parts
<1>5. CASE SkipCatch
  <2>1. /\ UNCHANGED args /\ Phase = "handler" /\ Phase' = "closing"
        /\ UNCHANGED <<calls, Pending>>
        /\ pc \in Between /\ ~(err /\ IsFunction(stack, 2))
    BY <1>5 DEF SkipCatch, Phase, Pending, TopOf, Between
  <2>2. ~(Pending # None /\ Part(2) # None)
    BY <2>1, <1>0, <1>c, Positions
  <2> QED
    BY <2>1, <2>2, <1>b DEF Statement!Next, Statement!Handler, Statement!parts
<1>6. CASE RunFinally
  <2>1. /\ UNCHANGED args /\ Phase = "closing" /\ Phase' = "done"
        /\ calls' = Append(calls, <<stack[3], None>>)
        /\ pc \in Between /\ IsFunction(stack, 3)
    BY <1>6 DEF RunFinally, Phase, Between
  <2>2. stack[3] = Part(3) /\ Part(3) # None
    BY <2>1, Positions
  <2>3. err => UNCHANGED Pending
    BY <1>6 DEF RunFinally, Returns, Pending, TopOf
  <2>4. Pending # None => UNCHANGED Pending
    BY <2>3, <1>0, <1>c
  <2> QED
    BY <2>1, <2>2, <2>4, <1>a, <1>b DEF Statement!Next, Statement!Closing, Statement!parts
<1>7. CASE SkipFinally
  <2>1. /\ UNCHANGED args /\ Phase = "closing" /\ Phase' = "done"
        /\ UNCHANGED <<calls, Pending>>
        /\ pc \in Between /\ ~IsFunction(stack, 3)
    BY <1>7 DEF SkipFinally, Phase, Pending, TopOf, Between
  <2>2. Part(3) = None
    BY <2>1, Positions
  <2> QED
    BY <2>1, <2>2, <1>b DEF Statement!Next, Statement!Closing, Statement!parts
<1>8. CASE Finish \/ UNCHANGED tryVars
  <2>1. UNCHANGED <<args, calls, Phase, Pending>>
    BY <1>8 DEF Finish, tryVars, Phase, Pending, TopOf
  <2> QED
    BY <2>1, <1>b DEF Statement!vars
<1> QED
  BY <1>1, <1>2, <1>3, <1>4, <1>5, <1>6, <1>7, <1>8 DEF TryNext

(***************************************************************************)
(* jlua.try implements the try ... catch ... finally statement: for all    *)
(* functions and error values, provided no function is raised as an error. *)
(***************************************************************************)
THEOREM TryRefinement == ASSUME FunctionErrors = FALSE PROVE TrySpec => ImplementsStatement
<1>1. TryIInv /\ TryIInv' /\ [TryNext]_tryVars => [Statement!Next]_Statement!vars
  BY TryNextRefines
<1> QED
  BY <1>1, TryInitInv, TryNextInv, TryInitRefines, PTL DEF TrySpec, ImplementsStatement, Statement!TrySpec
=============================================================================
