---- MODULE JavaUserdata ----
(***************************************************************************)
(* Java objects in Lua (jlua.c): a userdata that holds a JNI global        *)
(* reference, made by pushJavaObject and deleted by its finalizer gc.      *)
(* Composes the collector LuaGC with the life of the references.           *)
(***************************************************************************)
EXTENDS LuaGC

VARIABLES
    ref,        \* ref[u]: the global reference of userdata u
    pushing,    \* how far pushJavaObject is, and with which userdata
    failed,     \* the userdata whose pushJavaObject ended in a memory error
    late        \* those that finalizers called by lua_close made

vars == <<gcvars, ref, pushing, failed, late>>
Idle == <<"idle", Nil>>

JInit ==
    /\ Init
    /\ ref = [u \in Objects |-> "none"]
    /\ pushing = Idle /\ failed = {} /\ late = {}

\* NewGlobalRef comes first, ...
NewGlobalRef(u) ==
    /\ Running /\ pushing = Idle
    /\ kind[u] = "java" /\ u \notin alloc /\ ref[u] # "live"
    /\ ref' = [ref EXCEPT ![u] = "live"]
    /\ pushing' = <<"ref", u>>
    /\ late' = IF phase = "finalizer" THEN late \cup {u} ELSE late
    /\ UNCHANGED <<gcvars, failed>>
\* ... then the userdata that keeps it, ...
KeepRef(u) ==
    /\ pushing = <<"ref", u>> /\ pushing' = <<"bare", u>>
    /\ NewUdata(u)
    /\ UNCHANGED <<hasgc, ref, failed, late>>
\* ... and at the end, after more allocations, the metatable with __gc.
SetMetatable(u) ==
    /\ pushing = <<"bare", u>> /\ pushing' = Idle
    /\ hasgc' = hasgc \cup {u}
    /\ UNCHANGED <<heap, udata, m, collector, ref, failed, late>>
\* Any of these allocations may raise a memory error.
PushFails ==
    /\ pushing # Idle /\ pushing' = Idle
    /\ failed' = failed \cup {pushing[2]}
    /\ UNCHANGED <<gcvars, ref, late>>

\* gc: DeleteGlobalRef
Deleted(r) == IF r = "live" THEN "deleted" ELSE "deleted twice"
Finalize(u) ==
    /\ FinalizeOne(u) \/ (pushing = Idle /\ CallGCTM(u))
    /\ ref' = IF kind[u] = "java" THEN [ref EXCEPT ![u] = Deleted(@)] ELSE ref
    /\ UNCHANGED <<pushing, failed, late>>

\* lua_close; what close_state frees is not finalized.
CloseState == pushing = Idle /\ (BeginClose \/ FreeAll) /\ UNCHANGED <<ref, pushing, failed, late>>

JNext ==
    \/ pushing = Idle /\ Program /\ UNCHANGED <<ref, pushing, failed, late>>
    \/ SingleStep /\ UNCHANGED <<ref, pushing, failed, late>>
    \/ \E u \in Objects : NewGlobalRef(u) \/ KeepRef(u) \/ SetMetatable(u) \/ Finalize(u)
    \/ PushFails
    \/ CloseState
Spec == JInit /\ [][JNext]_vars

----------------------------------------------------------------------------
(* Properties *)

\* A Java object Lua code can get at still has its global reference (gc,
\* objectIndex read it through the userdata), until lua_close takes it away.
RefsLive ==
    phase = "open" => \A u \in Accessible : kind[u] = "java" /\ u \in hasgc => ref[u] = "live"

\* The same unless the program uses finalizers written in Lua or tables with
\* weak keys: both can get at a userdata that is being finalized or was.
RefsLiveByUse ==
    (\A o \in Objects : kind[o] \notin {"proxy", "weakkey", "weakboth"}) => RefsLive

\* No reference is deleted twice, not by lua_close either, and when the state is
\* closed none is left, but for those whose pushJavaObject ran out of memory and
\* those that finalizers made after luaC_separateudata: close_state frees their
\* userdata without __gc.
ReleasedOnce ==
    /\ \A u \in Objects : ref[u] # "deleted twice"
    /\ phase = "closed" => \A u \in Objects : ref[u] = "live" => u \in failed \cup late
====
