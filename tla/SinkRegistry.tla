----------------------------- MODULE SinkRegistry -----------------------------
(***************************************************************************)
(* The typed sink registry (eden_logger/src/sink.rs): one slot per         *)
(* RequestFields type, never removed; a process-wide count of active sinks *)
(* that lets a dispatch return without looking further; a per-thread cache *)
(* of slots.  Registration, replacement and release take the registry's    *)
(* write lock, a dispatch reads everything but its first lookup without    *)
(* one.                                                                    *)
(***************************************************************************)
EXTENDS Naturals, FiniteSets

CONSTANTS
    Type,       \* RequestFields types
    Thread,     \* threads that dispatch
    Handle,     \* SinkRegistration values, each of one type
    TypeOf,     \* the type of a handle
    Callback    \* callbacks, each installed at most once

VARIABLES
    known,     \* types with an entry in the registry
    slot,      \* SinkSlot.callback
    active,    \* ACTIVE_SINKS
    lock,      \* the holder of the registry's write lock
    hpc,       \* each handle: the call it is in
    own,       \* SinkRegistration.callback
    new,       \* the callback a call is about to install
    tpc,       \* each thread: its place in dispatch
    wanted,    \* the type it dispatches for
    cached,    \* CACHED_SINKS
    holds,     \* the callback it has loaded and is running
    used, retired  \* history: installed once; replaced or disabled

registryVars == <<known, slot, active, lock>>
handleVars == <<hpc, own, new, used, retired>>
threadVars == <<tpc, wanted, cached, holds>>
vars == <<registryVars, handleVars, threadVars>>

None == "None"
Installed == {"held", "rep_lock", "rep_store", "forgotten"}

-----------------------------------------------------------------------------
Init ==
    /\ known = {} /\ slot = [T \in Type |-> None] /\ active = 0 /\ lock = None
    /\ hpc = [h \in Handle |-> "free"]
    /\ own = [h \in Handle |-> None] /\ new = [h \in Handle |-> None]
    /\ tpc = [t \in Thread |-> "idle"]
    /\ wanted = [t \in Thread |-> None]
    /\ cached = [t \in Thread |-> {}]
    /\ holds = [t \in Thread |-> None]
    /\ used = {} /\ retired = {}

Goto(h, place) == hpc' = [hpc EXCEPT ![h] = place]

(* registry().write(): excludes the other writers and first lookups.        *)
Locks(h, here, next) ==
    /\ hpc[h] = here
    /\ lock = None
    /\ lock' = h
    /\ Goto(h, next)
    /\ UNCHANGED <<known, slot, active, own, new, used, retired, threadVars>>

Prepare(h, from, c, next) ==
    /\ hpc[h] = from
    /\ c \notin used
    /\ used' = used \cup {c}
    /\ new' = [new EXCEPT ![h] = c]
    /\ Goto(h, next)
    /\ UNCHANGED <<registryVars, own, retired, threadVars>>

-----------------------------------------------------------------------------
(* register_sink and install_sink.                                          *)
RegisterCalls(h, c) == Prepare(h, "free", c, "reg_lock")
RegisterLocks(h) == Locks(h, "reg_lock", "reg_store")

RegisterStores(h) ==
    LET T == TypeOf[h]
    IN  /\ hpc[h] = "reg_store"
        /\ known' = known \cup {T}
        /\ IF slot[T] = None
           THEN /\ slot' = [slot EXCEPT ![T] = new[h]]
                /\ Goto(h, "reg_count")
                /\ UNCHANGED <<lock, new>>
           ELSE /\ lock' = None
                /\ new' = [new EXCEPT ![h] = None]
                /\ Goto(h, "free")
                /\ UNCHANGED slot
        /\ UNCHANGED <<active, own, used, retired, threadVars>>

RegisterCounts(h) ==
    /\ hpc[h] = "reg_count"
    /\ active' = active + 1
    /\ lock' = None
    /\ own' = [own EXCEPT ![h] = new[h]]
    /\ new' = [new EXCEPT ![h] = None]
    /\ Goto(h, "held")
    /\ UNCHANGED <<known, slot, used, retired, threadVars>>

(* install_sink forgets the registration: its callback stays for good.      *)
Forget(h) ==
    /\ hpc[h] = "held"
    /\ Goto(h, "forgotten")
    /\ UNCHANGED <<registryVars, own, new, used, retired, threadVars>>

-----------------------------------------------------------------------------
(* SinkRegistration::replace.                                               *)
ReplaceCalls(h, c) == Prepare(h, "held", c, "rep_lock")
ReplaceLocks(h) == Locks(h, "rep_lock", "rep_store")

OwnsSlot(h) == slot[TypeOf[h]] = own[h]

ReplaceStores_counts(h) ==
    /\ hpc[h] = "rep_store"
    /\ slot' = [slot EXCEPT ![TypeOf[h]] = new[h]]
    /\ own' = [own EXCEPT ![h] = new[h]]
    /\ retired' = retired \cup {own[h]}
    /\ new' = [new EXCEPT ![h] = None]
    /\ lock' = None
    /\ active' = active + 1
    /\ Goto(h, "held")
    /\ UNCHANGED <<known, used, threadVars>>
ReplaceStores(h) ==
    /\ hpc[h] = "rep_store"
    /\ IF OwnsSlot(h)
       THEN /\ slot' = [slot EXCEPT ![TypeOf[h]] = new[h]]
            /\ own' = [own EXCEPT ![h] = new[h]]
            /\ retired' = retired \cup {own[h]}
       ELSE UNCHANGED <<slot, own, retired>>      \* "registration is stale"
    /\ new' = [new EXCEPT ![h] = None]
    /\ lock' = None
    /\ Goto(h, "held")
    /\ UNCHANGED <<known, active, used, threadVars>>

-----------------------------------------------------------------------------
(* SinkRegistration::disable, which drop calls too.                         *)
DisableCalls(h) ==
    /\ hpc[h] = "held"
    /\ Goto(h, "dis_lock")
    /\ UNCHANGED <<registryVars, own, new, used, retired, threadVars>>

DisableLocks(h) == Locks(h, "dis_lock", "dis_store")

DisableStores_leaves_callback(h) ==
    /\ hpc[h] = "dis_store"
    /\ Goto(h, "dis_count")
    /\ UNCHANGED <<known, slot, active, lock, own, new, used, retired, threadVars>>
DisableStores(h) ==
    /\ hpc[h] = "dis_store"
    /\ IF OwnsSlot(h)
       THEN /\ slot' = [slot EXCEPT ![TypeOf[h]] = None]
            /\ Goto(h, "dis_count")
            /\ UNCHANGED <<lock, own>>
       ELSE /\ lock' = None                        \* no longer the active sink
            /\ own' = [own EXCEPT ![h] = None]
            /\ Goto(h, "free")
            /\ UNCHANGED slot
    /\ UNCHANGED <<known, active, new, used, retired, threadVars>>

DisableCounts(h) ==
    /\ hpc[h] = "dis_count"
    /\ active' = active - 1
    /\ own' = [own EXCEPT ![h] = None]
    /\ retired' = retired \cup {own[h]}
    /\ lock' = None
    /\ Goto(h, "free")
    /\ UNCHANGED <<known, slot, new, used, threadVars>>

-----------------------------------------------------------------------------
(* dispatch and cached_sink.                                                *)
DispatchUnchanged == UNCHANGED <<registryVars, handleVars>>

(* A thread that is back at its call site has nothing left of the dispatch. *)
Move(t, place) ==
    /\ tpc' = [tpc EXCEPT ![t] = place]
    /\ wanted' = [wanted EXCEPT ![t] = IF place = "idle" THEN None ELSE @]

Dispatch(t, T) ==
    /\ tpc[t] = "idle"
    /\ tpc' = [tpc EXCEPT ![t] = "active"]
    /\ wanted' = [wanted EXCEPT ![t] = T]
    /\ UNCHANGED <<cached, holds>>
    /\ DispatchUnchanged

LoadActive(t) ==
    /\ tpc[t] = "active"
    /\ Move(t, IF active = 0 THEN "idle" ELSE "resolve")
    /\ UNCHANGED <<cached, holds>>
    /\ DispatchUnchanged

(* The first lookup of a type takes the read lock; a hit needs no lock.     *)
Resolve(t) ==
    LET T == wanted[t]
    IN  /\ tpc[t] = "resolve"
        /\ T \in cached[t] \/ lock = None
        /\ IF T \in cached[t] \cup known
           THEN cached' = [cached EXCEPT ![t] = @ \cup {T}] /\ Move(t, "load")
           ELSE Move(t, "idle") /\ UNCHANGED cached
        /\ UNCHANGED holds
        /\ DispatchUnchanged

LoadCallback(t) ==
    LET c == slot[wanted[t]]
    IN  /\ tpc[t] = "load"
        /\ holds' = [holds EXCEPT ![t] = c]
        /\ Move(t, IF c = None THEN "idle" ELSE "inside")
        /\ UNCHANGED cached
        /\ DispatchUnchanged

CallbackReturns(t) ==
    /\ tpc[t] = "inside"
    /\ holds' = [holds EXCEPT ![t] = None]
    /\ Move(t, "idle")
    /\ UNCHANGED cached
    /\ DispatchUnchanged

HandleStep(h) ==
    \/ RegisterLocks(h) \/ RegisterStores(h) \/ RegisterCounts(h)
    \/ ReplaceLocks(h) \/ ReplaceStores(h)
    \/ DisableLocks(h) \/ DisableStores(h) \/ DisableCounts(h)

Next ==
    \/ \E h \in Handle, c \in Callback : RegisterCalls(h, c) \/ ReplaceCalls(h, c)
    \/ \E h \in Handle : HandleStep(h) \/ DisableCalls(h) \/ Forget(h)
    \/ \E t \in Thread, T \in Type : Dispatch(t, T)
    \/ \E t \in Thread : LoadActive(t) \/ Resolve(t) \/ LoadCallback(t) \/ CallbackReturns(t)

Spec == Init /\ [][Next]_vars
-----------------------------------------------------------------------------
HandlePlace == {"free", "reg_lock", "reg_store", "reg_count", "dis_lock", "dis_store", "dis_count"} \cup Installed
TypeOK ==
    /\ known \subseteq Type /\ slot \in [Type -> Callback \cup {None}]
    /\ active \in Nat /\ lock \in Handle \cup {None}
    /\ hpc \in [Handle -> HandlePlace]
    /\ own \in [Handle -> Callback \cup {None}] /\ new \in [Handle -> Callback \cup {None}]
    /\ tpc \in [Thread -> {"idle", "active", "resolve", "load", "inside"}]
    /\ wanted \in [Thread -> Type \cup {None}]
    /\ cached \in [Thread -> SUBSET Type]
    /\ holds \in [Thread -> Callback \cup {None}]
    /\ used \subseteq Callback /\ retired \subseteq Callback

(* Whenever nobody is inside a registration call's critical section, the    *)
(* count that short-cuts every dispatch of the process equals the number of *)
(* occupied slots, whatever calls failed, replaced or released before.      *)
ActiveExact == lock = None => active = Cardinality({T \in Type : slot[T] # None})

(* "Dropping or disabling the registration atomically stops future          *)
(* dispatches": none enters a callback whose disable, or whose replacement, *)
(* has returned, through a cached slot or not.                              *)
NoDispatchAfterDisable ==
    [][\A t \in Thread : holds'[t] # holds[t] /\ holds'[t] # None => holds'[t] \notin retired]_vars
=============================================================================
