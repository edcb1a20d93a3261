-------------------------- MODULE GenerationsProofs --------------------------
(***************************************************************************)
(* Theorems for any set of types, handles, threads and callbacks: about    *)
(* the sink registry in the hands of exporters and other sinks; about      *)
(* exporter handles and their generations (what an open handle can rely    *)
(* on, that no worker is forgotten, that nothing reaches a worker that has *)
(* stopped by itself); and, for "without a logging outage", that a         *)
(* dispatch no call of its handle overlaps comes to the end of the         *)
(* callback's decision.                                                    *)
(***************************************************************************)
EXTENDS Generations, FiniteSetTheorems, TLAPS

RegistryStep == [Registry!Next]_(Registry!vars)

Occupied == {T \in Type : slot[T] # None}
Critical == {"reg_store", "reg_count", "rep_store", "dis_store", "dis_count"}

(* The write lock is held by the handle inside its critical section, and    *)
(* the count lags behind the slots only between the two stores of one.      *)
LockExcludes == \A h \in Handle : lock = h <=> hpc[h] \in Critical
CountLags ==
    /\ lock = None => active = Cardinality(Occupied)
    /\ \A h \in Handle :
        /\ hpc[h] \in {"reg_store", "rep_store", "dis_store"} => active = Cardinality(Occupied)
        /\ hpc[h] = "reg_count" => active + 1 = Cardinality(Occupied)
        /\ hpc[h] = "dis_count" => active = Cardinality(Occupied) + 1

(* A handle has the callbacks its call needs.                               *)
HasCallbacks ==
    \A h \in Handle :
        /\ hpc[h] \in {"reg_lock", "reg_store", "reg_count", "rep_lock", "rep_store"} => new[h] # None
        /\ hpc[h] \in Registry!Installed \cup {"dis_lock", "dis_store", "dis_count"} => own[h] # None

(* A callback sits in one slot at most, a fresh one in none until its       *)
(* handle has stored it, and a retired one in none.  Nobody takes a slot    *)
(* from the handle that is installed in it.                                 *)
FreshElsewhere(h) ==
    /\ new[h] \in used \ retired
    /\ \A T \in Type : slot[T] = new[h] => T = TypeOf[h] /\ hpc[h] = "reg_count"
    /\ \A k \in Handle : own[k] # new[h] /\ (k # h => new[k] # new[h])
OwnedElsewhere(h) ==
    /\ own[h] \in used
    /\ \A T \in Type : slot[T] = own[h] => T = TypeOf[h] /\ hpc[h] # "dis_count"
    /\ \A k \in Handle : k # h => own[k] # own[h]
SlotsDiffer ==
    /\ \A T, U \in Type : slot[T] = slot[U] /\ slot[T] # None => T = U
    /\ \A T \in Type : slot[T] # None => slot[T] \in used \ retired
    /\ retired \subseteq used
Routing == Registry!Installed \cup {"dis_lock", "dis_store"}
Routed(h) ==
    /\ hpc[h] \in Routing => slot[TypeOf[h]] = own[h]
    /\ hpc[h] = "reg_count" => slot[TypeOf[h]] = new[h]
Places ==
    /\ \A h \in Handle : new[h] # None => FreshElsewhere(h)
    /\ \A h \in Handle : own[h] # None => OwnedElsewhere(h)
    /\ \A h \in Handle : Routed(h)
    /\ SlotsDiffer

Dispatching == \A t \in Thread : tpc[t] # "idle" => wanted[t] \in Type

Shape == Registry!TypeOK /\ LockExcludes /\ HasCallbacks
IInv == Shape /\ CountLags /\ Places /\ Dispatching

-----------------------------------------------------------------------------
(* Every step of a handle, a thread or a worker is one of the registry's    *)
(* steps or leaves the registry alone.                                      *)
LEMMA StepsOfRegistry == Next => RegistryStep
<1> USE DEF RegistryStep, registryVars, Registry!vars, Registry!registryVars, Registry!handleVars,
            Registry!threadVars
<1>1. RegistrySteps => RegistryStep
  BY DEF RegistrySteps, Registry!Next, Plain
<1>2. ThreadSteps => RegistryStep
  BY DEF ThreadSteps, Registry!Next
<1>3. ASSUME NEW t \in Thread, NEW T \in Type, Dispatch(t, T) PROVE RegistryStep
  BY <1>3 DEF Dispatch, Registry!Next
<1>4. ASSUME NEW t \in Thread, CheckAccepting(t) \/ Submit(t) \/ CallbackReturns(t)
      PROVE  RegistryStep
  BY <1>4 DEF CheckAccepting, Submit, CallbackReturns, Registry!Next
<1>5. ASSUME NEW g \in Callback, WorkerSteps(g) PROVE RegistryStep
  BY <1>5 DEF WorkerSteps, WorkerSettles, WorkerFails, WorkerFindsNothing, WorkerReadsFence,
              WorkerGivesUp, WorkerAborts, WorkerBecomes
<1>6. ASSUME NEW e \in Exporter, NEW g \in Callback, Install(e, g) \/ Reconfigure(e, g)
      PROVE  RegistryStep
  BY <1>6, GenerationsAssumption DEF Install, Reconfigure, Registry!Next
<1>7. ASSUME NEW e \in Exporter, Shutdown(e) \/ Drop(e) \/ Cancelled(e) \/ HandleSteps(e)
      PROVE  RegistryStep
  <2>1. Shutdown(e) \/ Drop(e) => RegistryStep
    BY GenerationsAssumption DEF Shutdown, Drop, Closes, Registry!Next
  <2>2. Cancelled(e) \/ HandleSteps(e) => UNCHANGED registryVars
    BY DEF Cancelled, HandleSteps, InstallFails, InstallSucceeds, ReplaceEnds, SinkReleased,
           DrainTimesOut, DrainEnds, DrainReturns
  <2> QED  BY <1>7, <2>1, <2>2
<1> QED  BY <1>1, <1>2, <1>3, <1>4, <1>5, <1>6, <1>7 DEF Next

-----------------------------------------------------------------------------
LEMMA OccupiedIsFinite == IsFiniteSet(Occupied) /\ Cardinality(Occupied) \in Nat
<1>1. Occupied \subseteq Type  BY DEF Occupied
<1>2. IsFiniteSet(Occupied)  BY <1>1, GenerationsAssumption, FS_Subset
<1> QED  BY <1>2, FS_CardinalityType

(* Types, the lock and what a handle has in hand.                           *)
LEMMA ShapeStep == IInv /\ RegistryStep => Shape'
<1> SUFFICES ASSUME IInv, RegistryStep PROVE Shape'
  OBVIOUS
<1>0. Shape /\ Dispatching  BY DEF IInv
<1> USE <1>0, GenerationsAssumption
    DEF Shape, LockExcludes, HasCallbacks, Registry!TypeOK, Registry!HandlePlace, Registry!Installed,
        Registry!Goto, Registry!None, None, Critical, Registry!registryVars, Registry!handleVars,
        Registry!threadVars, Registry!DispatchUnchanged, Registry!Move
<1>1. ASSUME NEW h \in Handle, NEW c \in Callback, Registry!RegisterCalls(h, c) PROVE Shape'
  BY <1>1 DEF Registry!RegisterCalls, Registry!Prepare
<1>2. ASSUME NEW h \in Handle, NEW c \in Callback, Registry!ReplaceCalls(h, c) PROVE Shape'
  BY <1>2 DEF Registry!ReplaceCalls, Registry!Prepare
<1>3. ASSUME NEW h \in Handle, Registry!RegisterLocks(h) \/ Registry!ReplaceLocks(h) \/ Registry!DisableLocks(h)
      PROVE  Shape'
  BY <1>3 DEF Registry!RegisterLocks, Registry!ReplaceLocks, Registry!DisableLocks, Registry!Locks
<1>4. ASSUME NEW h \in Handle, Registry!RegisterStores(h) PROVE Shape'
  BY <1>4 DEF Registry!RegisterStores
<1>5. ASSUME NEW h \in Handle, Registry!RegisterCounts(h) PROVE Shape'
  BY <1>5 DEF Registry!RegisterCounts
<1>6. ASSUME NEW h \in Handle, Registry!ReplaceStores(h) PROVE Shape'
  BY <1>6 DEF Registry!ReplaceStores
<1>7. ASSUME NEW h \in Handle, Registry!DisableStores(h) PROVE Shape'
  BY <1>7 DEF Registry!DisableStores
<1>8. ASSUME NEW h \in Handle, Registry!DisableCounts(h) PROVE Shape'
  <2>1. active > 0  BY <1>8, OccupiedIsFinite DEF IInv, CountLags, Registry!DisableCounts
  <2> QED  BY <1>8, <2>1 DEF Registry!DisableCounts
<1>9. ASSUME NEW h \in Handle, Registry!DisableCalls(h) \/ Registry!Forget(h) PROVE Shape'
  BY <1>9 DEF Registry!DisableCalls, Registry!Forget
<1>10. ASSUME NEW t \in Thread, NEW T \in Type, Registry!Dispatch(t, T) PROVE Shape'
  BY <1>10 DEF Registry!Dispatch
<1>11. ASSUME NEW t \in Thread, Registry!LoadActive(t) PROVE Shape'
  BY <1>11 DEF Registry!LoadActive
<1>12. ASSUME NEW t \in Thread, Registry!Resolve(t) PROVE Shape'
  BY <1>12 DEF Registry!Resolve
<1>13. ASSUME NEW t \in Thread, Registry!LoadCallback(t) PROVE Shape'
  BY <1>13 DEF Registry!LoadCallback, Dispatching
<1>14. ASSUME NEW t \in Thread, Registry!CallbackReturns(t) PROVE Shape'
  BY <1>14 DEF Registry!CallbackReturns
<1>15. CASE UNCHANGED Registry!vars
  BY <1>15 DEF Registry!vars
<1> QED
  BY <1>1, <1>2, <1>3, <1>4, <1>5, <1>6, <1>7, <1>8, <1>9, <1>10, <1>11, <1>12, <1>13, <1>14, <1>15
  DEF RegistryStep, Registry!Next, Registry!HandleStep

(* The threads' part: a thread that dispatches does so for some type.       *)
LEMMA DispatchingStep == IInv /\ RegistryStep => Dispatching'
<1> SUFFICES ASSUME IInv, RegistryStep PROVE Dispatching'
  OBVIOUS
<1>0. Shape /\ Dispatching  BY DEF IInv
<1> USE <1>0 DEF Dispatching, Shape, Registry!TypeOK, Registry!Move, Registry!threadVars
<1>1. ASSUME NEW t \in Thread, NEW T \in Type, Registry!Dispatch(t, T) PROVE Dispatching'
  BY <1>1 DEF Registry!Dispatch
<1>2. ASSUME NEW t \in Thread, \/ Registry!LoadActive(t) \/ Registry!Resolve(t)
                               \/ Registry!LoadCallback(t) \/ Registry!CallbackReturns(t)
      PROVE  Dispatching'
  BY <1>2 DEF Registry!LoadActive, Registry!Resolve, Registry!LoadCallback, Registry!CallbackReturns
<1>3. ASSUME UNCHANGED Registry!threadVars PROVE Dispatching'
  BY <1>3
<1>4. ASSUME NEW h \in Handle, Registry!HandleStep(h) \/ Registry!DisableCalls(h) \/ Registry!Forget(h)
      PROVE  Dispatching'
  BY <1>3, <1>4
     DEF Registry!HandleStep, Registry!RegisterLocks, Registry!RegisterStores, Registry!RegisterCounts,
         Registry!ReplaceLocks, Registry!ReplaceStores, Registry!DisableLocks, Registry!DisableStores,
         Registry!DisableCounts, Registry!Locks, Registry!DisableCalls, Registry!Forget
<1>5. ASSUME NEW h \in Handle, NEW c \in Callback, Registry!RegisterCalls(h, c) \/ Registry!ReplaceCalls(h, c)
      PROVE  Dispatching'
  BY <1>3, <1>5 DEF Registry!RegisterCalls, Registry!ReplaceCalls, Registry!Prepare
<1> QED  BY <1>1, <1>2, <1>3, <1>4, <1>5 DEF RegistryStep, Registry!Next, Registry!vars

-----------------------------------------------------------------------------
(* The count: what a slot's store does to the number of occupied slots.     *)
LEMMA SlotStored ==
    ASSUME NEW T \in Type, NEW c, Registry!TypeOK, slot' = [slot EXCEPT ![T] = c]
    PROVE  /\ slot[T] = None /\ c # None => Cardinality(Occupied') = Cardinality(Occupied) + 1
           /\ slot[T] # None /\ c # None => Occupied' = Occupied
           /\ slot[T] # None /\ c = None => Cardinality(Occupied) = Cardinality(Occupied') + 1
<1>0. slot'[T] = c /\ \A U \in Type \ {T} : slot'[U] = slot[U]
  BY DEF Registry!TypeOK
<1>1. CASE slot[T] = None /\ c # None
  <2>1. T \notin Occupied /\ Occupied' = Occupied \cup {T}  BY <1>0, <1>1 DEF Occupied
  <2> QED  BY <1>1, <2>1, OccupiedIsFinite, FS_AddElement
<1>2. CASE slot[T] # None /\ c # None
  BY <1>0, <1>2 DEF Occupied
<1>3. CASE slot[T] # None /\ c = None
  <2>1. T \in Occupied /\ Occupied' = Occupied \ {T}  BY <1>0, <1>3 DEF Occupied
  <2>2. Cardinality(Occupied') = Cardinality(Occupied) - 1
    BY <2>1, OccupiedIsFinite, FS_RemoveElement
  <2> QED BY <1>3, <2>2, OccupiedIsFinite
<1> QED  BY <1>1, <1>2, <1>3

LEMMA CountStep == IInv /\ RegistryStep => CountLags'
<1> SUFFICES ASSUME IInv, RegistryStep PROVE CountLags'
  OBVIOUS
<1>0. Shape /\ CountLags /\ Cardinality(Occupied) \in Nat  BY OccupiedIsFinite DEF IInv
<1>1. ASSUME UNCHANGED <<slot, active, lock>>,
             NEW h \in Handle, hpc' = [hpc EXCEPT ![h] = hpc'[h]],
             hpc[h] \notin Critical, hpc'[h] \notin Critical
      PROVE  CountLags'
  <2>1. Occupied' = Occupied  BY <1>1 DEF Occupied
  <2> QED  BY <1>0, <1>1, <2>1 DEF CountLags, Shape, Registry!TypeOK, Critical
<1>2. ASSUME UNCHANGED <<slot, active, lock, hpc>> PROVE CountLags'
  <2>1. Occupied' = Occupied  BY <1>2 DEF Occupied
  <2> QED  BY <1>0, <1>2, <2>1 DEF CountLags
<1> USE <1>0, GenerationsAssumption
    DEF CountLags, Shape, LockExcludes, HasCallbacks, Critical, Registry!TypeOK, Registry!HandlePlace,
        Registry!Installed, Registry!Goto, Registry!None, None
<1>3. ASSUME NEW h \in Handle, NEW c \in Callback, Registry!RegisterCalls(h, c) \/ Registry!ReplaceCalls(h, c)
      PROVE  CountLags'
  BY <1>1, <1>3 DEF Registry!RegisterCalls, Registry!ReplaceCalls, Registry!Prepare, Registry!registryVars
<1>4. ASSUME NEW h \in Handle, Registry!DisableCalls(h) \/ Registry!Forget(h) PROVE CountLags'
  BY <1>1, <1>4 DEF Registry!DisableCalls, Registry!Forget, Registry!registryVars
<1>5. ASSUME NEW h \in Handle, Registry!RegisterLocks(h) \/ Registry!ReplaceLocks(h) \/ Registry!DisableLocks(h)
      PROVE  CountLags'
  <2>1. Occupied' = Occupied
    BY <1>5 DEF Occupied, Registry!RegisterLocks, Registry!ReplaceLocks, Registry!DisableLocks, Registry!Locks
  <2> QED
    BY <1>5, <2>1 DEF Registry!RegisterLocks, Registry!ReplaceLocks, Registry!DisableLocks, Registry!Locks
<1>6. ASSUME NEW h \in Handle, hpc[h] \in Critical, NEW k \in Handle, hpc[k] \in Critical PROVE k = h
  BY <1>6
<1>7. ASSUME NEW h \in Handle, Registry!RegisterStores(h) PROVE CountLags'
  <2>1. active = Cardinality(Occupied) /\ new[h] # None /\ TypeOf[h] \in Type
    BY <1>7 DEF Registry!RegisterStores
  <2>2. CASE slot[TypeOf[h]] = None
    <3>1. slot' = [slot EXCEPT ![TypeOf[h]] = new[h]] /\ hpc' = [hpc EXCEPT ![h] = "reg_count"]
      BY <1>7, <2>2 DEF Registry!RegisterStores
    <3>2. UNCHANGED <<active, lock>> /\ lock = h  BY <1>7, <2>2 DEF Registry!RegisterStores
    <3>3. Cardinality(Occupied') = Cardinality(Occupied) + 1  BY <2>1, <2>2, <3>1, SlotStored
    <3> QED  BY <1>6, <1>7, <2>1, <3>1, <3>2, <3>3 DEF Registry!RegisterStores
  <2>3. CASE slot[TypeOf[h]] # None
    <3>1. Occupied' = Occupied  BY <1>7, <2>3 DEF Registry!RegisterStores, Occupied
    <3> QED  BY <1>6, <1>7, <2>1, <2>3, <3>1 DEF Registry!RegisterStores
  <2> QED  BY <2>2, <2>3
<1>8. ASSUME NEW h \in Handle, Registry!RegisterCounts(h) PROVE CountLags'
  <2>1. Occupied' = Occupied  BY <1>8 DEF Registry!RegisterCounts, Occupied
  <2> QED  BY <1>6, <1>8, <2>1 DEF Registry!RegisterCounts
<1>9. ASSUME NEW h \in Handle, Registry!ReplaceStores(h) PROVE CountLags'
  <2>1. new[h] # None /\ own[h] # None /\ TypeOf[h] \in Type
    BY <1>9 DEF Registry!ReplaceStores
  <2>2. Occupied' = Occupied
    <3>1. CASE Registry!OwnsSlot(h)
      BY <1>9, <2>1, <3>1, SlotStored DEF Registry!ReplaceStores, Registry!OwnsSlot
    <3>2. CASE ~Registry!OwnsSlot(h)
      BY <1>9, <3>2 DEF Registry!ReplaceStores, Occupied
    <3> QED  BY <3>1, <3>2
  <2> QED  BY <1>6, <1>9, <2>2 DEF Registry!ReplaceStores
<1>10. ASSUME NEW h \in Handle, Registry!DisableStores(h) PROVE CountLags'
  <2>1. own[h] # None /\ TypeOf[h] \in Type /\ active = Cardinality(Occupied)
    BY <1>10 DEF Registry!DisableStores
  <2>2. CASE Registry!OwnsSlot(h)
    <3>1. slot' = [slot EXCEPT ![TypeOf[h]] = None] /\ hpc' = [hpc EXCEPT ![h] = "dis_count"]
      BY <1>10, <2>2 DEF Registry!DisableStores
    <3>2. UNCHANGED <<active, lock>> /\ lock = h  BY <1>10, <2>2 DEF Registry!DisableStores
    <3>3. Cardinality(Occupied) = Cardinality(Occupied') + 1
      BY <2>1, <2>2, <3>1, SlotStored DEF Registry!OwnsSlot
    <3> QED  BY <1>6, <1>10, <2>1, <3>1, <3>2, <3>3 DEF Registry!DisableStores
  <2>3. CASE ~Registry!OwnsSlot(h)
    <3>1. Occupied' = Occupied  BY <1>10, <2>3 DEF Registry!DisableStores, Occupied
    <3> QED  BY <1>6, <1>10, <2>1, <2>3, <3>1 DEF Registry!DisableStores
  <2> QED  BY <2>2, <2>3
<1>11. ASSUME NEW h \in Handle, Registry!DisableCounts(h) PROVE CountLags'
  <2>1. Occupied' = Occupied  BY <1>11 DEF Registry!DisableCounts, Occupied
  <2> QED  BY <1>6, <1>11, <2>1 DEF Registry!DisableCounts
<1>12. ASSUME NEW t \in Thread, \/ \E T \in Type : Registry!Dispatch(t, T)
                                \/ Registry!LoadActive(t) \/ Registry!Resolve(t)
                                \/ Registry!LoadCallback(t) \/ Registry!CallbackReturns(t)
       PROVE  CountLags'
  BY <1>2, <1>12
     DEF Registry!Dispatch, Registry!LoadActive, Registry!Resolve, Registry!LoadCallback,
         Registry!CallbackReturns, Registry!DispatchUnchanged, Registry!registryVars, Registry!handleVars
<1>13. CASE UNCHANGED Registry!vars
  BY <1>2, <1>13 DEF Registry!vars, Registry!registryVars, Registry!handleVars
<1> QED
  BY <1>3, <1>4, <1>5, <1>7, <1>8, <1>9, <1>10, <1>11, <1>12, <1>13
  DEF RegistryStep, Registry!Next, Registry!HandleStep

-----------------------------------------------------------------------------
(* Where callbacks are: calls that hand one out, store one, or let one go.  *)
LEMMA PlacesStep == IInv /\ RegistryStep => Places'
<1> SUFFICES ASSUME IInv, RegistryStep PROVE Places'
  OBVIOUS
<1>0. Shape /\ Places  BY DEF IInv
<1> USE <1>0, GenerationsAssumption
    DEF Places, FreshElsewhere, OwnedElsewhere, SlotsDiffer, Routed, Routing, Registry!Installed
<1>1. ASSUME UNCHANGED <<slot, own, new, used, retired>>,
             NEW h \in Handle, hpc' = [hpc EXCEPT ![h] = hpc'[h]],
             hpc[h] # "reg_count", hpc'[h] \notin {"reg_count", "dis_count"},
             hpc'[h] \in Routing => hpc[h] \in Routing
      PROVE  Places'
  BY <1>1 DEF Shape, Registry!TypeOK
<1>2. ASSUME UNCHANGED <<slot, own, new, used, retired, hpc>> PROVE Places'
  BY <1>2
<1>3. ASSUME NEW h \in Handle, NEW c \in Callback, Registry!RegisterCalls(h, c) \/ Registry!ReplaceCalls(h, c)
      PROVE  Places'
  <2>1. /\ UNCHANGED <<slot, own, retired>> /\ c \notin used /\ used' = used \cup {c}
        /\ new' = [new EXCEPT ![h] = c]
        /\ hpc[h] # "reg_count" /\ hpc' = [hpc EXCEPT ![h] = hpc'[h]]
        /\ hpc'[h] \in {"reg_lock", "rep_lock"} /\ (hpc'[h] = "rep_lock" => hpc[h] = "held")
    BY <1>3 DEF Registry!RegisterCalls, Registry!ReplaceCalls, Registry!Prepare, Registry!registryVars,
                Registry!Goto, Shape, Registry!TypeOK
  <2>2. /\ \A T \in Type : slot[T] # c
        /\ \A k \in Handle : own[k] # c /\ new[k] # c
    BY <2>1 DEF None
  <2> QED  BY <2>1, <2>2 DEF Shape, Registry!TypeOK, None
<1>4. ASSUME NEW h \in Handle, Registry!DisableCalls(h) \/ Registry!Forget(h) PROVE Places'
  BY <1>1, <1>4 DEF Registry!DisableCalls, Registry!Forget, Registry!registryVars, Registry!Goto,
                    Shape, Registry!TypeOK
<1>5. ASSUME NEW h \in Handle, Registry!RegisterLocks(h) \/ Registry!ReplaceLocks(h) \/ Registry!DisableLocks(h)
      PROVE  Places'
  BY <1>1, <1>5 DEF Registry!RegisterLocks, Registry!ReplaceLocks, Registry!DisableLocks, Registry!Locks,
                    Registry!Goto, Shape, Registry!TypeOK
<1> USE DEF Registry!Goto, Registry!None, None, Shape, Registry!TypeOK, HasCallbacks
<1>6. ASSUME NEW h \in Handle, Registry!RegisterStores(h) PROVE Places'
  <2>1. UNCHANGED <<own, used, retired>> /\ new[h] # None  BY <1>6 DEF Registry!RegisterStores
  <2>2. CASE slot[TypeOf[h]] = None
    <3>1. /\ slot' = [slot EXCEPT ![TypeOf[h]] = new[h]] /\ UNCHANGED new
          /\ hpc[h] = "reg_store" /\ hpc' = [hpc EXCEPT ![h] = "reg_count"]
      BY <1>6, <2>2 DEF Registry!RegisterStores
    <3>2. \A k \in Handle : new'[k] # None => FreshElsewhere(k)'  BY <2>1, <3>1
    <3>3. \A k \in Handle : own'[k] # None => OwnedElsewhere(k)'  BY <2>1, <3>1
    <3>4. SlotsDiffer'  BY <2>1, <3>1
    <3>5. \A k \in Handle : Routed(k)'  BY <2>1, <2>2, <3>1
    <3> QED  BY <3>2, <3>3, <3>4, <3>5
  <2>3. CASE slot[TypeOf[h]] # None
    <3>1. /\ UNCHANGED slot /\ new' = [new EXCEPT ![h] = None]
          /\ hpc[h] = "reg_store" /\ hpc' = [hpc EXCEPT ![h] = "free"]
      BY <1>6, <2>3 DEF Registry!RegisterStores
    <3> QED  BY <2>1, <3>1
  <2> QED  BY <2>2, <2>3
<1>7. ASSUME NEW h \in Handle, Registry!RegisterCounts(h) PROVE Places'
  BY <1>7 DEF Registry!RegisterCounts
<1>8. ASSUME NEW h \in Handle, Registry!ReplaceStores(h) PROVE Places'
  <2>1. /\ own[h] # None /\ slot[TypeOf[h]] = own[h] /\ new[h] # None
        /\ hpc' = [hpc EXCEPT ![h] = "held"] /\ UNCHANGED used
    BY <1>8 DEF Registry!ReplaceStores
  <2>2. /\ slot' = [slot EXCEPT ![TypeOf[h]] = new[h]] /\ own' = [own EXCEPT ![h] = new[h]]
        /\ new' = [new EXCEPT ![h] = None] /\ retired' = retired \cup {own[h]}
    BY <1>8, <2>1 DEF Registry!ReplaceStores, Registry!OwnsSlot
  <2>3. \A k \in Handle : new'[k] # None => FreshElsewhere(k)'
    BY <2>1, <2>2
  <2>4. \A k \in Handle : own'[k] # None => OwnedElsewhere(k)'
    BY <2>1, <2>2
  <2>5. SlotsDiffer'
    BY <2>1, <2>2
  <2>6. \A k \in Handle : Routed(k)'
    BY <2>1, <2>2
  <2> QED  BY <2>3, <2>4, <2>5, <2>6
<1>9. ASSUME NEW h \in Handle, Registry!DisableStores(h) PROVE Places'
  BY <1>9, SMTT(40) DEF Registry!DisableStores, Registry!OwnsSlot
<1>10. ASSUME NEW h \in Handle, Registry!DisableCounts(h) PROVE Places'
  BY <1>10 DEF Registry!DisableCounts
<1>11. ASSUME NEW t \in Thread, \/ \E T \in Type : Registry!Dispatch(t, T)
                                \/ Registry!LoadActive(t) \/ Registry!Resolve(t)
                                \/ Registry!LoadCallback(t) \/ Registry!CallbackReturns(t)
       PROVE  Places'
  BY <1>2, <1>11
     DEF Registry!Dispatch, Registry!LoadActive, Registry!Resolve, Registry!LoadCallback,
         Registry!CallbackReturns, Registry!DispatchUnchanged, Registry!registryVars, Registry!handleVars
<1>12. CASE UNCHANGED Registry!vars
  BY <1>2, <1>12 DEF Registry!vars, Registry!registryVars, Registry!handleVars
<1> QED
  BY <1>3, <1>4, <1>5, <1>6, <1>7, <1>8, <1>9, <1>10, <1>11, <1>12
  DEF RegistryStep, Registry!Next, Registry!HandleStep

-----------------------------------------------------------------------------
LEMMA InitInvariant == Init => IInv
<1> SUFFICES ASSUME Init PROVE IInv
  OBVIOUS
<1> USE GenerationsAssumption DEF Init, Registry!Init, Registry!None, None
<1>1. Shape
  BY DEF Shape, LockExcludes, HasCallbacks, Registry!TypeOK, Registry!HandlePlace,
         Registry!Installed, Critical
<1>2. Occupied = {}  BY DEF Occupied
<1>3. Cardinality(Occupied) = 0  BY <1>2, FS_EmptySet
<1>4. CountLags  BY <1>3 DEF CountLags
<1>5. Places  BY DEF Places, SlotsDiffer, Routed, Routing, Registry!Installed
<1>6. Dispatching  BY DEF Dispatching
<1> QED  BY <1>1, <1>4, <1>5, <1>6 DEF IInv

LEMMA EveryStepOfRegistry == [Next]_vars => RegistryStep
<1>1. UNCHANGED vars => UNCHANGED Registry!vars
  BY DEF vars, registryVars, Registry!vars, Registry!registryVars, Registry!handleVars,
         Registry!threadVars
<1> QED  BY <1>1, StepsOfRegistry DEF RegistryStep

LEMMA GenerationsInvariant == Spec => []IInv
<1>1. IInv /\ [Next]_vars => IInv'
  BY EveryStepOfRegistry, ShapeStep, CountStep, PlacesStep, DispatchingStep DEF IInv
<1> QED  BY <1>1, InitInvariant, PTL DEF Spec

(* Exporters and other sinks drive the registry as its own specification    *)
(* allows: installing, reconfiguring, closing and dropping generations adds *)
(* no behaviour to it.                                                      *)
THEOREM GenerationsDriveTheRegistry == Spec => Registry!Spec
<1>1. Init => Registry!Init  BY DEF Init
<1>2. [Next]_vars => [Registry!Next]_(Registry!vars)
  BY EveryStepOfRegistry DEF RegistryStep
<1> QED  BY <1>1, <1>2, PTL DEF Spec, Registry!Spec

(* The count that short-cuts every dispatch is the number of occupied slots *)
(* whenever nobody is inside a registration call's critical section.        *)
THEOREM ActiveAlwaysExact == Spec => []ActiveExact
<1>1. IInv => ActiveExact
  <2>1. Occupied = {T \in Type : slot[T] # Registry!None}
    BY DEF Occupied, Registry!None, None
  <2>2. IInv => (lock = Registry!None => active = Cardinality(Occupied))
    BY DEF IInv, CountLags, Registry!None, None
  <2>3. Registry!Cardinality(Occupied) = Cardinality(Occupied)
    BY DEF Registry!Cardinality, Cardinality
  <2> QED  BY <2>1, <2>2, <2>3 DEF ActiveExact, Registry!ActiveExact
<1> QED  BY <1>1, GenerationsInvariant, PTL

(* No thread enters a callback whose disable, or whose replacement, has     *)
(* returned, through a cached slot or not.                                  *)
THEOREM NoDispatchOnceDisabled == Spec => NoDispatchAfterDisable
<1> DEFINE Entered(t) == holds'[t] # holds[t] /\ holds'[t] # Registry!None => holds'[t] \notin retired
<1>1. ASSUME IInv, RegistryStep, NEW t \in Thread PROVE Entered(t)
  <2>1. CASE \E u \in Thread : Registry!LoadCallback(u)
    <3>1. \A T \in Type : slot[T] # None => slot[T] \notin retired
      BY <1>1 DEF IInv, Places, SlotsDiffer
    <3> QED
      BY <1>1, <2>1, <3>1
         DEF IInv, Shape, Dispatching, Registry!LoadCallback, Registry!TypeOK, Registry!None, None
  <2>2. CASE \E u \in Thread : Registry!CallbackReturns(u)
    BY <1>1, <2>2 DEF IInv, Shape, Registry!CallbackReturns, Registry!TypeOK, Registry!None
  <2>3. CASE \E u \in Thread : \/ \E T \in Type : Registry!Dispatch(u, T)
                               \/ Registry!LoadActive(u) \/ Registry!Resolve(u)
    BY <2>3 DEF Registry!Dispatch, Registry!LoadActive, Registry!Resolve
  <2>4. CASE \E h \in Handle, c \in Callback : Registry!RegisterCalls(h, c) \/ Registry!ReplaceCalls(h, c)
    BY <2>4 DEF Registry!RegisterCalls, Registry!ReplaceCalls, Registry!Prepare, Registry!threadVars
  <2>5. CASE \E h \in Handle : Registry!HandleStep(h) \/ Registry!DisableCalls(h) \/ Registry!Forget(h)
    BY <2>5
       DEF Registry!HandleStep, Registry!RegisterLocks, Registry!RegisterStores, Registry!RegisterCounts,
           Registry!ReplaceLocks, Registry!ReplaceStores, Registry!DisableLocks, Registry!DisableStores,
           Registry!DisableCounts, Registry!Locks, Registry!DisableCalls, Registry!Forget,
           Registry!threadVars
  <2>6. CASE UNCHANGED Registry!vars
    BY <2>6 DEF Registry!vars, Registry!threadVars
  <2> QED
    BY <1>1, <2>1, <2>2, <2>3, <2>4, <2>5, <2>6 DEF RegistryStep, Registry!Next
<1>2. IInv /\ [Next]_vars => [\A t \in Thread : Entered(t)]_(Registry!vars)
  BY <1>1, EveryStepOfRegistry
<1>3. Spec => [][\A t \in Thread : Entered(t)]_(Registry!vars)
  BY <1>2, GenerationsInvariant, PTL DEF Spec
<1> QED
  BY <1>3 DEF NoDispatchAfterDisable, Registry!NoDispatchAfterDisable
-----------------------------------------------------------------------------
(* The handles and their generations.                                       *)

Types ==
    /\ accepting \subseteq used /\ stopping \subseteq used
    /\ aborting \subseteq used /\ detached \subseteq used
    /\ worker \in [Callback -> {"none"} \cup Alive \cup Done]
    /\ backlog \in [Callback -> 0 .. MaxBacklog]
    /\ epc \in [Exporter -> {"none", "installing", "open", "replacing", "shutting", "dropping"} \cup Waiting]
    /\ gen \in [Exporter -> used \cup {None}] /\ other \in [Exporter -> used \cup {None}]
    /\ visit \in [Thread -> {"out", "admitted"} \cup Decided]
    /\ steady \in [Thread -> BOOLEAN]

(* A generation that records go to: nobody has asked its worker to end.     *)
Live(g) == g \in accepting /\ g \notin stopping \cup aborting /\ worker[g] \in {"running", "parked"}

(* Where a handle is in its call, in the registry and with its generations. *)
Registering(e) ==
    \/ hpc[e] \in {"reg_lock", "reg_store", "reg_count"} /\ new[e] = gen[e]
    \/ hpc[e] = "held" /\ own[e] = gen[e]
    \/ hpc[e] = "free"
Replacing(e) ==
    \/ hpc[e] \in {"rep_lock", "rep_store"} /\ own[e] = gen[e] /\ new[e] = other[e]
    \/ hpc[e] = "held" /\ own[e] \in {gen[e], other[e]}
Releasing(e) == hpc[e] \in {"dis_lock", "dis_store", "dis_count", "free"}
InCall(e) ==
    /\ epc[e] = "none" => gen[e] = None /\ hpc[e] = "free"
    /\ epc[e] = "installing" => Live(gen[e]) /\ Registering(e)
    /\ epc[e] \in {"open", "draining"} => Live(gen[e]) /\ hpc[e] = "held" /\ own[e] = gen[e]
    /\ epc[e] = "replacing" => Live(gen[e]) /\ Live(other[e]) /\ Replacing(e)
    /\ epc[e] \in {"shutting", "dropping"} => gen[e] \in stopping /\ Releasing(e)
    /\ epc[e] = "ending" => other[e] = gen[e] /\ hpc[e] = "free"
    /\ epc[e] \in Waiting => other[e] \in stopping
HasGenerations(e) ==
    /\ epc[e] # "none" => gen[e] # None
    /\ epc[e] \in {"replacing"} \cup Waiting <=> other[e] # None
    /\ epc[e] # "ending" => other[e] # gen[e] \/ gen[e] = None
Apart(e, f) == {gen[e], other[e]} \cap {gen[f], other[f]} \subseteq {None}
Handles ==
    /\ \A e \in Exporter : InCall(e) /\ HasGenerations(e)
    /\ \A e, f \in Exporter : e # f => Apart(e, f)

Kept(g) ==
    \/ \E e \in Exporter : g \in {gen[e], other[e]}
    \/ g \in aborting
    \/ g \in detached \cap stopping
LivingAreKept == \A g \in Callback : worker[g] \in Alive => Kept(g)

StoppedIsClosed == \A g \in Callback : worker[g] = "stopped" => Closed(g)

EInv == IInv /\ Types /\ Handles /\ LivingAreKept /\ StoppedIsClosed

-----------------------------------------------------------------------------
(* What a step of the registry leaves as it is.                             *)
LEMMA UsedGrows == IInv /\ RegistryStep => used \subseteq used'
<1> SUFFICES ASSUME IInv, RegistryStep PROVE used \subseteq used'
  OBVIOUS
<1> USE DEF Registry!registryVars, Registry!handleVars
<1>1. ASSUME NEW h \in Handle, NEW c \in Callback, Registry!RegisterCalls(h, c) \/ Registry!ReplaceCalls(h, c)
      PROVE  used \subseteq used'
  BY <1>1 DEF Registry!RegisterCalls, Registry!ReplaceCalls, Registry!Prepare
<1>2. ASSUME NEW h \in Handle, Registry!HandleStep(h) \/ Registry!DisableCalls(h) \/ Registry!Forget(h)
      PROVE  used \subseteq used'
  BY <1>2
     DEF Registry!HandleStep, Registry!RegisterLocks, Registry!RegisterStores, Registry!RegisterCounts,
         Registry!ReplaceLocks, Registry!ReplaceStores, Registry!DisableLocks, Registry!DisableStores,
         Registry!DisableCounts, Registry!Locks, Registry!DisableCalls, Registry!Forget
<1>3. ASSUME NEW t \in Thread, \/ \E T \in Type : Registry!Dispatch(t, T)
                               \/ Registry!LoadActive(t) \/ Registry!Resolve(t)
                               \/ Registry!LoadCallback(t) \/ Registry!CallbackReturns(t)
      PROVE  used \subseteq used'
  BY <1>3 DEF Registry!Dispatch, Registry!LoadActive, Registry!Resolve, Registry!LoadCallback,
              Registry!CallbackReturns, Registry!DispatchUnchanged
<1> QED  BY <1>1, <1>2, <1>3 DEF RegistryStep, Registry!Next, Registry!vars

(* A callback that was let go of everywhere is never taken up again.        *)
LEMMA ClosedStays == ASSUME IInv, RegistryStep, NEW g \in Callback, Closed(g) PROVE Closed(g)'
<1>0. Shape /\ Dispatching /\ g # None  BY GenerationsAssumption DEF IInv
<1> USE <1>0, GenerationsAssumption
    DEF Closed, Shape, Registry!TypeOK, Registry!registryVars, Registry!handleVars,
        Registry!threadVars, Registry!DispatchUnchanged, Registry!None, None
<1>1. ASSUME NEW h \in Handle, NEW c \in Callback, Registry!RegisterCalls(h, c) \/ Registry!ReplaceCalls(h, c)
      PROVE  Closed(g)'
  BY <1>1 DEF Registry!RegisterCalls, Registry!ReplaceCalls, Registry!Prepare
<1>2. ASSUME NEW h \in Handle, \/ Registry!RegisterLocks(h) \/ Registry!ReplaceLocks(h)
                               \/ Registry!DisableLocks(h) \/ Registry!DisableCalls(h)
                               \/ Registry!Forget(h)
      PROVE  Closed(g)'
  BY <1>2 DEF Registry!RegisterLocks, Registry!ReplaceLocks, Registry!DisableLocks, Registry!Locks,
              Registry!DisableCalls, Registry!Forget
<1>3. ASSUME NEW h \in Handle, Registry!RegisterStores(h) \/ Registry!RegisterCounts(h)
      PROVE  Closed(g)'
  BY <1>3 DEF Registry!RegisterStores, Registry!RegisterCounts
<1>4. ASSUME NEW h \in Handle, Registry!ReplaceStores(h) PROVE Closed(g)'
  BY <1>4 DEF Registry!ReplaceStores
<1>5. ASSUME NEW h \in Handle, Registry!DisableStores(h) \/ Registry!DisableCounts(h)
      PROVE  Closed(g)'
  BY <1>5 DEF Registry!DisableStores, Registry!DisableCounts
<1>6. ASSUME NEW t \in Thread, \/ \E T \in Type : Registry!Dispatch(t, T)
                               \/ Registry!LoadActive(t) \/ Registry!Resolve(t)
                               \/ Registry!CallbackReturns(t)
      PROVE  Closed(g)'
  BY <1>6 DEF Registry!Dispatch, Registry!LoadActive, Registry!Resolve, Registry!CallbackReturns
<1>7. ASSUME NEW t \in Thread, Registry!LoadCallback(t) PROVE Closed(g)'
  BY <1>7 DEF Registry!LoadCallback, Dispatching
<1>8. CASE UNCHANGED Registry!vars
  BY <1>8 DEF Registry!vars
<1> QED
  BY <1>1, <1>2, <1>3, <1>4, <1>5, <1>6, <1>7, <1>8 DEF RegistryStep, Registry!Next, Registry!HandleStep

-----------------------------------------------------------------------------
(* A worker's step touches its own generation only.                         *)
LEMMA WorkerFacts ==
    ASSUME NEW g \in Callback, Types, Registry!TypeOK, WorkerSteps(g)
    PROVE  /\ UNCHANGED <<registryVars, accepting, stopping, exporterVars, visitVars>>
           /\ \E place \in Alive \cup Done : worker' = [worker EXCEPT ![g] = place]
           /\ aborting' \in {aborting, aborting \ {g}} /\ detached' \in {detached, detached \ {g}}
           /\ aborting' # aborting \/ detached' # detached => worker'[g] \in Done
           /\ worker[g] \in Alive
           /\ worker'[g] \notin {"running", "parked"} => g \in stopping \cup aborting \/ worker[g] = "dry"
           /\ worker'[g] = "stopped" => Closed(g)
           /\ backlog' \in [Callback -> 0 .. MaxBacklog]
<1> USE DEF Types, WorkerBecomes, Alive, Done
<1>1. CASE WorkerSettles(g)  BY <1>1, GenerationsAssumption DEF WorkerSettles
<1>2. CASE WorkerFails(g)  BY <1>2 DEF WorkerFails
<1>3. CASE WorkerFindsNothing(g)  BY <1>3 DEF WorkerFindsNothing
<1>4. CASE WorkerReadsFence(g)  BY <1>4 DEF WorkerReadsFence
<1>5. CASE WorkerGivesUp(g)  BY <1>5, GenerationsAssumption DEF WorkerGivesUp
<1>6. CASE WorkerAborts(g)  BY <1>6, GenerationsAssumption DEF WorkerAborts
<1> QED  BY <1>1, <1>2, <1>3, <1>4, <1>5, <1>6 DEF WorkerSteps

LEMMA TypesStep == EInv /\ [Next]_vars => Types'
<1> SUFFICES ASSUME EInv, [Next]_vars PROVE Types'
  OBVIOUS
<1>0. Types /\ Handles /\ Registry!TypeOK /\ used \subseteq used'
  BY EveryStepOfRegistry, UsedGrows DEF EInv, IInv, Shape
<1> USE <1>0, GenerationsAssumption
    DEF Types, generationVars, exporterVars, visitVars, Visits, Goto, Decided, Waiting, Alive, Done
<1>1. CASE RegistrySteps
  BY <1>1 DEF RegistrySteps
<1>2. CASE ThreadSteps
  BY <1>2 DEF ThreadSteps
<1>3. ASSUME NEW t \in Thread, NEW T \in Type, Dispatch(t, T) PROVE Types'
  BY <1>3 DEF Dispatch
<1>4. ASSUME NEW t \in Thread, CheckAccepting(t) PROVE Types'
  BY <1>4 DEF CheckAccepting
<1>5. ASSUME NEW t \in Thread, Submit(t) PROVE Types'
  BY <1>5 DEF Submit
<1>6. ASSUME NEW t \in Thread, CallbackReturns(t) PROVE Types'
  BY <1>6 DEF CallbackReturns
<1>7. ASSUME NEW g \in Callback, WorkerSteps(g) PROVE Types'
  BY <1>7, WorkerFacts
<1>8. ASSUME NEW e \in Exporter, NEW g \in Callback, Install(e, g) PROVE Types'
  BY <1>8 DEF Install, Prepare, Registry!RegisterCalls, Registry!Prepare
<1>9. ASSUME NEW e \in Exporter, NEW g \in Callback, Reconfigure(e, g) PROVE Types'
  BY <1>9 DEF Reconfigure, Prepare, Disturbs, Registry!ReplaceCalls, Registry!Prepare
<1> USE DEF Handles, HasGenerations, StopAcceptance, Abort, HandleGone
<1>10. ASSUME NEW e \in Exporter, Shutdown(e) \/ Drop(e) PROVE Types'
  <2>1. PICK place \in {"shutting", "dropping"} : Closes(e, place)
    BY <1>10 DEF Shutdown, Drop
  <2>2. gen[e] \in used'  BY <2>1 DEF Closes
  <2>3. /\ UNCHANGED <<aborting, detached, worker, backlog, gen, other, visit>>
        /\ accepting' = accepting \ {gen[e]} /\ stopping' = stopping \cup {gen[e]}
        /\ epc' = [epc EXCEPT ![e] = place]
    BY <2>1 DEF Closes
  <2>4. steady' \in [Thread -> BOOLEAN]  BY <2>1 DEF Closes, Disturbs
  <2> QED  BY <2>2, <2>3, <2>4
<1>11. ASSUME NEW e \in Exporter, Cancelled(e) \/ DrainEnds(e) PROVE Types'
  BY <1>11 DEF Cancelled, DrainEnds, DrainReturns
<1>12. ASSUME NEW e \in Exporter, InstallFails(e) \/ InstallSucceeds(e) PROVE Types'
  BY <1>12 DEF InstallFails, InstallSucceeds
<1>13. ASSUME NEW e \in Exporter, ReplaceEnds(e) PROVE Types'
  BY <1>13 DEF ReplaceEnds
<1>14. ASSUME NEW e \in Exporter, SinkReleased(e) \/ DrainTimesOut(e) PROVE Types'
  BY <1>14 DEF SinkReleased, DrainTimesOut
<1>15. CASE UNCHANGED vars
  BY <1>15 DEF vars
<1> QED
  BY <1>1, <1>2, <1>3, <1>4, <1>5, <1>6, <1>7, <1>8, <1>9, <1>10, <1>11, <1>12, <1>13, <1>14, <1>15
  DEF Next, HandleSteps

-----------------------------------------------------------------------------
(* A worker starts with its generation and moves by its own steps.          *)
LEMMA WorkersMove ==
    ASSUME EInv, [Next]_vars, NEW g \in Callback
    PROVE  \/ worker'[g] = worker[g]
           \/ WorkerSteps(g)
           \/ worker'[g] = "running" /\ \E e \in Exporter : Install(e, g) \/ Reconfigure(e, g)
<1>0. Types /\ Registry!TypeOK  BY DEF EInv, IInv, Shape
<1> USE <1>0 DEF Types, generationVars
<1>1. CASE RegistrySteps \/ ThreadSteps \/ UNCHANGED vars
  BY <1>1 DEF RegistrySteps, ThreadSteps, vars
<1>2. ASSUME NEW t \in Thread, \/ \E T \in Type : Dispatch(t, T)
                               \/ CheckAccepting(t) \/ Submit(t) \/ CallbackReturns(t)
      PROVE  worker' = worker
  BY <1>2 DEF Dispatch, CheckAccepting, Submit, CallbackReturns
<1>3. ASSUME NEW x \in Callback, WorkerSteps(x) PROVE worker'[g] = worker[g] \/ WorkerSteps(g)
  <2>1. CASE x = g  BY <1>3, <2>1
  <2>2. CASE x # g  BY <1>3, <2>2, WorkerFacts
  <2> QED  BY <2>1, <2>2
<1>4. ASSUME NEW e \in Exporter, NEW x \in Callback, Install(e, x) \/ Reconfigure(e, x)
      PROVE  \/ worker'[g] = worker[g]
             \/ worker'[g] = "running" /\ (Install(e, g) \/ Reconfigure(e, g))
  <2>1. worker' = [worker EXCEPT ![x] = "running"]
    BY <1>4 DEF Install, Reconfigure, Prepare
  <2>2. CASE x = g  BY <1>4, <2>1, <2>2
  <2>3. CASE x # g  BY <2>1, <2>3
  <2> QED  BY <2>2, <2>3
<1>5. ASSUME NEW e \in Exporter, Shutdown(e) \/ Drop(e) \/ Cancelled(e) \/ HandleSteps(e)
      PROVE  worker' = worker
  BY <1>5 DEF Shutdown, Drop, Closes, Cancelled, HandleSteps, InstallFails, InstallSucceeds,
              ReplaceEnds, SinkReleased, DrainTimesOut, DrainEnds, DrainReturns, StopAcceptance
<1> QED  BY <1>1, <1>2, <1>3, <1>4, <1>5 DEF Next

(* The fence: a worker stops when its callback is gone, which is for good.  *)
LEMMA StoppedStep == EInv /\ [Next]_vars => StoppedIsClosed'
<1> SUFFICES ASSUME EInv, [Next]_vars, NEW g \in Callback, worker'[g] = "stopped" PROVE Closed(g)'
  BY DEF StoppedIsClosed
<1>1. Closed(g)
  <2>1. CASE worker'[g] = worker[g]  BY <2>1 DEF EInv, StoppedIsClosed
  <2>2. CASE WorkerSteps(g)  BY <2>2, WorkerFacts DEF EInv, IInv, Shape
  <2> QED  BY <2>1, <2>2, WorkersMove
<1> QED  BY <1>1, ClosedStays, EveryStepOfRegistry DEF EInv

-----------------------------------------------------------------------------
(* A handle is where it was if nothing of its own moved and what was live   *)
(* for it still is.                                                         *)
LEMMA Unaffected ==
    ASSUME NEW f \in Exporter, InCall(f), HasGenerations(f),
           epc'[f] = epc[f], gen'[f] = gen[f], other'[f] = other[f],
           hpc'[f] = hpc[f], own'[f] = own[f], new'[f] = new[f],
           stopping \subseteq stopping',
           \A g \in {gen[f], other[f]} \ {None} : Live(g) => Live(g)'
    PROVE  InCall(f)' /\ HasGenerations(f)'
<1> USE DEF HasGenerations
<1>1. HasGenerations(f)'  OBVIOUS
<1>2. InCall(f)'
  BY DEF InCall, Registering, Replacing, Releasing, Waiting
<1> QED  BY <1>1, <1>2

(* A step of the registry that no handle has a part in.                     *)
LEMMA ThreadsLeaveHandles ==
    ASSUME NEW t \in Thread, \/ \E T \in Type : Registry!Dispatch(t, T)
                             \/ Registry!LoadActive(t) \/ Registry!Resolve(t)
                             \/ Registry!LoadCallback(t) \/ Registry!CallbackReturns(t)
    PROVE  UNCHANGED <<hpc, own, new, used>>
  BY DEF Registry!Dispatch, Registry!LoadActive, Registry!Resolve, Registry!LoadCallback,
         Registry!CallbackReturns, Registry!DispatchUnchanged, Registry!handleVars

(* A handle inside a call of the registry goes on with that call.           *)
LEMMA CallProceeds ==
    ASSUME NEW h \in Handle, Registry!HandleStep(h), EInv
    PROVE  /\ \A k \in Handle \ {h} : hpc'[k] = hpc[k] /\ own'[k] = own[k] /\ new'[k] = new[k]
           /\ hpc[h] \notin {"free", "held"}
           /\ hpc[h] \in {"reg_lock", "reg_store", "reg_count"} =>
                 \/ hpc'[h] \in {"reg_store", "reg_count"} /\ new'[h] = new[h]
                 \/ hpc'[h] = "held" /\ own'[h] = new[h]
                 \/ hpc'[h] = "free"
           /\ hpc[h] \in {"rep_lock", "rep_store"} =>
                 \/ hpc'[h] = "rep_store" /\ own'[h] = own[h] /\ new'[h] = new[h]
                 \/ hpc'[h] = "held" /\ own'[h] \in {own[h], new[h]}
           /\ hpc[h] \in {"dis_lock", "dis_store", "dis_count"} =>
                 hpc'[h] \in {"dis_store", "dis_count", "free"}
<1>0. Registry!TypeOK  BY DEF EInv, IInv, Shape
<1> USE <1>0 DEF Registry!TypeOK, Registry!Goto, Registry!threadVars
<1>1. CASE Registry!RegisterLocks(h) \/ Registry!ReplaceLocks(h) \/ Registry!DisableLocks(h)
  BY <1>1 DEF Registry!RegisterLocks, Registry!ReplaceLocks, Registry!DisableLocks, Registry!Locks
<1>2. CASE Registry!RegisterStores(h)  BY <1>2 DEF Registry!RegisterStores
<1>3. CASE Registry!RegisterCounts(h)  BY <1>3 DEF Registry!RegisterCounts
<1>4. CASE Registry!ReplaceStores(h)  BY <1>4 DEF Registry!ReplaceStores
<1>5. CASE Registry!DisableStores(h)  BY <1>5 DEF Registry!DisableStores
<1>6. CASE Registry!DisableCounts(h)  BY <1>6 DEF Registry!DisableCounts
<1> QED  BY <1>1, <1>2, <1>3, <1>4, <1>5, <1>6 DEF Registry!HandleStep

-----------------------------------------------------------------------------
(* What one handle does, another does not notice.                           *)
LEMMA OneHandleMoves ==
    ASSUME EInv, NEW e \in Exporter, InCall(e)', HasGenerations(e)',
           \A k \in Handle \ {e} : hpc'[k] = hpc[k] /\ own'[k] = own[k] /\ new'[k] = new[k],
           \A f \in Exporter \ {e} : epc'[f] = epc[f] /\ gen'[f] = gen[f] /\ other'[f] = other[f],
           {gen'[e], other'[e]} \subseteq {gen[e], other[e], None} \cup (Callback \ used),
           stopping \subseteq stopping',
           \A g : g # None /\ g \notin {gen[e], other[e]} /\ Live(g) => Live(g)'
    PROVE  Handles'
<1>0. Handles /\ Types  BY DEF EInv
<1>1. ASSUME NEW f \in Exporter \ {e} PROVE InCall(f)' /\ HasGenerations(f)'
  <2>1. InCall(f) /\ HasGenerations(f) /\ Apart(e, f)  BY <1>0 DEF Handles
  <2>2. hpc'[f] = hpc[f] /\ own'[f] = own[f] /\ new'[f] = new[f]  BY GenerationsAssumption
  <2>3. \A g \in {gen[f], other[f]} \ {None} : Live(g) => Live(g)'  BY <2>1 DEF Apart
  <2> QED  BY <2>1, <2>2, <2>3, Unaffected
<1>2. ASSUME NEW f \in Exporter \ {e} PROVE Apart(e, f)' /\ Apart(f, e)'
  <2>1. Apart(e, f)  BY <1>0 DEF Handles
  <2>2. {gen[f], other[f]} \subseteq used \cup {None}  BY <1>0 DEF Types
  <2>3. gen'[f] = gen[f] /\ other'[f] = other[f]  OBVIOUS
  <2> QED  BY <2>1, <2>2, <2>3 DEF Apart
<1>3. ASSUME NEW f \in Exporter \ {e}, NEW k \in Exporter \ {e}, f # k PROVE Apart(f, k)'
  BY <1>0, <1>3 DEF Handles, Apart
<1> QED  BY <1>1, <1>2, <1>3 DEF Handles

LEMMA NoHandleMoves ==
    ASSUME EInv, UNCHANGED exporterVars, stopping \subseteq stopping',
           \A f \in Exporter : hpc'[f] = hpc[f] /\ own'[f] = own[f] /\ new'[f] = new[f],
           \A g \in Callback : Live(g) => Live(g)'
    PROVE  Handles'
<1>0. Handles /\ Types /\ used \subseteq Callback
  BY DEF EInv, IInv, Shape, Registry!TypeOK
<1>1. ASSUME NEW f \in Exporter PROVE InCall(f)' /\ HasGenerations(f)'
  <2>1. InCall(f) /\ HasGenerations(f)  BY <1>0 DEF Handles
  <2>2. \A g \in {gen[f], other[f]} \ {None} : Live(g) => Live(g)'  BY <1>0 DEF Types
  <2> QED  BY <2>1, <2>2, Unaffected DEF exporterVars
<1>2. \A e, f \in Exporter : e # f => Apart(e, f)'  BY <1>0 DEF Handles, Apart, exporterVars
<1> QED  BY <1>1, <1>2 DEF Handles

LEMMA ExportersCall ==
    ASSUME EInv, NEW h \in Handle, Registry!HandleStep(h), UNCHANGED <<generationVars, exporterVars>>
    PROVE  Handles'
<1>0. Handles  BY DEF EInv
<1> USE DEF generationVars, exporterVars
<1>1. \A e, f \in Exporter : e # f => Apart(e, f)'  BY <1>0 DEF Handles, Apart
<1>2. ASSUME NEW f \in Exporter PROVE InCall(f)' /\ HasGenerations(f)'
  <2>1. InCall(f) /\ HasGenerations(f)  BY <1>0 DEF Handles
  <2>2. \A g : Live(g)' <=> Live(g)  BY DEF Live
  <2>3. CASE h # f
    BY <2>1, <2>2, <2>3, CallProceeds, Unaffected, GenerationsAssumption
  <2>4. CASE h = f
    <3>1. hpc[f] \notin {"free", "held"}  BY <2>4, CallProceeds
    <3>2. HasGenerations(f)'  BY <2>1 DEF HasGenerations
    <3>3. (Live(gen[f])' <=> Live(gen[f])) /\ (Live(other[f])' <=> Live(other[f]))
      BY DEF Live
    <3>4. /\ hpc[f] \in {"reg_lock", "reg_store", "reg_count"} =>
                 \/ hpc'[f] \in {"reg_store", "reg_count"} /\ new'[f] = new[f]
                 \/ hpc'[f] = "held" /\ own'[f] = new[f]
                 \/ hpc'[f] = "free"
          /\ hpc[f] \in {"rep_lock", "rep_store"} =>
                 \/ hpc'[f] = "rep_store" /\ own'[f] = own[f] /\ new'[f] = new[f]
                 \/ hpc'[f] = "held" /\ own'[f] \in {own[f], new[f]}
          /\ hpc[f] \in {"dis_lock", "dis_store", "dis_count"} =>
                 hpc'[f] \in {"dis_store", "dis_count", "free"}
      BY <2>4, CallProceeds
    <3>5. epc[f] \notin {"none", "open", "draining", "ending"}  BY <2>1, <3>1 DEF InCall
    <3>6. CASE epc[f] = "installing"
      BY <2>1, <3>1, <3>2, <3>3, <3>4, <3>6 DEF InCall, Registering, Waiting
    <3>7. CASE epc[f] = "replacing"
      BY <2>1, <3>1, <3>2, <3>3, <3>4, <3>7 DEF InCall, Replacing, Waiting
    <3>8. CASE epc[f] \in {"shutting", "dropping"}
      BY <2>1, <3>1, <3>2, <3>3, <3>4, <3>8 DEF InCall, Releasing, Waiting
    <3>9. epc[f] \in {"none", "installing", "open", "replacing", "shutting", "dropping"} \cup Waiting
      BY DEF EInv, Types
    <3> QED  BY <3>5, <3>6, <3>7, <3>8, <3>9 DEF Waiting
  <2> QED  BY <2>3, <2>4
<1> QED  BY <1>1, <1>2 DEF Handles

-----------------------------------------------------------------------------
(* The steps of an exporter handle, one by one.                             *)
LEMMA InstallStep ==
    ASSUME EInv, NEW e \in Exporter, NEW g \in Callback, Install(e, g) \/ Reconfigure(e, g)
    PROVE  Handles'
<1>0. Types /\ Registry!TypeOK /\ InCall(e) /\ HasGenerations(e) /\ g # None
  BY GenerationsAssumption DEF EInv, IInv, Shape, Handles
<1>1. /\ g \notin used
      /\ new' = [new EXCEPT ![e] = g] /\ UNCHANGED <<own, stopping, aborting>>
      /\ accepting' = accepting \cup {g} /\ worker' = [worker EXCEPT ![g] = "running"]
  BY DEF Install, Reconfigure, Prepare, Registry!RegisterCalls, Registry!ReplaceCalls, Registry!Prepare
<1>2. Live(g)' /\ \A x : Live(x) => Live(x)'
  BY <1>0, <1>1 DEF Live, Types
<1>3. g \notin {gen[e], other[e]}  BY <1>0, <1>1 DEF Types
<1>4. CASE Install(e, g)
  <2>1. /\ epc[e] = "none" /\ epc' = [epc EXCEPT ![e] = "installing"]
        /\ gen' = [gen EXCEPT ![e] = g] /\ UNCHANGED other
        /\ hpc' = [hpc EXCEPT ![e] = "reg_lock"]
    BY <1>4 DEF Install, Goto, Registry!RegisterCalls, Registry!Prepare, Registry!Goto
  <2>2. epc'[e] = "installing" /\ gen'[e] = g /\ other'[e] = None /\ hpc'[e] = "reg_lock" /\ new'[e] = g
    BY <1>0, <1>1, <2>1, GenerationsAssumption DEF Types, Registry!TypeOK, HasGenerations, Waiting
  <2>3. InCall(e)' /\ HasGenerations(e)'
    BY <1>0, <1>2, <2>2 DEF InCall, HasGenerations, Registering, Waiting
  <2> QED  BY <1>0, <1>1, <1>2, <2>1, <2>2, <2>3, OneHandleMoves DEF Types, Registry!TypeOK
<1>5. CASE Reconfigure(e, g)
  <2>1. /\ epc[e] = "open" /\ epc' = [epc EXCEPT ![e] = "replacing"]
        /\ other' = [other EXCEPT ![e] = g] /\ UNCHANGED gen
        /\ hpc' = [hpc EXCEPT ![e] = "rep_lock"]
    BY <1>5 DEF Reconfigure, Goto, Registry!ReplaceCalls, Registry!Prepare, Registry!Goto
  <2>2. epc'[e] = "replacing" /\ other'[e] = g /\ hpc'[e] = "rep_lock" /\ new'[e] = g
    BY <1>0, <1>1, <2>1, GenerationsAssumption DEF Types, Registry!TypeOK
  <2>3. Live(gen[e]) /\ own[e] = gen[e] /\ gen[e] # None
    BY <1>0, <2>1 DEF InCall, HasGenerations
  <2>4. InCall(e)' /\ HasGenerations(e)'
    BY <1>0, <1>1, <1>2, <1>3, <2>1, <2>2, <2>3 DEF InCall, HasGenerations, Replacing, Waiting
  <2> QED  BY <1>0, <1>1, <1>2, <2>1, <2>2, <2>4, OneHandleMoves DEF Types, Registry!TypeOK
<1> QED  BY <1>4, <1>5

LEMMA CloseStep ==
    ASSUME EInv, NEW e \in Exporter, Shutdown(e) \/ Drop(e)
    PROVE  Handles'
<1>0. Types /\ Registry!TypeOK /\ InCall(e) /\ HasGenerations(e)
  BY DEF EInv, IInv, Shape, Handles
<1>1. PICK place \in {"shutting", "dropping"} : Closes(e, place)
  BY DEF Shutdown, Drop
<1>2. /\ epc[e] = "open" /\ epc' = [epc EXCEPT ![e] = place]
      /\ hpc' = [hpc EXCEPT ![e] = "dis_lock"]
      /\ UNCHANGED <<own, new, used, gen, other, aborting, worker>>
      /\ accepting' = accepting \ {gen[e]} /\ stopping' = stopping \cup {gen[e]}
  BY <1>1 DEF Closes, StopAcceptance, Goto, Registry!DisableCalls, Registry!Goto
<1>3. epc'[e] = place /\ hpc'[e] = "dis_lock" /\ gen'[e] \in stopping'
  BY <1>0, <1>2, GenerationsAssumption DEF Types, Registry!TypeOK
<1>4. InCall(e)' /\ HasGenerations(e)'
  BY <1>0, <1>2, <1>3 DEF InCall, HasGenerations, Releasing, Waiting
<1>5. \A g : g # gen[e] /\ Live(g) => Live(g)'  BY <1>2 DEF Live
<1> QED  BY <1>0, <1>2, <1>4, <1>5, OneHandleMoves DEF Types, Registry!TypeOK

(* What the steps without a call of the registry have in common.            *)
LEMMA OwnStep ==
    ASSUME EInv, NEW e \in Exporter, InCall(e)', HasGenerations(e)', UNCHANGED registryVars,
           NEW place, epc' = [epc EXCEPT ![e] = place],
           NEW g, gen' = [gen EXCEPT ![e] = g], NEW o, other' = [other EXCEPT ![e] = o],
           {g, o} \subseteq {gen[e], other[e], None}, stopping \subseteq stopping',
           \A x : x # None /\ x \notin {gen[e], other[e]} /\ Live(x) => Live(x)'
    PROVE  Handles'
<1>0. Types  BY DEF EInv
<1>1. gen'[e] = g /\ other'[e] = o  BY <1>0 DEF Types
<1> QED  BY <1>0, <1>1, OneHandleMoves DEF Types, registryVars

LEMMA InstallEndsStep ==
    ASSUME EInv, NEW e \in Exporter, InstallFails(e) \/ InstallSucceeds(e)
    PROVE  Handles'
<1>0. Types /\ InCall(e) /\ HasGenerations(e)  BY DEF EInv, Handles
<1>1. CASE InstallFails(e)
  <2>1. /\ epc[e] = "installing" /\ hpc'[e] = "free" /\ epc' = [epc EXCEPT ![e] = "none"]
        /\ gen' = [gen EXCEPT ![e] = None] /\ UNCHANGED <<other, worker, registryVars>>
        /\ accepting' = accepting \ {gen[e]} /\ stopping' = stopping \cup {gen[e]}
        /\ aborting' \in {aborting, aborting \cup {gen[e]}}
    BY <1>1 DEF InstallFails, StopAcceptance, Abort, Goto, registryVars
  <2>2. epc'[e] = "none" /\ gen'[e] = None /\ other'[e] = None
    BY <1>0, <2>1 DEF Types, HasGenerations, Waiting
  <2>3. InCall(e)' /\ HasGenerations(e)'
    BY <2>1, <2>2 DEF InCall, HasGenerations, Waiting
  <2>4. \A x : x # gen[e] /\ Live(x) => Live(x)'  BY <2>1 DEF Live
  <2>5. other' = [other EXCEPT ![e] = None]
    BY <1>0, <2>1, <2>2 DEF Types
  <2> QED  BY <2>1, <2>3, <2>4, <2>5, OwnStep
<1>2. CASE InstallSucceeds(e)
  <2>1. /\ epc[e] = "installing" /\ hpc[e] = "held" /\ epc' = [epc EXCEPT ![e] = "open"]
        /\ UNCHANGED <<gen, other, worker, accepting, stopping, aborting, registryVars>>
    BY <1>2 DEF InstallSucceeds, Goto, generationVars
  <2>2. epc'[e] = "open" /\ Live(gen[e]) /\ own[e] = gen[e] /\ UNCHANGED <<hpc, own>>
    BY <1>0, <2>1 DEF Types, InCall, Registering, registryVars
  <2>3. \A x : Live(x) => Live(x)'  BY <2>1 DEF Live
  <2>4. InCall(e)' /\ HasGenerations(e)'
    BY <1>0, <2>1, <2>2, <2>3 DEF InCall, HasGenerations, Waiting
  <2>5. gen' = [gen EXCEPT ![e] = gen[e]] /\ other' = [other EXCEPT ![e] = other[e]]
    BY <1>0, <2>1 DEF Types
  <2> QED  BY <2>1, <2>3, <2>4, <2>5, OwnStep
<1> QED  BY <1>1, <1>2

LEMMA ReplaceEndsStep ==
    ASSUME EInv, NEW e \in Exporter, ReplaceEnds(e)
    PROVE  Handles'
<1>0. /\ Types /\ InCall(e) /\ HasGenerations(e)
      /\ epc[e] = "replacing" /\ hpc[e] = "held" /\ UNCHANGED registryVars
  BY DEF EInv, Handles, ReplaceEnds
<1>1. /\ Live(gen[e]) /\ Live(other[e]) /\ own[e] \in {gen[e], other[e]}
      /\ gen[e] # None /\ other[e] # None /\ gen[e] # other[e]
  BY <1>0 DEF InCall, HasGenerations, Replacing
<1>2. UNCHANGED <<hpc, own>>  BY <1>0 DEF registryVars
<1>3. CASE own[e] = other[e]
  <2>1. /\ epc' = [epc EXCEPT ![e] = "draining"]
        /\ gen' = [gen EXCEPT ![e] = other[e]] /\ other' = [other EXCEPT ![e] = gen[e]]
        /\ accepting' = accepting \ {gen[e]} /\ stopping' = stopping \cup {gen[e]}
        /\ UNCHANGED <<aborting, worker>>
    BY <1>3 DEF ReplaceEnds, StopAcceptance, Goto
  <2>2. epc'[e] = "draining" /\ gen'[e] = other[e] /\ other'[e] = gen[e]
    BY <1>0, <2>1 DEF Types
  <2>3. \A x : x # gen[e] /\ Live(x) => Live(x)'  BY <2>1 DEF Live
  <2>4. InCall(e)' /\ HasGenerations(e)'
    <3>1. HasGenerations(e)'  BY <1>1, <2>2 DEF HasGenerations, Waiting
    <3>2. Live(gen[e])'  BY <1>1, <2>1, <2>2 DEF Live
    <3>3. InCall(e)'  BY <1>0, <1>2, <1>3, <2>1, <2>2, <3>2 DEF InCall, Waiting
    <3> QED  BY <3>1, <3>3
  <2> QED  BY <1>0, <2>1, <2>3, <2>4, OwnStep
<1>4. CASE own[e] # other[e]
  <2>1. /\ epc' = [epc EXCEPT ![e] = "open"]
        /\ other' = [other EXCEPT ![e] = None] /\ UNCHANGED <<gen, accepting, stopping, worker>>
        /\ aborting' \in {aborting, aborting \cup {other[e]}}
    BY <1>4 DEF ReplaceEnds, Abort, Goto
  <2>2. epc'[e] = "open" /\ other'[e] = None /\ gen' = [gen EXCEPT ![e] = gen[e]]
    BY <1>0, <2>1 DEF Types
  <2>3. \A x : x # other[e] /\ Live(x) => Live(x)'  BY <2>1 DEF Live
  <2>4. InCall(e)' /\ HasGenerations(e)'
    BY <1>0, <1>1, <1>2, <1>4, <2>1, <2>2, <2>3 DEF InCall, HasGenerations, Waiting
  <2> QED  BY <1>0, <2>1, <2>2, <2>3, <2>4, OwnStep
<1> QED BY <1>3, <1>4

LEMMA ReleasedStep ==
    ASSUME EInv, NEW e \in Exporter, SinkReleased(e)
    PROVE  Handles'
<1>0. /\ Types /\ InCall(e) /\ HasGenerations(e)
      /\ hpc[e] = "free" /\ UNCHANGED <<registryVars, accepting, stopping, worker>>
  BY DEF EInv, Handles, SinkReleased
<1>1. UNCHANGED hpc  BY <1>0 DEF registryVars
<1>2. CASE epc[e] = "shutting"
  <2>1. /\ epc' = [epc EXCEPT ![e] = "ending"] /\ other' = [other EXCEPT ![e] = gen[e]]
        /\ UNCHANGED <<gen, aborting>>
    BY <1>2 DEF SinkReleased, Goto
  <2>2. epc'[e] = "ending" /\ other'[e] = gen[e] /\ gen[e] \in stopping /\ gen[e] # None
    BY <1>0, <1>2, <2>1 DEF Types, InCall, HasGenerations
  <2>3. InCall(e)' /\ HasGenerations(e)'
    BY <1>0, <1>1, <2>1, <2>2 DEF InCall, HasGenerations, Waiting
  <2>4. \A x : Live(x) => Live(x)'  BY <1>0, <2>1 DEF Live
  <2>5. gen' = [gen EXCEPT ![e] = gen[e]]  BY <1>0, <2>1 DEF Types
  <2> QED  BY <1>0, <2>1, <2>3, <2>4, <2>5, OwnStep
<1>3. CASE epc[e] = "dropping"
  <2>1. /\ epc' = [epc EXCEPT ![e] = "none"] /\ gen' = [gen EXCEPT ![e] = None]
        /\ other' = [other EXCEPT ![e] = None]
        /\ aborting' \in {aborting, aborting \cup {gen[e]}}
    BY <1>3 DEF SinkReleased, HandleGone, Goto, Abort
  <2>2. epc'[e] = "none" /\ gen'[e] = None /\ other'[e] = None
    BY <1>0, <2>1 DEF Types
  <2>3. InCall(e)' /\ HasGenerations(e)'
    BY <1>0, <1>1, <2>2 DEF InCall, HasGenerations, Waiting
  <2>4. \A x : x # gen[e] /\ Live(x) => Live(x)'  BY <1>0, <2>1 DEF Live
  <2> QED  BY <1>0, <2>1, <2>3, <2>4, OwnStep
<1> QED  BY <1>2, <1>3 DEF SinkReleased

LEMMA TimesOutStep ==
    ASSUME EInv, NEW e \in Exporter, DrainTimesOut(e)
    PROVE  Handles'
<1>0. /\ Types /\ InCall(e) /\ HasGenerations(e) /\ epc[e] \in Waiting
      /\ UNCHANGED <<registryVars, accepting, stopping, worker, exporterVars>>
      /\ aborting' \in {aborting, aborting \cup {other[e]}}
  BY DEF EInv, Handles, DrainTimesOut, Abort
<1>1. \A x : x # other[e] /\ Live(x) => Live(x)'  BY <1>0 DEF Live
<1>2. UNCHANGED <<hpc, own, new, epc, gen, other>>  BY <1>0 DEF registryVars, exporterVars
<1>3. epc[e] = "draining" => Live(gen[e]) /\ Live(gen[e])'
  BY <1>0, <1>1, <1>2 DEF InCall, HasGenerations, Waiting
<1>4. InCall(e)' /\ HasGenerations(e)'
  BY <1>0, <1>2, <1>3 DEF InCall, HasGenerations, Waiting
<1>5. /\ epc' = [epc EXCEPT ![e] = epc[e]] /\ gen' = [gen EXCEPT ![e] = gen[e]]
      /\ other' = [other EXCEPT ![e] = other[e]]
  BY <1>0, <1>2 DEF Types
<1> QED  BY <1>0, <1>1, <1>4, <1>5, OwnStep

LEMMA DrainReturnsStep ==
    ASSUME EInv, NEW e \in Exporter, Cancelled(e) \/ DrainEnds(e)
    PROVE  Handles'
<1>0. /\ Types /\ InCall(e) /\ HasGenerations(e)
      /\ UNCHANGED <<registryVars, accepting, stopping, aborting, worker>>
      /\ DrainReturns(e)
  BY DEF EInv, Handles, Cancelled, DrainEnds, DrainReturns
<1>1. (\A x : Live(x) => Live(x)') /\ UNCHANGED <<hpc, own>>
  BY <1>0 DEF Live, registryVars
<1>2. CASE epc[e] = "draining"
  <2>1. /\ epc' = [epc EXCEPT ![e] = "open"] /\ UNCHANGED gen
        /\ other' = [other EXCEPT ![e] = None]
    BY <1>0, <1>2 DEF DrainReturns, Goto
  <2>2. /\ epc'[e] = "open" /\ other'[e] = None /\ gen' = [gen EXCEPT ![e] = gen[e]]
    BY <1>0, <2>1 DEF Types
  <2>3. InCall(e)' /\ HasGenerations(e)'
    BY <1>0, <1>1, <1>2, <2>1, <2>2 DEF InCall, HasGenerations, Waiting
  <2> QED  BY <1>0, <1>1, <2>1, <2>2, <2>3, OwnStep
<1>3. CASE epc[e] = "ending"
  <2>1. /\ epc' = [epc EXCEPT ![e] = "none"] /\ gen' = [gen EXCEPT ![e] = None]
        /\ other' = [other EXCEPT ![e] = None]
    BY <1>0, <1>3 DEF DrainReturns, HandleGone, Goto
  <2>2. epc'[e] = "none" /\ gen'[e] = None /\ other'[e] = None
    BY <1>0, <2>1 DEF Types
  <2>3. InCall(e)' /\ HasGenerations(e)'
    BY <1>0, <1>1, <1>3, <2>2 DEF InCall, HasGenerations, Waiting
  <2> QED  BY <1>0, <1>1, <2>1, <2>3, OwnStep
<1> QED  BY <1>0, <1>2, <1>3 DEF DrainReturns

-----------------------------------------------------------------------------
LEMMA HandlesStep == EInv /\ [Next]_vars => Handles'
<1> SUFFICES ASSUME EInv, [Next]_vars PROVE Handles'
  OBVIOUS
<1>0. Types /\ Registry!TypeOK  BY DEF EInv, IInv, Shape
<1>1. ASSUME UNCHANGED <<exporterVars, accepting, stopping, aborting, worker, hpc, own, new>>
      PROVE  Handles'
  <2>1. \A g : Live(g) => Live(g)'  BY <1>1 DEF Live
  <2> QED  BY <1>1, <2>1, NoHandleMoves
<1>2. CASE RegistrySteps
  <2>1. UNCHANGED <<generationVars, exporterVars>>  BY <1>2 DEF RegistrySteps
  <2>2. CASE \E h \in Handle : Registry!HandleStep(h)
    BY <2>1, <2>2, ExportersCall
  <2>3. ASSUME NEW h \in Plain, \/ Registry!DisableCalls(h) \/ Registry!Forget(h)
                                \/ \E c \in Callback : Registry!RegisterCalls(h, c) \/ Registry!ReplaceCalls(h, c)
        PROVE  Handles'
    <3>1. \A f \in Exporter : hpc'[f] = hpc[f] /\ own'[f] = own[f] /\ new'[f] = new[f]
      BY <1>0, <2>3, GenerationsAssumption
         DEF Registry!DisableCalls, Registry!Forget, Registry!RegisterCalls, Registry!ReplaceCalls,
             Registry!Prepare, Registry!Goto, Registry!TypeOK, Plain
    <3>2. \A g : Live(g) => Live(g)'  BY <2>1 DEF Live, generationVars
    <3> QED  BY <2>1, <3>1, <3>2, NoHandleMoves DEF generationVars
  <2> QED  BY <1>2, <2>2, <2>3 DEF RegistrySteps
<1>3. ASSUME NEW t \in Thread, \/ \E T \in Type : Registry!Dispatch(t, T)
                               \/ Registry!LoadActive(t) \/ Registry!Resolve(t)
                               \/ Registry!LoadCallback(t) \/ Registry!CallbackReturns(t),
             UNCHANGED <<generationVars, exporterVars>>
      PROVE  Handles'
  BY <1>1, <1>3, ThreadsLeaveHandles DEF generationVars
<1>4. CASE ThreadSteps
  BY <1>3, <1>4 DEF ThreadSteps
<1>5. ASSUME NEW t \in Thread, (\E T \in Type : Dispatch(t, T)) \/ CallbackReturns(t) PROVE Handles'
  BY <1>3, <1>5 DEF Dispatch, CallbackReturns
<1>6. ASSUME NEW t \in Thread, CheckAccepting(t) \/ Submit(t) PROVE Handles'
  BY <1>1, <1>6 DEF CheckAccepting, Submit, registryVars, generationVars
<1>7. ASSUME NEW g \in Callback, WorkerSteps(g) PROVE Handles'
  <2>1. UNCHANGED <<registryVars, accepting, stopping, exporterVars>>  BY <1>0, <1>7, WorkerFacts
  <2>2. \A x \in Callback : Live(x) => Live(x)'
    <3>1. PICK place \in Alive \cup Done : worker' = [worker EXCEPT ![g] = place]
      BY <1>0, <1>7, WorkerFacts
    <3>2. aborting' \subseteq aborting  BY <1>0, <1>7, WorkerFacts
    <3>3. Live(g) => worker'[g] \in {"running", "parked"}
      BY <1>0, <1>7, WorkerFacts DEF Live
    <3>4. \A x \in Callback \ {g} : worker'[x] = worker[x]
      BY <1>0, <3>1 DEF Types
    <3> QED  BY <2>1, <3>2, <3>3, <3>4 DEF Live
  <2> QED  BY <2>1, <2>2, NoHandleMoves DEF registryVars
<1>8. ASSUME NEW e \in Exporter, \E g \in Callback : Install(e, g) \/ Reconfigure(e, g)
      PROVE  Handles'
  BY <1>8, InstallStep
<1>9. ASSUME NEW e \in Exporter, Shutdown(e) \/ Drop(e) \/ Cancelled(e) \/ HandleSteps(e)
      PROVE  Handles'
  BY <1>9, CloseStep, InstallEndsStep, ReplaceEndsStep, ReleasedStep, TimesOutStep, DrainReturnsStep
     DEF HandleSteps
<1>10. CASE UNCHANGED vars
  BY <1>1, <1>10 DEF vars, registryVars, generationVars
<1> QED  BY <1>2, <1>4, <1>5, <1>6, <1>7, <1>8, <1>9, <1>10 DEF Next
-----------------------------------------------------------------------------
(* Who lets go of a living worker has told it to abort, or stopped it and   *)
(* left it to itself.                                                       *)
LEMMA KeptStays ==
    ASSUME EInv, [Next]_vars, NEW g \in Callback, Kept(g), worker[g] \in Alive, worker'[g] \in Alive
    PROVE  Kept(g)'
<1>0. /\ Types /\ Registry!TypeOK /\ g # None
      /\ \A e \in Exporter : InCall(e) /\ HasGenerations(e)
  BY GenerationsAssumption DEF EInv, IInv, Shape, Handles
<1>1. ASSUME UNCHANGED <<exporterVars, stopping, aborting, detached>> PROVE Kept(g)'
  BY <1>1 DEF Kept, exporterVars
<1>2. CASE RegistrySteps \/ ThreadSteps \/ UNCHANGED vars
  BY <1>1, <1>2 DEF RegistrySteps, ThreadSteps, vars, generationVars
<1>3. ASSUME NEW t \in Thread, \/ \E T \in Type : Dispatch(t, T)
                               \/ CheckAccepting(t) \/ Submit(t) \/ CallbackReturns(t)
      PROVE  Kept(g)'
  BY <1>1, <1>3 DEF Dispatch, CheckAccepting, Submit, CallbackReturns, generationVars
<1>4. ASSUME NEW x \in Callback, WorkerSteps(x) PROVE Kept(g)'
  <2>1. UNCHANGED <<stopping, exporterVars>>  BY <1>0, <1>4, WorkerFacts
  <2>2. (g \in aborting => g \in aborting') /\ (g \in detached => g \in detached')
    BY <1>0, <1>4, WorkerFacts DEF Alive, Done
  <2> QED  BY <2>1, <2>2 DEF Kept, exporterVars
<1>5. ASSUME NEW e \in Exporter, UNCHANGED detached,
             aborting \subseteq aborting', stopping \subseteq stopping',
             \A f \in Exporter \ {e} : gen'[f] = gen[f] /\ other'[f] = other[f],
             g \in {gen[e], other[e]} => g \in {gen'[e], other'[e]} \cup aborting'
      PROVE  Kept(g)'
  BY <1>5 DEF Kept
<1> USE <1>0 DEF Types
<1>6. ASSUME NEW e \in Exporter, NEW x \in Callback, Install(e, x) PROVE Kept(g)'
  <2>1. gen[e] = None  BY <1>6 DEF Install, InCall
  <2> QED  BY <1>5, <1>6, <2>1 DEF Install, Prepare
<1>7. ASSUME NEW e \in Exporter, NEW x \in Callback, Reconfigure(e, x) PROVE Kept(g)'
  <2>1. other[e] = None  BY <1>7 DEF Reconfigure, HasGenerations, Waiting
  <2> QED  BY <1>5, <1>7, <2>1 DEF Reconfigure, Prepare
<1>8. ASSUME NEW e \in Exporter, Shutdown(e) \/ Drop(e) PROVE Kept(g)'
  BY <1>5, <1>8 DEF Shutdown, Drop, Closes, StopAcceptance
<1>9. ASSUME NEW e \in Exporter, InstallFails(e) \/ InstallSucceeds(e) PROVE Kept(g)'
  BY <1>5, <1>9 DEF InstallFails, InstallSucceeds, StopAcceptance, Abort, generationVars
<1>10. ASSUME NEW e \in Exporter, ReplaceEnds(e) PROVE Kept(g)'
  BY <1>5, <1>10 DEF ReplaceEnds, StopAcceptance, Abort
<1>11. ASSUME NEW e \in Exporter, SinkReleased(e) PROVE Kept(g)'
  <2>1. other[e] = None  BY <1>11 DEF SinkReleased, HasGenerations, Waiting
  <2> QED  BY <1>5, <1>11, <2>1 DEF SinkReleased, Abort, HandleGone
<1>12. ASSUME NEW e \in Exporter, DrainTimesOut(e) PROVE Kept(g)'
  BY <1>5, <1>12 DEF DrainTimesOut, Abort, exporterVars
<1>13. ASSUME NEW e \in Exporter, DrainEnds(e) PROVE Kept(g)'
  <2>1. g # other[e]  BY <1>13 DEF DrainEnds, Alive, Done
  <2>2. epc[e] = "ending" => g # gen[e]  BY <2>1 DEF InCall
  <2> QED  BY <1>5, <1>13, <2>1, <2>2 DEF DrainEnds, DrainReturns, HandleGone
<1>14. ASSUME NEW e \in Exporter, Cancelled(e) PROVE Kept(g)'
  <2>1. /\ detached' = detached \cup {other[e]} /\ UNCHANGED <<stopping, aborting>>
        /\ \A f \in Exporter \ {e} : gen'[f] = gen[f] /\ other'[f] = other[f]
    BY <1>14 DEF Cancelled, DrainReturns, HandleGone
  <2>2. CASE g = other[e]  BY <1>14, <2>1, <2>2 DEF Cancelled, InCall, Kept
  <2>3. CASE g # other[e]
    <3>1. epc[e] = "ending" => g # gen[e]  BY <2>3 DEF InCall
    <3>2. g = gen[e] => g = gen'[e]  BY <1>14, <3>1 DEF Cancelled, DrainReturns
    <3> QED  BY <2>1, <2>3, <3>2 DEF Kept
  <2> QED  BY <2>2, <2>3
<1> QED
  BY <1>2, <1>3, <1>4, <1>6, <1>7, <1>8, <1>9, <1>10, <1>11, <1>12, <1>13, <1>14
  DEF Next, HandleSteps

LEMMA LivingStep == EInv /\ [Next]_vars => LivingAreKept'
<1> SUFFICES ASSUME EInv, [Next]_vars, NEW g \in Callback, worker'[g] \in Alive PROVE Kept(g)'
  BY DEF LivingAreKept
<1>0. Types /\ Registry!TypeOK  BY DEF EInv, IInv, Shape
<1>1. CASE worker[g] \in Alive
  BY <1>1, KeptStays DEF EInv, LivingAreKept
<1>2. ASSUME NEW e \in Exporter, Install(e, g) \/ Reconfigure(e, g) PROVE Kept(g)'
  BY <1>0, <1>2 DEF Install, Reconfigure, Kept, Types
<1> QED  BY <1>0, <1>1, <1>2, WorkersMove, WorkerFacts

-----------------------------------------------------------------------------
LEMMA InitEInv == Init => EInv
<1> SUFFICES ASSUME Init PROVE EInv
  OBVIOUS
<1> USE GenerationsAssumption DEF Init
<1>1. Types  BY DEF Types
<1>2. Handles
  BY DEF Handles, InCall, HasGenerations, Apart, Waiting, Registry!Init
<1>3. LivingAreKept /\ StoppedIsClosed  BY DEF LivingAreKept, StoppedIsClosed, Alive
<1> QED  BY <1>1, <1>2, <1>3, InitInvariant DEF EInv

LEMMA HandlesInvariant == Spec => []EInv
<1>1. EInv /\ [Next]_vars => IInv'
  BY EveryStepOfRegistry, ShapeStep, CountStep, PlacesStep, DispatchingStep DEF EInv, IInv
<1>2. EInv /\ [Next]_vars => EInv'
  BY <1>1, TypesStep, HandlesStep, LivingStep, StoppedStep DEF EInv
<1> QED  BY <1>2, InitEInv, PTL DEF Spec

(* An open handle works: its slot routes to its generation, which accepts   *)
(* and whose worker nobody stops, through refused installs, failed          *)
(* replacements, timed-out drains and abandoned awaits.                     *)
THEOREM OpenHandleAlwaysWorks == Spec => []OpenHandleWorks
<1>1. EInv => OpenHandleWorks
  BY GenerationsAssumption
     DEF EInv, IInv, Places, Routed, Routing, Registry!Installed, Handles, InCall, Live, OpenHandleWorks
<1> QED  BY <1>1, HandlesInvariant, PTL

(* A worker that lives is a handle's, was told to abort, or drains on its   *)
(* own after its caller stopped awaiting the drain.                         *)
THEOREM NoWorkerEverLeaked == Spec => []NoWorkerLeaked
<1>1. EInv => TypeOK
  <2> SUFFICES ASSUME EInv PROVE TypeOK
    OBVIOUS
  <2>1. Registry!TypeOK /\ Types /\ used \subseteq Callback
    BY DEF EInv, IInv, Shape, Registry!TypeOK
  <2>2. {accepting, stopping, aborting, detached} \subseteq SUBSET Callback
    BY <2>1 DEF Types
  <2>3. gen \in [Exporter -> Callback \cup {None}] /\ other \in [Exporter -> Callback \cup {None}]
    BY <2>1 DEF Types
  <2> QED  BY <2>1, <2>2, <2>3 DEF TypeOK, Types
<1>2. EInv => NoWorkerLeaked
  BY <1>1 DEF EInv, LivingAreKept, Kept, NoWorkerLeaked
<1> QED  BY <1>2, HandlesInvariant, PTL

(* Once a worker has stopped by itself, no thread submits to its generation *)
(* any more: the fence it waits for is closed for good.                     *)
THEOREM QuietWorkersStayQuiet == Spec => QuietOnceStopped
<1> DEFINE Quiet == \A g \in Callback : worker[g] = "stopped" => backlog'[g] = backlog[g]
<1>1. ASSUME EInv, Next, NEW g \in Callback, worker[g] = "stopped" PROVE backlog'[g] = backlog[g]
  <2>0. Types /\ Registry!TypeOK /\ Closed(g)  BY <1>1 DEF EInv, IInv, Shape, StoppedIsClosed
  <2>1. CASE RegistrySteps \/ ThreadSteps
    BY <2>1 DEF RegistrySteps, ThreadSteps, generationVars
  <2>2. ASSUME NEW t \in Thread, \/ \E T \in Type : Dispatch(t, T)
                                 \/ CheckAccepting(t) \/ CallbackReturns(t)
        PROVE  backlog' = backlog
    BY <2>2 DEF Dispatch, CheckAccepting, CallbackReturns, generationVars
  <2>3. ASSUME NEW t \in Thread, Submit(t) PROVE backlog'[g] = backlog[g]
    BY <2>0, <2>3 DEF Submit, Closed, Types
  <2>4. ASSUME NEW x \in Callback, WorkerSteps(x) PROVE backlog'[g] = backlog[g]
    <3>1. worker[x] \in Alive  BY <2>0, <2>4, WorkerFacts
    <3>2. x # g  BY <1>1, <3>1 DEF Alive
    <3> QED
      BY <2>0, <2>4, <3>2 DEF Types, WorkerSteps, WorkerSettles, WorkerFails, WorkerFindsNothing,
                             WorkerReadsFence, WorkerGivesUp, WorkerAborts
  <2>5. ASSUME NEW e \in Exporter, \E x \in Callback : Install(e, x) \/ Reconfigure(e, x)
        PROVE  backlog' = backlog
    BY <2>5 DEF Install, Reconfigure, Prepare
  <2>6. ASSUME NEW e \in Exporter, Shutdown(e) \/ Drop(e) \/ Cancelled(e) \/ HandleSteps(e)
        PROVE  backlog' = backlog
    BY <2>6 DEF Shutdown, Drop, Closes, Cancelled, HandleSteps, InstallFails, InstallSucceeds,
                ReplaceEnds, SinkReleased, DrainTimesOut, DrainEnds, DrainReturns, StopAcceptance,
                generationVars
  <2> QED  BY <1>1, <2>1, <2>2, <2>3, <2>4, <2>5, <2>6 DEF Next
<1>2. EInv /\ [Next]_vars => [Quiet]_vars
  BY <1>1
<1>3. Spec => [][Quiet]_vars
  BY <1>2, HandlesInvariant, PTL DEF Spec
<1> QED BY <1>3 DEF QuietOnceStopped
-----------------------------------------------------------------------------
(* Dispatches that no call of their handle overlaps.                        *)

(* An occupied slot can be found, and a thread outside has decided nothing. *)
SlotsAreKnown == \A T \in Type : slot[T] # None => T \in known
VisitsInside == \A t \in Thread : tpc[t] # "inside" => visit[t] = "out"

(* The handle a steady dispatch goes to, and how far the dispatch got.      *)
Serves(e, t) ==
    /\ TypeOf[e] = wanted[t] /\ epc[e] \in {"open", "draining"}
    /\ tpc[t] = "inside" => holds[t] = gen[e] /\ visit[t] \in {"out", "admitted", "taken", "full"}
SteadyAreServed ==
    \A t \in Thread : steady[t] /\ tpc[t] # "idle" => \E e \in Exporter : Serves(e, t)

SInv == EInv /\ SlotsAreKnown /\ VisitsInside /\ SteadyAreServed
-----------------------------------------------------------------------------
(* While a handle is open the count of active sinks is not zero, not even   *)
(* between the two stores of another handle's call.                         *)
LEMMA OpenIsCounted ==
    ASSUME EInv, NEW e \in Exporter, epc[e] \in {"open", "draining"}
    PROVE  active # 0 /\ slot[TypeOf[e]] = gen[e] /\ gen[e] \in used
<1> DEFINE T == TypeOf[e]
<1>0. /\ Shape /\ CountLags /\ Places /\ Types /\ InCall(e) /\ HasGenerations(e)
      /\ e \in Handle /\ T \in Type
  BY GenerationsAssumption DEF EInv, IInv, Handles
<1>1. hpc[e] = "held" /\ own[e] = gen[e] /\ gen[e] # None /\ slot[T] = gen[e]
  <2>1. hpc[e] = "held" /\ own[e] = gen[e] /\ gen[e] # None
    BY <1>0 DEF InCall, HasGenerations
  <2>2. Routed(e)  BY <1>0 DEF Places
  <2> QED  BY <2>1, <2>2 DEF Routed, Routing, Registry!Installed
<1>2. T \in Occupied  BY <1>0, <1>1 DEF Occupied
<1>3. Cardinality(Occupied) \in Nat /\ Cardinality(Occupied) # 0
  BY <1>2, OccupiedIsFinite, FS_EmptySet
<1>4. ASSUME \A h \in Handle : hpc[h] # "reg_count" PROVE active # 0
  <2>1. lock = None \/ \E h \in Handle : lock = h /\ hpc[h] \in Critical
    BY <1>0 DEF Shape, LockExcludes, Registry!TypeOK, Registry!None, None
  <2>2. active = Cardinality(Occupied) \/ active = Cardinality(Occupied) + 1
    BY <1>0, <1>4, <2>1 DEF CountLags, Critical
  <2> QED BY <1>3, <2>2
<1>5. ASSUME NEW h \in Handle, hpc[h] = "reg_count" PROVE active # 0
  <2>1. new[h] # None /\ slot[TypeOf[h]] = new[h] /\ own[e] # new[h] /\ TypeOf[h] \in Type
    BY <1>0, <1>5, GenerationsAssumption
       DEF Shape, HasCallbacks, Places, FreshElsewhere, Routed
  <2>2. TypeOf[h] # T /\ TypeOf[h] \in Occupied  BY <1>1, <2>1 DEF Occupied
  <2>3. Cardinality(Occupied \ {T}) = Cardinality(Occupied) - 1
    BY <1>2, OccupiedIsFinite, FS_RemoveElement
  <2>4. IsFiniteSet(Occupied \ {T})  BY OccupiedIsFinite, FS_Subset
  <2>5. Cardinality(Occupied \ {T}) # 0  BY <2>2, <2>4, FS_EmptySet
  <2>6. active \in Nat /\ active + 1 = Cardinality(Occupied)
    BY <1>0, <1>5 DEF Shape, Registry!TypeOK, CountLags
  <2> QED  BY <2>3, <2>5, <2>6
<1> QED  BY <1>0, <1>1, <1>4, <1>5 DEF Types

LEMMA KnownStep == EInv /\ SlotsAreKnown /\ RegistryStep => SlotsAreKnown'
<1> SUFFICES ASSUME EInv, SlotsAreKnown, RegistryStep PROVE SlotsAreKnown'
  OBVIOUS
<1>0. Shape  BY DEF EInv, IInv
<1> USE <1>0, GenerationsAssumption
    DEF SlotsAreKnown, Shape, Registry!TypeOK, Registry!None, None, Registry!registryVars,
        Registry!DispatchUnchanged
<1>1. ASSUME NEW h \in Handle, NEW c \in Callback, Registry!RegisterCalls(h, c) \/ Registry!ReplaceCalls(h, c)
      PROVE  SlotsAreKnown'
  BY <1>1 DEF Registry!RegisterCalls, Registry!ReplaceCalls, Registry!Prepare
<1>2. ASSUME NEW h \in Handle, \/ Registry!RegisterLocks(h) \/ Registry!ReplaceLocks(h)
                               \/ Registry!DisableLocks(h) \/ Registry!RegisterCounts(h)
                               \/ Registry!DisableCounts(h) \/ Registry!DisableCalls(h)
                               \/ Registry!Forget(h)
      PROVE  SlotsAreKnown'
  BY <1>2 DEF Registry!RegisterLocks, Registry!ReplaceLocks, Registry!DisableLocks, Registry!Locks,
              Registry!RegisterCounts, Registry!DisableCounts, Registry!DisableCalls, Registry!Forget
<1>3. ASSUME NEW h \in Handle, Registry!RegisterStores(h) PROVE SlotsAreKnown'
  BY <1>3 DEF Registry!RegisterStores
<1>4. ASSUME NEW h \in Handle, Registry!ReplaceStores(h) PROVE SlotsAreKnown'
  <2>1. own[h] # None  BY <1>4 DEF HasCallbacks, Registry!ReplaceStores, Registry!Installed
  <2> QED  BY <1>4, <2>1 DEF Registry!ReplaceStores, Registry!OwnsSlot
<1>5. ASSUME NEW h \in Handle, Registry!DisableStores(h) PROVE SlotsAreKnown'
  BY <1>5 DEF Registry!DisableStores
<1>6. ASSUME NEW t \in Thread, \/ \E T \in Type : Registry!Dispatch(t, T)
                               \/ Registry!LoadActive(t) \/ Registry!Resolve(t)
                               \/ Registry!LoadCallback(t) \/ Registry!CallbackReturns(t)
      PROVE  SlotsAreKnown'
  BY <1>6 DEF Registry!Dispatch, Registry!LoadActive, Registry!Resolve, Registry!LoadCallback,
              Registry!CallbackReturns
<1>7. CASE UNCHANGED Registry!vars
  BY <1>7 DEF Registry!vars
<1> QED
  BY <1>1, <1>2, <1>3, <1>4, <1>5, <1>6, <1>7 DEF RegistryStep, Registry!Next, Registry!HandleStep

(* A step of a handle, or of the registry alone, leaves every thread where  *)
(* it is in its dispatch.                                                   *)
LEMMA HandlesLeaveThreads ==
    ASSUME NEW h \in Handle, \/ Registry!HandleStep(h) \/ Registry!DisableCalls(h) \/ Registry!Forget(h)
                             \/ \E c \in Callback : Registry!RegisterCalls(h, c) \/ Registry!ReplaceCalls(h, c)
    PROVE  UNCHANGED <<tpc, wanted, cached, holds>>
  BY DEF Registry!HandleStep, Registry!RegisterLocks, Registry!RegisterStores, Registry!RegisterCounts,
         Registry!ReplaceLocks, Registry!ReplaceStores, Registry!DisableLocks, Registry!DisableStores,
         Registry!DisableCounts, Registry!Locks, Registry!DisableCalls, Registry!Forget,
         Registry!RegisterCalls, Registry!ReplaceCalls, Registry!Prepare, Registry!threadVars

LEMMA VisitsStep == EInv /\ VisitsInside /\ [Next]_vars => VisitsInside'
<1> SUFFICES ASSUME EInv, VisitsInside, [Next]_vars PROVE VisitsInside'
  OBVIOUS
<1>0. Types /\ Registry!TypeOK  BY DEF EInv, IInv, Shape
<1>1. ASSUME UNCHANGED <<tpc, wanted, cached, holds>>, UNCHANGED visit PROVE VisitsInside'
  BY <1>1 DEF VisitsInside
<1> USE <1>0 DEF VisitsInside, Types, Registry!TypeOK, visitVars, Visits
<1>2. CASE RegistrySteps
  BY <1>1, <1>2, HandlesLeaveThreads DEF RegistrySteps, Plain
<1>3. CASE ThreadSteps
  BY <1>3 DEF ThreadSteps, Registry!LoadActive, Registry!Resolve, Registry!LoadCallback, Registry!Move
<1>4. ASSUME NEW t \in Thread, (\E T \in Type : Dispatch(t, T)) \/ CallbackReturns(t)
      PROVE  VisitsInside'
  BY <1>4 DEF Dispatch, CallbackReturns, Registry!Dispatch, Registry!CallbackReturns, Registry!Move
<1>5. ASSUME NEW t \in Thread, CheckAccepting(t) \/ Submit(t) PROVE VisitsInside'
  BY <1>5 DEF CheckAccepting, Submit, Inside, registryVars
<1>6. ASSUME NEW g \in Callback, WorkerSteps(g) PROVE VisitsInside'
  BY <1>1, <1>6, WorkerFacts DEF registryVars
<1>7. ASSUME NEW e \in Exporter, NEW g \in Callback, Install(e, g) \/ Reconfigure(e, g)
      PROVE  VisitsInside'
  BY <1>1, <1>7, HandlesLeaveThreads, GenerationsAssumption DEF Install, Reconfigure
<1>8. ASSUME NEW e \in Exporter, Shutdown(e) \/ Drop(e) PROVE VisitsInside'
  BY <1>1, <1>8, HandlesLeaveThreads, GenerationsAssumption DEF Shutdown, Drop, Closes
<1>9. ASSUME NEW e \in Exporter, Cancelled(e) \/ HandleSteps(e) PROVE VisitsInside'
  BY <1>1, <1>9
     DEF Cancelled, HandleSteps, InstallFails, InstallSucceeds, ReplaceEnds, SinkReleased,
         DrainTimesOut, DrainEnds, DrainReturns, registryVars
<1>10. CASE UNCHANGED vars
  BY <1>1, <1>10 DEF vars, registryVars
<1> QED  BY <1>2, <1>3, <1>4, <1>5, <1>6, <1>7, <1>8, <1>9, <1>10 DEF Next

-----------------------------------------------------------------------------
(* A steady dispatch that goes on stays with its handle, and one that ends  *)
(* ends in a decision.                                                      *)
LEMMA DispatchProceeds ==
    ASSUME SInv, NEW t \in Thread, steady[t], NEW e \in Exporter, Serves(e, t),
           Registry!LoadActive(t) \/ Registry!Resolve(t) \/ Registry!LoadCallback(t)
    PROVE  tpc'[t] # "idle" /\ wanted'[t] = wanted[t] /\ (tpc'[t] = "inside" => holds'[t] = gen[e])
<1>0. /\ Types /\ Registry!TypeOK /\ wanted[t] = TypeOf[e]
      /\ active # 0 /\ slot[wanted[t]] = gen[e] /\ gen[e] # None /\ wanted[t] \in known
  <2>1. active # 0 /\ slot[TypeOf[e]] = gen[e] /\ gen[e] \in used
    BY OpenIsCounted DEF SInv, Serves
  <2>2. TypeOf[e] \in Type /\ gen[e] # None
    BY <2>1, GenerationsAssumption DEF SInv, EInv, IInv, Shape, Registry!TypeOK
  <2> QED  BY <2>1, <2>2 DEF SInv, EInv, IInv, Shape, Serves, SlotsAreKnown
<1> USE <1>0 DEF Registry!TypeOK, Registry!Move, Registry!None, None
<1>1. CASE Registry!LoadActive(t)  BY <1>1 DEF Registry!LoadActive
<1>2. CASE Registry!Resolve(t)  BY <1>2 DEF Registry!Resolve
<1>3. CASE Registry!LoadCallback(t)  BY <1>3 DEF Registry!LoadCallback
<1> QED  BY <1>1, <1>2, <1>3

(* A handle goes on serving a dispatch it does not move under.              *)
LEMMA ServesStill ==
    ASSUME NEW t \in Thread, NEW e \in Exporter, Serves(e, t),
           epc'[e] \in {"open", "draining"}, gen'[e] = gen[e],
           tpc'[t] = tpc[t], wanted'[t] = wanted[t], holds'[t] = holds[t], visit'[t] = visit[t]
    PROVE  Serves(e, t)'
  BY DEF Serves

LEMMA ServedStep == SInv /\ [Next]_vars => SteadyAreServed'
<1> SUFFICES ASSUME SInv, [Next]_vars PROVE SteadyAreServed'
  OBVIOUS
<1>0. Types /\ Registry!TypeOK  BY DEF SInv, EInv, IInv, Shape
<1>1. ASSUME UNCHANGED <<tpc, wanted, holds, visit>>,
             \A t \in Thread : steady'[t] => steady[t],
             \A t \in Thread, e \in Exporter : steady'[t] /\ Serves(e, t) =>
                 epc'[e] \in {"open", "draining"} /\ gen'[e] = gen[e]
      PROVE  SteadyAreServed'
  <2> SUFFICES ASSUME NEW t \in Thread, steady'[t], tpc'[t] # "idle"
               PROVE  \E e \in Exporter : Serves(e, t)'
    BY DEF SteadyAreServed
  <2>1. PICK e \in Exporter : Serves(e, t)  BY <1>1 DEF SInv, SteadyAreServed
  <2> QED  BY <1>1, <2>1, ServesStill
<1>2. ASSUME UNCHANGED <<tpc, wanted, holds, visit, steady, exporterVars>> PROVE SteadyAreServed'
  BY <1>1, <1>2 DEF exporterVars, Serves
<1>3. CASE RegistrySteps
  BY <1>2, <1>3, HandlesLeaveThreads DEF RegistrySteps, Plain, visitVars
<1>4. ASSUME NEW u \in Thread, Registry!LoadActive(u) \/ Registry!Resolve(u) \/ Registry!LoadCallback(u), ThreadSteps
      PROVE  SteadyAreServed'
  <2> SUFFICES ASSUME NEW t \in Thread, steady'[t], tpc'[t] # "idle"
               PROVE  \E e \in Exporter : Serves(e, t)'
    BY DEF SteadyAreServed
  <2>0. UNCHANGED <<visit, exporterVars>> /\ steady[t]  BY <1>4 DEF ThreadSteps
  <2>1. tpc[t] # "idle"
    BY <1>0, <1>4
       DEF Registry!LoadActive, Registry!Resolve, Registry!LoadCallback, Registry!Move, Registry!TypeOK
  <2>2. PICK e \in Exporter : Serves(e, t)  BY <2>0, <2>1 DEF SInv, SteadyAreServed
  <2>3. CASE t = u
    <3>1. wanted'[t] = wanted[t] /\ (tpc'[t] = "inside" => holds'[t] = gen[e])
      BY <1>4, <2>0, <2>2, <2>3, DispatchProceeds
    <3>2. tpc[t] # "inside"
      BY <1>4, <2>3 DEF Registry!LoadActive, Registry!Resolve, Registry!LoadCallback
    <3>3. visit'[t] = "out"  BY <2>0, <3>2 DEF SInv, VisitsInside
    <3> QED  BY <2>0, <2>2, <3>1, <3>3 DEF Serves, exporterVars
  <2>4. CASE t # u
    <3>1. tpc'[t] = tpc[t] /\ wanted'[t] = wanted[t] /\ holds'[t] = holds[t]
      BY <1>0, <1>4, <2>4
         DEF Registry!LoadActive, Registry!Resolve, Registry!LoadCallback, Registry!Move, Registry!TypeOK
    <3> QED  BY <2>0, <2>2, <3>1 DEF Serves, exporterVars
  <2> QED  BY <2>3, <2>4
<1>5. ASSUME NEW u \in Thread, NEW T \in Type, Dispatch(u, T) PROVE SteadyAreServed'
  <2>1. /\ tpc' = [tpc EXCEPT ![u] = "active"] /\ wanted' = [wanted EXCEPT ![u] = T]
        /\ UNCHANGED <<holds, visit, exporterVars>>
        /\ steady' = [steady EXCEPT ![u] = \E e \in Exporter : TypeOf[e] = T /\ epc[e] \in {"open", "draining"}]
    BY <1>5 DEF Dispatch, Registry!Dispatch
  <2>2. ASSUME steady'[u] PROVE \E e \in Exporter : Serves(e, u)'
    <3>1. PICK e \in Exporter : TypeOf[e] = T /\ epc[e] \in {"open", "draining"}
      BY <1>0, <2>1, <2>2 DEF Types
    <3>2. tpc'[u] = "active" /\ wanted'[u] = T  BY <1>0, <2>1 DEF Registry!TypeOK
    <3> QED  BY <2>1, <3>1, <3>2 DEF Serves, exporterVars
  <2>3. ASSUME NEW t \in Thread \ {u}, steady'[t], tpc'[t] # "idle"
        PROVE  \E e \in Exporter : Serves(e, t)'
    <3>1. /\ steady[t] /\ tpc'[t] = tpc[t] /\ wanted'[t] = wanted[t]
          /\ holds'[t] = holds[t] /\ visit'[t] = visit[t]
      BY <1>0, <2>1, <2>3 DEF Types, Registry!TypeOK
    <3>2. PICK e \in Exporter : Serves(e, t)  BY <2>3, <3>1 DEF SInv, SteadyAreServed
    <3> QED  BY <2>1, <3>1, <3>2 DEF Serves, exporterVars
  <2> QED  BY <2>2, <2>3 DEF SteadyAreServed
<1>6. ASSUME NEW u \in Thread, CallbackReturns(u) PROVE SteadyAreServed'
  <2>1. /\ steady' = [steady EXCEPT ![u] = FALSE] /\ UNCHANGED exporterVars
        /\ \A t \in Thread \ {u} : /\ tpc'[t] = tpc[t] /\ wanted'[t] = wanted[t]
                                   /\ holds'[t] = holds[t] /\ visit'[t] = visit[t]
    BY <1>0, <1>6
       DEF CallbackReturns, Visits, Types, Registry!CallbackReturns, Registry!Move, Registry!TypeOK
  <2> SUFFICES ASSUME NEW t \in Thread, steady'[t], tpc'[t] # "idle"
               PROVE  \E e \in Exporter : Serves(e, t)'
    BY DEF SteadyAreServed
  <2>2. t # u /\ steady[t]  BY <1>0, <2>1 DEF Types
  <2>3. PICK e \in Exporter : Serves(e, t)  BY <2>1, <2>2 DEF SInv, SteadyAreServed
  <2> QED  BY <2>1, <2>2, <2>3 DEF Serves, exporterVars
<1>7. ASSUME NEW u \in Thread, CheckAccepting(u) \/ Submit(u) PROVE SteadyAreServed'
  <2>1. UNCHANGED <<registryVars, exporterVars, steady>> /\ UNCHANGED <<tpc, wanted, holds>>
    BY <1>7 DEF CheckAccepting, Submit, registryVars
  <2> SUFFICES ASSUME NEW t \in Thread, steady'[t], tpc'[t] # "idle"
               PROVE  \E e \in Exporter : Serves(e, t)'
    BY DEF SteadyAreServed
  <2>2. PICK e \in Exporter : Serves(e, t)  BY <2>1 DEF SInv, SteadyAreServed
  <2>3. Live(gen[e])  BY <2>2 DEF SInv, EInv, Handles, InCall, Serves
  <2>4. visit'[t] \in {visit[t], "admitted", "taken", "full"}
    <3>1. CASE t = u
      BY <1>0, <1>7, <2>2, <2>3, <3>1 DEF CheckAccepting, Submit, Inside, Visits, Types, Serves, Live
    <3>2. CASE t # u
      BY <1>0, <1>7, <3>2 DEF CheckAccepting, Submit, Visits, Types
    <3> QED  BY <3>1, <3>2
  <2> QED  BY <2>1, <2>2, <2>4 DEF Serves, exporterVars
<1>8. ASSUME NEW g \in Callback, WorkerSteps(g) PROVE SteadyAreServed'
  BY <1>0, <1>2, <1>8, WorkerFacts DEF registryVars, visitVars
<1>9. ASSUME NEW f \in Exporter, NEW g \in Callback, Install(f, g) PROVE SteadyAreServed'
  <2>1. UNCHANGED <<tpc, wanted, holds>>  BY <1>9, HandlesLeaveThreads, GenerationsAssumption DEF Install
  <2>2. /\ epc[f] = "none" /\ UNCHANGED <<visit, steady>>
        /\ \A e \in Exporter \ {f} : epc'[e] = epc[e] /\ gen'[e] = gen[e]
    BY <1>0, <1>9 DEF Install, Goto, visitVars, Types
  <2> QED  BY <1>1, <2>1, <2>2 DEF Serves
<1>10. ASSUME NEW f \in Exporter, UNCHANGED <<tpc, wanted, holds, visit>>, Disturbs(f),
              \A e \in Exporter \ {f} : epc'[e] = epc[e] /\ gen'[e] = gen[e]
       PROVE  SteadyAreServed'
  BY <1>1, <1>10 DEF Disturbs, Serves
<1>11. ASSUME NEW f \in Exporter, NEW g \in Callback, Reconfigure(f, g) PROVE SteadyAreServed'
  BY <1>0, <1>10, <1>11, HandlesLeaveThreads, GenerationsAssumption DEF Reconfigure, Goto, Types
<1>12. ASSUME NEW f \in Exporter, Shutdown(f) \/ Drop(f) PROVE SteadyAreServed'
  BY <1>0, <1>10, <1>12, HandlesLeaveThreads, GenerationsAssumption
     DEF Shutdown, Drop, Closes, Goto, Types
<1>13. ASSUME NEW f \in Exporter, Cancelled(f) \/ HandleSteps(f) PROVE SteadyAreServed'
  <2>1. UNCHANGED <<registryVars, visitVars>> /\ UNCHANGED <<tpc, wanted, holds, visit, steady>>
    BY <1>13
       DEF Cancelled, HandleSteps, InstallFails, InstallSucceeds, ReplaceEnds, SinkReleased,
           DrainTimesOut, DrainEnds, DrainReturns, registryVars, visitVars
  <2>2. /\ \A e \in Exporter \ {f} : epc'[e] = epc[e] /\ gen'[e] = gen[e]
        /\ epc[f] \in {"open", "draining"} => epc'[f] \in {"open", "draining"} /\ gen'[f] = gen[f]
    BY <1>0, <1>13
       DEF Cancelled, HandleSteps, InstallFails, InstallSucceeds, ReplaceEnds, SinkReleased,
           DrainTimesOut, DrainEnds, DrainReturns, HandleGone, Goto, Waiting, exporterVars, Types
  <2> QED  BY <1>1, <2>1, <2>2 DEF Serves
<1>14. CASE UNCHANGED vars
  BY <1>2, <1>14 DEF vars, registryVars, visitVars
<1> QED
  BY <1>3, <1>4, <1>5, <1>6, <1>7, <1>8, <1>9, <1>11, <1>12, <1>13, <1>14 DEF Next, ThreadSteps

-----------------------------------------------------------------------------
LEMMA SteadyInvariant == Spec => []SInv
<1>1. Init => SInv
  <2>1. Init => SlotsAreKnown
    BY DEF Init, Registry!Init, SlotsAreKnown, Registry!None, None
  <2>2. Init => VisitsInside /\ SteadyAreServed
    BY DEF Init, VisitsInside, SteadyAreServed
  <2> QED  BY <2>1, <2>2, InitEInv DEF SInv
<1>2. EInv /\ [Next]_vars => EInv'
  <2>1. EInv /\ [Next]_vars => IInv'
    BY EveryStepOfRegistry, ShapeStep, CountStep, PlacesStep, DispatchingStep DEF EInv, IInv
  <2> QED  BY <2>1, TypesStep, HandlesStep, LivingStep, StoppedStep DEF EInv
<1>3. SInv /\ [Next]_vars => SInv'
  BY <1>2, EveryStepOfRegistry, KnownStep, VisitsStep, ServedStep DEF SInv
<1> QED  BY <1>1, <1>3, PTL DEF Spec

(* "Without a logging outage": a dispatch that no call of its handle        *)
(* overlaps reaches a generation that takes the record, or refuses it only  *)
(* because it is full.                                                      *)
THEOREM SteadyLogsAlwaysTaken == Spec => SteadyLogsAreTaken
<1> DEFINE Ends(t) == steady[t] /\ tpc[t] # "idle" /\ tpc'[t] = "idle"
           Taken == \A t \in Thread : Ends(t) => visit[t] \in {"taken", "full"}
<1>1. ASSUME SInv, Next, NEW t \in Thread, Ends(t) PROVE visit[t] \in {"taken", "full"}
  <2>0. Types /\ Registry!TypeOK  BY <1>1 DEF SInv, EInv, IInv, Shape
  <2>1. PICK e \in Exporter : Serves(e, t)  BY <1>1 DEF SInv, SteadyAreServed
  <2>2. Live(gen[e])  BY <1>1, <2>1 DEF SInv, EInv, Handles, InCall, Serves
  <2>3. ASSUME UNCHANGED tpc PROVE FALSE  BY <1>1, <2>3
  <2>4. CASE RegistrySteps
    BY <2>3, <2>4, HandlesLeaveThreads DEF RegistrySteps, Plain
  <2>5. CASE ThreadSteps
    <3>1. PICK u \in Thread : Registry!LoadActive(u) \/ Registry!Resolve(u) \/ Registry!LoadCallback(u)
      BY <2>5 DEF ThreadSteps
    <3>2. u = t
      BY <1>1, <2>0, <3>1
         DEF Registry!LoadActive, Registry!Resolve, Registry!LoadCallback, Registry!Move, Registry!TypeOK
    <3> QED  BY <1>1, <2>1, <3>1, <3>2, DispatchProceeds
  <2>6. ASSUME NEW u \in Thread, NEW T \in Type, Dispatch(u, T) PROVE FALSE
    BY <1>1, <2>0, <2>6 DEF Dispatch, Registry!Dispatch, Registry!TypeOK
  <2>7. ASSUME NEW u \in Thread, CheckAccepting(u) \/ Submit(u) PROVE FALSE
    BY <2>3, <2>7 DEF CheckAccepting, Submit, registryVars
  <2>8. ASSUME NEW u \in Thread, CallbackReturns(u) PROVE visit[t] \in {"taken", "full"}
    <3>1. u = t /\ tpc[t] = "inside"
      BY <1>1, <2>0, <2>8 DEF CallbackReturns, Registry!CallbackReturns, Registry!Move, Registry!TypeOK
    <3>2. visit[t] \in Decided  BY <2>1, <2>2, <2>8, <3>1 DEF CallbackReturns, Serves, Live
    <3> QED  BY <2>1, <3>1, <3>2 DEF Serves, Decided
  <2>9. ASSUME NEW g \in Callback, WorkerSteps(g) PROVE FALSE
    BY <2>0, <2>3, <2>9, WorkerFacts DEF registryVars
  <2>10. ASSUME NEW f \in Exporter, NEW g \in Callback, Install(f, g) \/ Reconfigure(f, g) PROVE FALSE
    BY <2>3, <2>10, HandlesLeaveThreads, GenerationsAssumption DEF Install, Reconfigure
  <2>11. ASSUME NEW f \in Exporter, Shutdown(f) \/ Drop(f) PROVE FALSE
    BY <2>3, <2>11, HandlesLeaveThreads, GenerationsAssumption DEF Shutdown, Drop, Closes
  <2>12. ASSUME NEW f \in Exporter, Cancelled(f) \/ HandleSteps(f) PROVE FALSE
    BY <2>3, <2>12
       DEF Cancelled, HandleSteps, InstallFails, InstallSucceeds, ReplaceEnds, SinkReleased,
           DrainTimesOut, DrainEnds, DrainReturns, registryVars
  <2> QED
    BY <1>1, <2>4, <2>5, <2>6, <2>7, <2>8, <2>9, <2>10, <2>11, <2>12 DEF Next
<1>2. SInv /\ [Next]_vars => [Taken]_vars
  BY <1>1
<1>3. Spec => [][Taken]_vars
  BY <1>2, SteadyInvariant, PTL DEF Spec
<1> QED BY <1>3 DEF SteadyLogsAreTaken
=============================================================================
