---------------------------- MODULE FilterProofs ----------------------------
(***************************************************************************)
(* Theorems about the runtime level filter, for any set of threads, levels *)
(* and configuration calls and any EDEN_LOG_LEVEL.                         *)
(***************************************************************************)
EXTENDS RuntimeFilter, TLAPS

(* A thread is in a configuration call where that call's places are.        *)
Entering(t) ==
    /\ pc[t] = "load" => call[t].kind \in {"enable", "disable"}
    /\ pc[t] \in {"store", "publish"} =>
           call[t].kind \in {"enable", "disable", "init_from_value", "clear"}
    /\ pc[t] \in {"env_store", "env_publish"} => call[t] = NoCall \/ call[t].kind = "init_from_env"
    /\ pc[t] \notin Configuring => call[t] = NoCall
CallsHavePlaces == \A t \in Thread : Entering(t)

(* Without any configuration call the mask, once the environment has been   *)
(* stored, is what the environment says, and only then is it read.          *)
LoadedFrom(t) ==
    /\ call[t] = NoCall
    /\ pc[t] = "read" => state = "Initialized"
    /\ pc[t] = "env_publish" /\ env # NotSet => enabled = MaskOf(env)
    /\ env # NotSet /\ answer[t] # None => answer[t] = Answer(MaskOf(env), asked[t])
EnvironmentLoaded ==
    ~touched =>
        /\ \A t \in Thread : LoadedFrom(t)
        /\ state = "Initialized" /\ env # NotSet => enabled = MaskOf(env)

(* Over which mask a lone call is at its place: until it stores, the mask   *)
(* is the one it began with; after that its outcome is in force.            *)
StillBefore(t) ==
    /\ pc[t] \in {"load", "store", "env_store"} => enabled = before
    /\ pc[t] = "store" /\ call[t].kind \in {"enable", "disable"} => mask[t] = before
    /\ pc[t] \in {"publish", "env_publish"} => Emitted(enabled) = Outcome(before, call[t])

(* A call marked alone is the only one, and nobody is in a call after one   *)
(* that still counts as the last.                                           *)
Undisturbed ==
    /\ \A t \in Thread : alone[t] =>
           /\ call[t] # NoCall
           /\ \A u \in Thread \ {t} : call[u] = NoCall
           /\ StillBefore(t)
    /\ last # NoCall => \A u \in Thread : call[u] = NoCall
    /\ LastCallHolds

IInv == TypeOK /\ CallsHavePlaces /\ EnvironmentLoaded /\ Undisturbed

-----------------------------------------------------------------------------
(* NoCall is no call, and MaskOf yields a mask.                             *)
LEMMA CallFacts ==
    /\ NoCall \notin Calls
    /\ \A v \in Value : MaskOf(v) \subseteq Level \cup {DisabledAll}
    /\ \A c \in Calls : c.kind = "init_from_value" => c.arg \in Value
    /\ \A c \in Calls : c.kind \in {"enable", "disable"} => c.arg \subseteq Level
    /\ \A c \in Calls : c.kind \in {"enable", "disable", "init_from_value", "clear", "init_from_env"}
  BY FilterAssumption DEF NoCall, None, Call, Value, MaskOf, Off

(* What the mask of a value leaves emitted.                                 *)
LEMMA NamedIsEmitted == \A v \in Value : Emitted(MaskOf(v)) = Named(v)
<1> SUFFICES ASSUME NEW v \in Value PROVE Emitted(MaskOf(v)) = Named(v)
  OBVIOUS
<1>1. CASE v = Off
  <2>1. MaskOf(v) = {DisabledAll}  BY <1>1 DEF MaskOf
  <2> QED  BY <1>1, <2>1 DEF Emitted, Emits, Named
<1>2. CASE v # Off
  <2>1. MaskOf(v) = v /\ v \subseteq Level  BY <1>2 DEF MaskOf, Value
  <2>2. v # {DisabledAll}  BY <2>1, FilterAssumption
  <2> QED  BY <1>2, <2>1, <2>2 DEF Emitted, Emits, Named
<1> QED  BY <1>1, <1>2

(* What a configuration call stores is a mask.                              *)
LEMMA NewMaskType ==
    ASSUME NEW t \in Thread, TypeOK, call[t] \in Calls,
           call[t].kind \in {"enable", "disable", "init_from_value", "clear"}
    PROVE  NewMask(t) \subseteq Level \cup {DisabledAll}
<1>1. mask[t] \subseteq Level \cup {DisabledAll}  BY DEF TypeOK
<1>2. CASE call[t].kind = "enable"
  BY <1>1, <1>2, CallFacts DEF NewMask
<1>3. CASE call[t].kind = "disable"
  BY <1>1, <1>3 DEF NewMask
<1>4. CASE call[t].kind = "init_from_value"
  BY <1>4, CallFacts DEF NewMask
<1>5. CASE call[t].kind = "clear"
  BY <1>5 DEF NewMask
<1> QED  BY <1>2, <1>3, <1>4, <1>5

(* What a call stores over the mask it began with has its outcome.          *)
LEMMA StoredMaskHasOutcome ==
    ASSUME NEW t \in Thread, TypeOK, call[t] \in Calls,
           call[t].kind \in {"enable", "disable", "init_from_value", "clear"},
           call[t].kind \in {"enable", "disable"} => mask[t] = before
    PROVE  Emitted(NewMask(t)) = Outcome(before, call[t])
<1> DEFINE c == call[t]
<1>1. before \subseteq Level \cup {DisabledAll}  BY DEF TypeOK
<1>2. CASE c.kind = "enable"
  <2>1. c.arg \subseteq Level  BY <1>2, CallFacts
  <2>2. NewMask(t) = before \cup c.arg  BY <1>2 DEF NewMask
  <2>3. Outcome(before, c) = IF c.arg = {} THEN Emitted(before) ELSE c.arg \cup (before \cap Level)
    BY <1>2 DEF Outcome
  <2>4. CASE c.arg = {}
    <3>1. before \cup c.arg = before  BY <2>4
    <3> QED  BY <2>2, <2>3, <2>4, <3>1
  <2>5. CASE c.arg # {}
    BY <1>1, <2>1, <2>2, <2>3, <2>5, FilterAssumption DEF Emitted, Emits
  <2> QED  BY <2>4, <2>5
<1>3. CASE c.kind = "disable"
  <2>1. c.arg \subseteq Level  BY <1>3, CallFacts
  <2>2. NewMask(t) = before \ c.arg  BY <1>3 DEF NewMask
  <2>3. Outcome(before, c) = IF before \subseteq c.arg THEN Level ELSE Emitted(before) \ c.arg
    BY <1>3 DEF Outcome
  <2>4. CASE before \subseteq c.arg
    <3>1. NewMask(t) = {}  BY <2>2, <2>4
    <3> QED  BY <2>3, <2>4, <3>1 DEF Emitted, Emits
  <2>5. CASE ~(before \subseteq c.arg)
    <3>1. NewMask(t) # {} /\ before # {}  BY <2>2, <2>5
    <3>2. DisabledAll \notin c.arg  BY <2>1, FilterAssumption
    <3>3. ASSUME NEW l \in Level
          PROVE  l \in Emitted(NewMask(t)) <=> l \in Emitted(before) /\ l \notin c.arg
      <4>1. l # DisabledAll  BY FilterAssumption
      <4>2. l \in NewMask(t) <=> l \in before /\ l \notin c.arg  BY <2>2
      <4>3. l \in Emitted(NewMask(t)) <=> l \in NewMask(t)
        BY <3>1, <4>1 DEF Emitted, Emits
      <4>4. l \in Emitted(before) <=> l \in before
        BY <3>1, <4>1 DEF Emitted, Emits
      <4> QED  BY <4>2, <4>3, <4>4
    <3>4. Emitted(NewMask(t)) \subseteq Level /\ Emitted(before) \subseteq Level
      BY DEF Emitted
    <3>5. Emitted(NewMask(t)) = Emitted(before) \ c.arg
      BY <3>3, <3>4
    <3> QED  BY <2>3, <2>5, <3>5
  <2> QED  BY <2>4, <2>5
<1>4. CASE c.kind = "init_from_value"
  <2>1. c.arg \in Value  BY <1>4, CallFacts
  <2>2. NewMask(t) = MaskOf(c.arg)  BY <1>4 DEF NewMask
  <2>3. Outcome(before, c) = Named(c.arg)  BY <1>4 DEF Outcome
  <2> QED  BY <2>1, <2>2, <2>3, NamedIsEmitted
<1>5. CASE c.kind = "clear"
  <2>1. NewMask(t) = {}  BY <1>5 DEF NewMask
  <2>2. Outcome(before, c) = Level  BY <1>5 DEF Outcome
  <2> QED  BY <2>1, <2>2 DEF Emitted, Emits
<1> QED  BY <1>2, <1>3, <1>4, <1>5

-----------------------------------------------------------------------------
(* The invariant holds before anyone has logged or configured.              *)
LEMMA InitInvariant == Init => IInv
<1> SUFFICES ASSUME Init PROVE IInv
  OBVIOUS
<1>1. TypeOK  BY DEF Init, TypeOK, Configuring
<1>2. CallsHavePlaces  BY DEF Init, CallsHavePlaces, Entering, Configuring
<1>3. EnvironmentLoaded  BY DEF Init, EnvironmentLoaded, LoadedFrom
<1>5. LastCallHolds  BY DEF Init, LastCallHolds
<1>6. Undisturbed  BY <1>5 DEF Init, Undisturbed
<1> QED  BY <1>1, <1>2, <1>3, <1>6 DEF IInv

(* No operation on the mask or the flag leaves the variables' types.        *)
LEMMA TypeStep == TypeOK /\ CallsHavePlaces /\ [Next]_vars => TypeOK'
<1> SUFFICES ASSUME TypeOK, CallsHavePlaces, [Next]_vars PROVE TypeOK'
  OBVIOUS
<1> USE DEF TypeOK, Configuring, LogUnchanged, Goto, historyVars
<1>1. ASSUME NEW t \in Thread, NEW level \in Level, ShouldLog(t, level) PROVE TypeOK'
  BY <1>1 DEF ShouldLog
<1>2. ASSUME NEW t \in Thread, NEW c \in Calls, Configure(t, c) PROVE TypeOK'
  BY <1>2 DEF Configure, Entry
<1>3. ASSUME NEW t \in Thread, LoadMask(t) PROVE TypeOK'
  BY <1>3 DEF LoadMask
<1>4. ASSUME NEW t \in Thread, StoreMask(t) PROVE TypeOK'
  <2>1. call[t] \in Calls /\ call[t].kind \in {"enable", "disable", "init_from_value", "clear"}
    BY <1>4 DEF StoreMask, CallsHavePlaces, Entering, NoCall, None
  <2>2. NewMask(t) \subseteq Level \cup {DisabledAll}  BY <2>1, NewMaskType
  <2> QED  BY <1>4, <2>2 DEF StoreMask
<1>5. ASSUME NEW t \in Thread, Publish(t) PROVE TypeOK'
  BY <1>5 DEF Publish, Returns
<1>6. ASSUME NEW t \in Thread, EnvStore(t) PROVE TypeOK'
  <2>1. env # NotSet => MaskOf(env) \subseteq Level \cup {DisabledAll}
    BY CallFacts, FilterAssumption
  <2> QED  BY <1>6, <2>1 DEF EnvStore
<1>7. ASSUME NEW t \in Thread, EnvPublish(t) PROVE TypeOK'
  BY <1>7 DEF EnvPublish, Returns
<1>8. ASSUME NEW t \in Thread, CheckState(t) PROVE TypeOK'
  BY <1>8 DEF CheckState
<1>9. ASSUME NEW t \in Thread, Exchange(t) PROVE TypeOK'
  BY <1>9 DEF Exchange
<1>10. ASSUME NEW t \in Thread, Spin(t) PROVE TypeOK'
  BY <1>10 DEF Spin
<1>11. ASSUME NEW t \in Thread, Read(t) PROVE TypeOK'
  BY <1>11 DEF Read, Answer
<1>12. CASE UNCHANGED vars
  BY <1>12 DEF vars
<1> QED  BY <1>1, <1>2, <1>3, <1>4, <1>5, <1>6, <1>7, <1>8, <1>9, <1>10, <1>11, <1>12 DEF Next, Step

(* A thread reaches the places of a call only by making that call.          *)
LEMMA PlacesStep == TypeOK /\ CallsHavePlaces /\ [Next]_vars => CallsHavePlaces'
<1> SUFFICES ASSUME TypeOK, CallsHavePlaces, [Next]_vars, NEW u \in Thread PROVE Entering(u)'
  BY DEF CallsHavePlaces
<1> USE DEF TypeOK, CallsHavePlaces, Entering, Configuring, LogUnchanged, Goto
<1>1. ASSUME NEW t \in Thread, NEW level \in Level, ShouldLog(t, level) PROVE Entering(u)'
  BY <1>1 DEF ShouldLog
<1>2. ASSUME NEW t \in Thread, NEW c \in Calls, Configure(t, c) PROVE Entering(u)'
  BY <1>2, CallFacts DEF Configure, Entry
<1>3. ASSUME NEW t \in Thread, Step(t) PROVE Entering(u)'
  BY <1>3 DEF Step, LoadMask, StoreMask, Publish, EnvStore, EnvPublish, Returns, CheckState,
                  Exchange, Spin, Read
<1>4. CASE UNCHANGED vars
  BY <1>4 DEF vars
<1> QED  BY <1>1, <1>2, <1>3, <1>4 DEF Next

-----------------------------------------------------------------------------
(* Until the first configuration call only the environment sets the mask.   *)
LEMMA EnvironmentStep == IInv /\ [Next]_vars => EnvironmentLoaded'
<1> SUFFICES ASSUME IInv, [Next]_vars, ~touched' PROVE EnvironmentLoaded'
  BY DEF EnvironmentLoaded
<1>1. TypeOK /\ CallsHavePlaces /\ TypeOK'
  BY TypeStep DEF IInv
<1>2. ~touched
  <2>1. ASSUME NEW t \in Thread, NEW c \in Calls, Configure(t, c) PROVE FALSE
    BY <2>1 DEF Configure
  <2> QED
    BY <2>1 DEF Next, Step, vars, ShouldLog, LoadMask, StoreMask, Publish, EnvStore, EnvPublish,
                Returns, CheckState, Exchange, Spin, Read, LogUnchanged, historyVars
<1>3. /\ \A t \in Thread : LoadedFrom(t)
      /\ state = "Initialized" /\ env # NotSet => enabled = MaskOf(env)
  BY <1>2 DEF IInv, EnvironmentLoaded
<1> DEFINE Goal == /\ \A u \in Thread : LoadedFrom(u)'
                   /\ state' = "Initialized" /\ env' # NotSet => enabled' = MaskOf(env')
<1> SUFFICES Goal
  BY DEF EnvironmentLoaded
<1> USE <1>1, <1>2, <1>3 DEF TypeOK, LoadedFrom, LogUnchanged, Goto, historyVars
<1>4. ASSUME NEW t \in Thread, NEW level \in Level, ShouldLog(t, level) PROVE Goal
  BY <1>4 DEF ShouldLog
<1>5. ASSUME NEW t \in Thread, NEW c \in Calls, Configure(t, c) PROVE Goal
  BY <1>5 DEF Configure
<1>6. ASSUME NEW t \in Thread, LoadMask(t) \/ StoreMask(t) \/ Publish(t) PROVE Goal
  <2>1. NoCall.kind = "None"  BY DEF NoCall, None
  <2>2. pc[t] \in {"load", "store", "publish"} /\ call[t] = NoCall
    BY <1>6 DEF LoadMask, StoreMask, Publish
  <2> QED  BY <2>1, <2>2 DEF CallsHavePlaces, Entering
<1>7. ASSUME NEW t \in Thread, EnvStore(t) PROVE Goal
  BY <1>7 DEF EnvStore
<1>8. ASSUME NEW t \in Thread, EnvPublish(t) PROVE Goal
  BY <1>8 DEF EnvPublish
<1>9. ASSUME NEW t \in Thread, CheckState(t) PROVE Goal
  BY <1>9 DEF CheckState
<1>10. ASSUME NEW t \in Thread, Exchange(t) PROVE Goal
  BY <1>10 DEF Exchange
<1>11. ASSUME NEW t \in Thread, Spin(t) PROVE Goal
  BY <1>11 DEF Spin
<1>12. ASSUME NEW t \in Thread, Read(t) PROVE Goal
  BY <1>12 DEF Read
<1>13. CASE UNCHANGED vars
  BY <1>13 DEF vars
<1> QED  BY <1>4, <1>5, <1>6, <1>7, <1>8, <1>9, <1>10, <1>11, <1>12, <1>13 DEF Next, Step

-----------------------------------------------------------------------------
(* A call that nothing overlaps has stored its mask when it returns, and    *)
(* nothing stores another one until the next call begins.                   *)
LEMMA UndisturbedStep == IInv /\ [Next]_vars => Undisturbed'
<1> SUFFICES ASSUME IInv, [Next]_vars PROVE Undisturbed'
  OBVIOUS
<1>0. TypeOK /\ CallsHavePlaces /\ TypeOK' /\ Undisturbed
  BY TypeStep DEF IInv
<1> USE <1>0, CallFacts DEF TypeOK, Undisturbed, LastCallHolds, StillBefore, LogUnchanged, Goto,
        historyVars
<1>1. ASSUME NEW t \in Thread, NEW level \in Level, ShouldLog(t, level) PROVE Undisturbed'
  <2>1. ASSUME NEW u \in Thread, alone'[u] PROVE u # t
    BY <1>1, <2>1 DEF ShouldLog, CallsHavePlaces, Entering, Configuring
  <2> QED  BY <1>1, <2>1 DEF ShouldLog, Outcome
<1>3. ASSUME NEW t \in Thread, NEW c \in Calls, Configure(t, c) PROVE Undisturbed'
  <2>1. last' = NoCall /\ call'[t] = c /\ c # NoCall /\ enabled' = enabled
    BY <1>3 DEF Configure
  <2>2. pc'[t] \in {"load", "store", "env_store"}
        /\ (pc'[t] = "store" => c.kind \notin {"enable", "disable"})
    BY <1>3 DEF Configure, Entry
  <2>3. ASSUME NEW u \in Thread, alone'[u]
        PROVE  u = t /\ (\A v \in Thread \ {t} : call'[v] = NoCall) /\ before' = enabled
    BY <1>3, <2>3 DEF Configure
  <2> QED  BY <2>1, <2>2, <2>3
<1>4. ASSUME NEW t \in Thread, LoadMask(t) PROVE Undisturbed'
  <2>1. call[t] # NoCall
    BY <1>4 DEF LoadMask, CallsHavePlaces, Entering, NoCall, None
  <2> QED  BY <1>4, <2>1 DEF LoadMask, Outcome
<1>5. ASSUME NEW t \in Thread, StoreMask(t) PROVE Undisturbed'
  <2>1. call[t] \in Calls /\ call[t].kind \in {"enable", "disable", "init_from_value", "clear"}
    BY <1>5 DEF StoreMask, CallsHavePlaces, Entering, NoCall, None
  <2>2. last = NoCall /\ \A u \in Thread : alone[u] => u = t  BY <2>1
  <2>3. UNCHANGED <<alone, call, last, before, env>>  BY <1>5 DEF StoreMask
  <2>4. ASSUME alone[t] PROVE (Emitted(enabled) = Outcome(before, call[t]))'
    <3>1. call[t].kind \in {"enable", "disable"} => mask[t] = before
      BY <1>5, <2>4 DEF StoreMask
    <3>2. Emitted(NewMask(t)) = Outcome(before, call[t])
      BY <2>1, <3>1, StoredMaskHasOutcome
    <3> QED  BY <1>5, <2>3, <3>2 DEF StoreMask, Outcome
  <2>5. pc'[t] = "publish"  BY <1>5 DEF StoreMask
  <2>6. ASSUME NEW u \in Thread, alone'[u]
        PROVE  /\ call'[u] # NoCall
               /\ \A v \in Thread \ {u} : call'[v] = NoCall
               /\ StillBefore(u)'
    BY <2>2, <2>3, <2>4, <2>5, <2>6
  <2>7. last' = NoCall  BY <2>2, <2>3
  <2> QED  BY ONLY <2>6, <2>7 DEF Undisturbed, LastCallHolds
<1>6. ASSUME NEW t \in Thread, Returns(t), UNCHANGED <<enabled, env>>, call[t] # NoCall,
             alone[t] => Emitted(enabled) = Outcome(before, call[t])
      PROVE  Undisturbed'
  <2>1. call' = [call EXCEPT ![t] = NoCall] /\ alone' = [alone EXCEPT ![t] = FALSE]
    BY <1>6 DEF Returns
  <2>2. before' = before  BY <1>6 DEF Returns
  <2>3. \A u \in Thread : ~alone'[u] \/ (u # t /\ alone[u])  BY <2>1
  <2>4. \A u \in Thread : ~alone'[u]  BY <1>6, <2>3
  <2>5. CASE alone[t]
    <3>1. last' = call[t]  BY <1>6, <2>5 DEF Returns
    <3>2. (Emitted(enabled) = Outcome(before, last))'
      BY <1>6, <2>2, <2>5, <3>1 DEF Outcome
    <3>3. \A u \in Thread : call'[u] = NoCall  BY <2>1, <2>5
    <3> QED  BY ONLY <2>4, <3>2, <3>3 DEF Undisturbed, LastCallHolds
  <2>6. CASE ~alone[t]
    BY <1>6, <2>4, <2>6 DEF Returns
  <2> QED  BY <2>5, <2>6
<1>7. ASSUME NEW t \in Thread, Publish(t) PROVE Undisturbed'
  <2>1. call[t] # NoCall
    BY <1>7 DEF Publish, CallsHavePlaces, Entering, NoCall, None
  <2> QED  BY <1>6, <1>7, <2>1 DEF Publish
<1>8. ASSUME NEW t \in Thread, EnvStore(t) PROVE Undisturbed'
  <2>1. CASE call[t] = NoCall /\ env # NotSet
    BY <1>8, <2>1 DEF EnvStore
  <2>2. CASE call[t] = NoCall /\ env = NotSet
    BY <1>8, <2>2 DEF EnvStore, Outcome
  <2>3. CASE call[t] # NoCall
    <3>1. call[t].kind = "init_from_env" /\ last = NoCall
      BY <1>8, <2>3 DEF EnvStore, CallsHavePlaces, Entering
    <3>2. \A u \in Thread : alone[u] => u = t  BY <2>3
    <3>3. UNCHANGED <<alone, call, last, before, env>>
      BY <1>8, <2>3 DEF EnvStore
    <3>4. pc'[t] = "env_publish"  BY <1>8 DEF EnvStore
    <3>5. ASSUME alone[t] PROVE (Emitted(enabled) = Outcome(before, call[t]))'
      <4>1. enabled = before  BY <1>8, <3>5 DEF EnvStore
      <4>2. Outcome(before, call[t]) = IF env = NotSet THEN Emitted(before) ELSE Named(env)
        BY <3>1 DEF Outcome
      <4>3. env # NotSet => Emitted(MaskOf(env)) = Named(env)
        BY NamedIsEmitted, FilterAssumption
      <4>4. Outcome(before, call[t])' = Outcome(before, call[t])
        BY <3>3 DEF Outcome
      <4> QED  BY <1>8, <4>1, <4>2, <4>3, <4>4 DEF EnvStore
    <3>6. ASSUME NEW u \in Thread, alone'[u]
          PROVE  /\ call'[u] # NoCall
                 /\ \A v \in Thread \ {u} : call'[v] = NoCall
                 /\ StillBefore(u)'
      BY <3>2, <3>3, <3>4, <3>5, <3>6
    <3>7. last' = NoCall  BY <3>1, <3>3
    <3> QED  BY ONLY <3>6, <3>7 DEF Undisturbed, LastCallHolds
  <2> QED  BY <2>1, <2>2, <2>3
<1>9. ASSUME NEW t \in Thread, EnvPublish(t) PROVE Undisturbed'
  <2>1. CASE call[t] = NoCall
    BY <1>9, <2>1 DEF EnvPublish, Outcome
  <2>2. CASE call[t] # NoCall
    BY <1>6, <1>9, <2>2 DEF EnvPublish
  <2> QED  BY <2>1, <2>2
<1>10. ASSUME NEW t \in Thread, CheckState(t) \/ Exchange(t) \/ Spin(t) \/ Read(t)
       PROVE  Undisturbed'
  <2>1. call[t] = NoCall \/ pc[t] \in Configuring
    BY DEF CallsHavePlaces, Entering
  <2>2. call[t] = NoCall
    BY <1>10, <2>1 DEF CheckState, Exchange, Spin, Read, Configuring
  <2>3. UNCHANGED <<env, enabled, call, mask, historyVars>> /\ \A u \in Thread \ {t} : pc'[u] = pc[u]
    BY <1>10 DEF CheckState, Exchange, Spin, Read
  <2> QED  BY <2>2, <2>3 DEF Outcome
<1>11. CASE UNCHANGED vars
  BY <1>11 DEF vars, Outcome
<1> QED  BY <1>1, <1>3, <1>4, <1>5, <1>7, <1>8, <1>9, <1>10, <1>11 DEF Next, Step

-----------------------------------------------------------------------------
(* The three parts together are inductive.                                  *)
LEMMA FilterInvariant == Spec => []IInv
<1>1. Init => IInv  BY InitInvariant
<1>2. IInv /\ [Next]_vars => IInv'
  BY TypeStep, PlacesStep, EnvironmentStep, UndisturbedStep DEF IInv
<1> QED  BY <1>1, <1>2, PTL DEF Spec

(* Whoever loses the race to load EDEN_LOG_LEVEL, every thread decides by   *)
(* its value as long as nobody configures the filter.                       *)
THEOREM EnvironmentAlwaysDecides == Spec => []EnvDecidesFirst
<1>1. IInv => EnvDecidesFirst
  BY DEF IInv, EnvironmentLoaded, LoadedFrom, EnvDecidesFirst
<1> QED  BY <1>1, FilterInvariant, PTL

(* A configuration call that no other and no first load of the environment  *)
(* overlaps or follows leaves exactly the levels its outcome says over the  *)
(* mask it began with, whichever calls made that mask; that includes the    *)
(* disable that empties the mask and so leaves every level emitted.         *)
THEOREM LastCallAlwaysHolds == Spec => []LastCallHolds
<1>1. IInv => LastCallHolds  BY DEF IInv, Undisturbed
<1> QED  BY <1>1, FilterInvariant, PTL
=============================================================================
