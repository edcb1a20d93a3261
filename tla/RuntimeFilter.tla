---------------------------- MODULE RuntimeFilter ----------------------------
(***************************************************************************)
(* The runtime level filter (eden_logger/src/filter.rs): one mask of       *)
(* levels and one initialization flag, two independent atomics that every  *)
(* thread reads before it logs and any thread may rewrite.  The first      *)
(* thread to log loads EDEN_LOG_LEVEL while the others spin.  One action   *)
(* is one atomic operation.                                                *)
(***************************************************************************)
EXTENDS FiniteSets

CONSTANTS
    Thread,     \* application threads
    Level,      \* log levels
    Calls,      \* the configuration calls threads make
    Env         \* what EDEN_LOG_LEVEL may be: NotSet or a value

DisabledAll == "0x80"         \* bit 7, no level
NotSet == {"not set"}
Off == {"off"}                \* "", "none" and "off", the explicit disable-all markers
Value == {Off} \cup SUBSET Level   \* otherwise the names that are levels; others are skipped
Call == [kind : {"enable", "disable"}, arg : SUBSET Level]
        \cup [kind : {"init_from_value"}, arg : Value]
        \cup [kind : {"clear", "init_from_env"}, arg : {{}}]

ASSUME FilterAssumption ==
    /\ Calls \subseteq Call
    /\ Env \subseteq {NotSet} \cup Value
    /\ DisabledAll \notin Level

VARIABLES
    env,       \* EDEN_LOG_LEVEL in the process's environment
    enabled,   \* ENABLED_LEVELS, as the set of its bits
    state,     \* FILTER_STATE
    pc,        \* each thread's place in its call
    call,      \* the configuration call it is in
    asked,     \* the level should_log was called for
    mask,      \* the mask a read-modify-write has loaded
    answer,    \* what should_log last answered
    \* history: the calls that nothing overlaps, the last such call, the mask that
    \* it found when it began, whether there was any call
    alone, last, before, touched

historyVars == <<alone, last, before, touched>>
vars == <<env, enabled, state, pc, call, asked, mask, answer, historyVars>>

None == "None"
NoCall == [kind |-> None, arg |-> {}]

Configuring == {"load", "store", "publish", "env_store", "env_publish"}

-----------------------------------------------------------------------------
Init ==
    /\ env \in Env
    /\ enabled = {} /\ state = "Uninitialized"
    /\ pc = [t \in Thread |-> "idle"]
    /\ call = [t \in Thread |-> NoCall]
    /\ asked = [t \in Thread |-> None]
    /\ mask = [t \in Thread |-> {}]
    /\ answer = [t \in Thread |-> None]
    /\ alone = [t \in Thread |-> FALSE] /\ last = NoCall
    /\ before = {} /\ touched = FALSE

(* init_from_value: what the mask becomes.                                  *)
MaskOf(value) == IF value = Off THEN {DisabledAll} ELSE value

(* The decision of should_log: exactly bit 7 silences all, no bit at all    *)
(* allows all, otherwise the level's own bit decides.                       *)
Emits_any_bit7(bits, level) ==
    /\ DisabledAll \notin bits
    /\ bits = {} \/ level \in bits
Emits(bits, level) ==
    /\ bits # {DisabledAll}
    /\ bits = {} \/ level \in bits

Answer(bits, level) == IF Emits(bits, level) THEN "emit" ELSE "skip"

Goto(t, place) == pc' = [pc EXCEPT ![t] = place]

-----------------------------------------------------------------------------
(* Configuration calls.                                                     *)

Entry(kind) == IF kind \in {"enable", "disable"} THEN "load"
               ELSE IF kind = "init_from_env" THEN "env_store" ELSE "store"

Configure(t, c) ==
    /\ pc[t] = "idle"
    /\ c \in Calls
    /\ Goto(t, Entry(c.kind))
    /\ call' = [call EXCEPT ![t] = c]
    /\ touched' = TRUE /\ last' = NoCall
    /\ alone' = [u \in Thread |-> u = t /\ \A v \in Thread : call[v] = NoCall]
    /\ before' = IF alone'[t] THEN enabled ELSE {}
    /\ UNCHANGED <<env, enabled, state, asked, mask, answer>>

(* enable_levels and disable_levels load the mask and store it later: two   *)
(* of them that overlap lose an update.                                     *)
LoadMask(t) ==
    /\ pc[t] = "load"
    /\ mask' = [mask EXCEPT ![t] = enabled]
    /\ Goto(t, "store")
    /\ UNCHANGED <<env, enabled, state, call, asked, answer, historyVars>>

NewMask(t) ==
    [enable |-> mask[t] \cup call[t].arg,
     disable |-> mask[t] \ call[t].arg,
     init_from_value |-> MaskOf(call[t].arg),
     clear |-> {}][call[t].kind]

StoreMask(t) ==
    /\ pc[t] = "store"
    /\ enabled' = NewMask(t)
    /\ Goto(t, "publish")
    /\ UNCHANGED <<env, state, call, asked, mask, answer, historyVars>>

Returns(t) ==
    /\ Goto(t, "idle")
    /\ call' = [call EXCEPT ![t] = NoCall]
    /\ mask' = [mask EXCEPT ![t] = {}]
    /\ last' = IF alone[t] THEN call[t] ELSE NoCall
    /\ alone' = [alone EXCEPT ![t] = FALSE]
    /\ UNCHANGED <<before, touched>>

Publish(t) ==
    /\ pc[t] = "publish"
    /\ state' = "Initialized"
    /\ Returns(t)
    /\ UNCHANGED <<env, enabled, asked, answer>>

(* init_from_env, called to reload or by the first thread that logs.  It    *)
(* publishes again after init_from_value did; the flag never goes back.     *)
EnvStore(t) ==
    /\ pc[t] = "env_store"
    /\ enabled' = IF env = NotSet THEN enabled ELSE MaskOf(env)
    /\ Goto(t, "env_publish")
    /\ IF call[t] = NoCall /\ env # NotSet
       THEN /\ last' = NoCall /\ alone' = [u \in Thread |-> FALSE]
            /\ UNCHANGED <<before, touched>>
       ELSE UNCHANGED historyVars
    /\ UNCHANGED <<env, state, call, asked, mask, answer>>

EnvPublish_only_if_set(t) ==
    /\ pc[t] = "env_publish"
    /\ state' = IF env = NotSet THEN state ELSE "Initialized"
    /\ IF call[t] = NoCall
       THEN Goto(t, "read") /\ UNCHANGED <<call, mask, historyVars>>
       ELSE Returns(t)
    /\ UNCHANGED <<env, enabled, asked, answer>>
EnvPublish(t) ==
    /\ pc[t] = "env_publish"
    /\ state' = "Initialized"
    /\ IF call[t] = NoCall
       THEN Goto(t, "read") /\ UNCHANGED <<call, mask, historyVars>>
       ELSE Returns(t)
    /\ UNCHANGED <<env, enabled, asked, answer>>

-----------------------------------------------------------------------------
(* should_log and ensure_filter_initialized.                                *)

LogUnchanged == UNCHANGED <<env, enabled, call, mask, historyVars>>

ShouldLog(t, level) ==
    /\ pc[t] = "idle"
    /\ asked' = [asked EXCEPT ![t] = level]
    /\ answer' = [answer EXCEPT ![t] = None]
    /\ Goto(t, "check")
    /\ UNCHANGED state
    /\ LogUnchanged

CheckState(t) ==
    /\ pc[t] = "check"
    /\ Goto(t, [Initialized |-> "read", Uninitialized |-> "exchange",
                Initializing |-> "spin"][state])
    /\ UNCHANGED <<state, asked, answer>>
    /\ LogUnchanged

(* compare_exchange: one thread wins and loads the environment itself.      *)
Exchange_loser_goes_on(t) ==
    /\ pc[t] = "exchange"
    /\ IF state = "Uninitialized"
       THEN state' = "Initializing" /\ Goto(t, "env_store")
       ELSE Goto(t, "read") /\ UNCHANGED state
    /\ UNCHANGED <<asked, answer>>
    /\ LogUnchanged
Exchange(t) ==
    /\ pc[t] = "exchange"
    /\ IF state = "Uninitialized"
       THEN state' = "Initializing" /\ Goto(t, "env_store")
       ELSE /\ Goto(t, IF state = "Initialized" THEN "read" ELSE "spin")
            /\ UNCHANGED state
    /\ UNCHANGED <<asked, answer>>
    /\ LogUnchanged

Spin(t) ==
    /\ pc[t] = "spin"
    /\ Goto(t, IF state = "Initialized" THEN "read" ELSE "spin")
    /\ UNCHANGED <<state, asked, answer>>
    /\ LogUnchanged

Read(t) ==
    /\ pc[t] = "read"
    /\ answer' = [answer EXCEPT ![t] = Answer(enabled, asked[t])]
    /\ Goto(t, "idle")
    /\ UNCHANGED <<state, asked>>
    /\ LogUnchanged

Step(t) ==
    \/ LoadMask(t) \/ StoreMask(t) \/ Publish(t) \/ EnvStore(t) \/ EnvPublish(t)
    \/ CheckState(t) \/ Exchange(t) \/ Spin(t) \/ Read(t)

Next ==
    \/ \E t \in Thread, level \in Level : ShouldLog(t, level)
    \/ \E t \in Thread, c \in Calls : Configure(t, c)
    \/ \E t \in Thread : Step(t)

Spec == Init /\ [][Next]_vars

(* Threads are scheduled: a spinning thread cannot keep the one it waits    *)
(* for from running.                                                        *)
FairSpec == Spec /\ \A t \in Thread : WF_vars(Step(t))
-----------------------------------------------------------------------------
TypeOK ==
    /\ env \in Env
    /\ enabled \subseteq Level \cup {DisabledAll}
    /\ state \in {"Uninitialized", "Initializing", "Initialized"}
    /\ pc \in [Thread -> {"idle", "check", "exchange", "spin", "read"} \cup Configuring]
    /\ call \in [Thread -> Calls \cup {NoCall}]
    /\ asked \in [Thread -> Level \cup {None}]
    /\ mask \in [Thread -> SUBSET (Level \cup {DisabledAll})]
    /\ answer \in [Thread -> {"emit", "skip", None}]
    /\ alone \in [Thread -> BOOLEAN] /\ last \in Calls \cup {NoCall}
    /\ before \subseteq Level \cup {DisabledAll} /\ touched \in BOOLEAN

(* filter.rs, "If EDEN_LOG_LEVEL is set to specific levels, only those are  *)
(* emitted": whoever loses the race to initialize, no thread decides on the *)
(* mask of a filter whose environment has not been read yet.                *)
EnvDecidesFirst ==
    /\ TypeOK
    /\ ~touched /\ env # NotSet =>
        \A t \in Thread : answer[t] # None => answer[t] = Answer(MaskOf(env), asked[t])

(* The levels that are emitted after a call that began over the mask bits.  *)
(* enable adds its levels to those of the mask, so from no filter, or from  *)
(* all disabled, they become the only ones; a value names its levels, "off" *)
(* none, and a value without a known name leaves no filter; disable takes   *)
(* its levels away.  filter.rs:122 says that disable_levels removes from    *)
(* the enabled set; the code does not when that leaves no bit in the mask,  *)
(* as with no filter set: should_log reads 0 as no filter (filter.rs:185),  *)
(* so every level is emitted, the disabled ones too.                        *)
Emitted(bits) == {l \in Level : Emits(bits, l)}
Named(value) == IF value = Off THEN {} ELSE IF value = {} THEN Level ELSE value
Outcome(bits, c) ==
    CASE c.kind = "enable" -> IF c.arg = {} THEN Emitted(bits) ELSE c.arg \cup (bits \cap Level)
      [] c.kind = "disable" -> IF bits \subseteq c.arg THEN Level ELSE Emitted(bits) \ c.arg
      [] c.kind = "init_from_value" -> Named(c.arg)
      [] c.kind = "init_from_env" -> IF env = NotSet THEN Emitted(bits) ELSE Named(env)
      [] c.kind = "clear" -> Level

(* A configuration call that nothing overlaps leaves exactly its outcome    *)
(* over the mask it began with, until the next call or first load begins.   *)
LastCallHolds == last # NoCall => Emitted(enabled) = Outcome(before, last)

(* No caller of should_log spins forever: whoever won the right to load the *)
(* environment releases the others, whether the variable is set or not.     *)
EveryCallReturns == \A t \in Thread : pc[t] # "idle" ~> pc[t] = "idle"
=============================================================================
