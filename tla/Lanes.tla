-------------------------------- MODULE Lanes --------------------------------
(***************************************************************************)
(* The thread-local producer lanes (eden_logger_export/src/collector.rs):  *)
(* threads register a lane, push into it and close it when they end; the   *)
(* worker retires, takes and merges the lanes into its inbox.  The         *)
(* registry has one lock, every lane another, so a drain is not a snapshot. *)
(* A thread stands for its lane.  Admission has been granted already.      *)
(***************************************************************************)
EXTENDS Integers, Sequences, FiniteSets, SequencesExt

CONSTANTS
    Thread,    \* threads that log
    Log,       \* records, each pushed at most once
    By,        \* the thread that logs each record
    Priority,  \* records the reserved queue admits when the normal one does not
    Quantum    \* DRAIN_QUANTUM

Queue == {"Normal", "Reserved"}

ASSUME LanesAssumption ==
    /\ IsFiniteSet(Thread) /\ IsFiniteSet(Log)
    /\ By \in [Log -> Thread] /\ Priority \subseteq Log
    /\ Quantum \in Nat \ {0}

VARIABLES
    registry, cursor,  \* LaneRegistry
    queues, closed,    \* ProducerLane.queues, ProducerLane.closed
    tpc,               \* each thread's place in submit
    producer_lanes,    \* metrics.producer_lanes
    permit,            \* Shared::records
    released,          \* the sink has been released
    wpc, ordered, taken,  \* the worker in drain_into: its place, the lanes, their contents
    inbox,             \* WorkerInput, with everything it ever received
    pushed             \* history: what each thread pushed

laneVars == <<registry, cursor, producer_lanes>>
threadVars == <<queues, closed, tpc, pushed>>
workerVars == <<wpc, ordered, taken, inbox>>
vars == <<laneVars, threadVars, permit, released, workerVars>>

(* The elements of a sequence that are in a set, in their order.            *)
Only(s, S) == FlattenSeq([i \in DOMAIN s |-> IF s[i] \in S THEN <<s[i]>> ELSE <<>>])

EmptyLane == [q \in Queue |-> <<>>]
IsEmpty(lane) == \A q \in Queue : lane[q] = <<>>

(* A thread in one of these places is inside the sink callback.             *)
InCallback == {"count", "submit", "wake"}

-----------------------------------------------------------------------------
Init ==
    /\ registry = <<>> /\ cursor = 0 /\ producer_lanes = 0
    /\ queues = [t \in Thread |-> EmptyLane]
    /\ closed = [t \in Thread |-> FALSE]
    /\ tpc = [t \in Thread |-> "new"]
    /\ pushed = [t \in Thread |-> EmptyLane]
    /\ permit = FALSE /\ released = FALSE
    /\ wpc = "wait" /\ ordered = <<>> /\ taken = <<>> /\ inbox = EmptyLane

Goto(t, place) == tpc' = [tpc EXCEPT ![t] = place]

(* LogCollector::submit finds the thread's lane or registers one.           *)
Register(t) ==
    /\ tpc[t] = "new" /\ ~released
    /\ registry' = Append(registry, t)
    /\ Goto(t, "count")
    /\ UNCHANGED <<cursor, producer_lanes, queues, closed, pushed, permit, released, workerVars>>

CountLane(t) ==
    /\ tpc[t] = "count"
    /\ producer_lanes' = producer_lanes + 1
    /\ Goto(t, "submit")
    /\ UNCHANGED <<registry, cursor, queues, closed, pushed, permit, released, workerVars>>

Submit(t) ==
    /\ tpc[t] = "ready" /\ ~released
    /\ Goto(t, "submit")
    /\ UNCHANGED <<laneVars, queues, closed, pushed, permit, released, workerVars>>

Unpushed == {r \in Log : \A q \in Queue : r \notin ToSet(pushed[By[r]][q])}
Applicable(r) == IF r \in Priority THEN Queue ELSE {"Normal"}

(* ProducerLane::push, under the lane's lock; refused records push nothing. *)
Appends(t, r, q) ==
    /\ By[r] = t
    /\ queues' = [queues EXCEPT ![t][q] = Append(@, r)]
    /\ pushed' = [pushed EXCEPT ![t][q] = Append(@, r)]

Push_sees_itself(t) ==
    /\ tpc[t] = "submit"
    /\ \/ \E r \in Unpushed : \E q \in Applicable(r) : Appends(t, r, q) /\ Goto(t, "ready")
       \/ Goto(t, "ready") /\ UNCHANGED <<queues, pushed>>
    /\ UNCHANGED <<laneVars, closed, permit, released, workerVars>>
Push(t) ==
    /\ tpc[t] = "submit"
    /\ \/ \E r \in Unpushed : \E q \in Applicable(r) :
             /\ Appends(t, r, q)
             /\ Goto(t, IF IsEmpty(queues[t]) THEN "wake" ELSE "ready")
       \/ Goto(t, "ready") /\ UNCHANGED <<queues, pushed>>
    /\ UNCHANGED <<laneVars, closed, permit, released, workerVars>>

Wake(t) ==
    /\ tpc[t] = "wake"
    /\ permit' = TRUE
    /\ Goto(t, "ready")
    /\ UNCHANGED <<laneVars, queues, closed, pushed, released, workerVars>>

(* The thread ends: LocalProducer::drop closes the lane, if it is alive,    *)
(* then notifies the worker.                                                *)
Exit(t) ==
    /\ tpc[t] = "ready"
    /\ closed' = [closed EXCEPT ![t] = TRUE]
    /\ Goto(t, "exit_wake")
    /\ UNCHANGED <<laneVars, queues, pushed, permit, released, workerVars>>

ExitWakes_not(t) ==
    /\ tpc[t] = "exit_wake"
    /\ Goto(t, "gone")
    /\ UNCHANGED <<laneVars, queues, closed, pushed, permit, released, workerVars>>
ExitWakes(t) ==
    /\ tpc[t] = "exit_wake"
    /\ permit' = TRUE
    /\ Goto(t, "gone")
    /\ UNCHANGED <<laneVars, queues, closed, pushed, released, workerVars>>

-----------------------------------------------------------------------------
(* The worker: drain_into.                                                  *)

Awaken ==
    /\ wpc = "wait" /\ permit
    /\ permit' = FALSE
    /\ wpc' = "busy"
    /\ UNCHANGED <<laneVars, threadVars, released, ordered, taken, inbox>>

(* retain drops the lanes that are closed and empty.  A thread closes its   *)
(* lane after its last push, so a lane seen closed stays as empty as it is. *)
Retired_once_closed(t) == closed[t]
Retired(t) == closed[t] /\ IsEmpty(queues[t])

Rotated(s, start) == [i \in DOMAIN s |-> s[((start + i - 1) % Len(s)) + 1]]

StartDrain_gauge_kept ==
    LET kept == Only(registry, {t \in Thread : ~Retired(t)})
    IN  /\ wpc = "busy"
        /\ registry' = kept
        /\ IF kept = <<>>
           THEN cursor' = 0 /\ wpc' = "wait" /\ UNCHANGED ordered
           ELSE LET start == cursor % Len(kept)
                IN  /\ ordered' = Rotated(kept, start)
                    /\ cursor' = (start + 1) % Len(kept)
                    /\ wpc' = "take"
        /\ UNCHANGED <<threadVars, permit, released, taken, inbox, producer_lanes>>
StartDrain ==
    LET kept == Only(registry, {t \in Thread : ~Retired(t)})
    IN  /\ wpc = "busy"
        /\ registry' = kept
        /\ producer_lanes' = producer_lanes - (Len(registry) - Len(kept))
        /\ IF kept = <<>>
           THEN cursor' = 0 /\ wpc' = "wait" /\ UNCHANGED ordered
           ELSE LET start == cursor % Len(kept)
                IN  /\ ordered' = Rotated(kept, start)
                    /\ cursor' = (start + 1) % Len(kept)
                    /\ wpc' = "take"
        /\ UNCHANGED <<threadVars, permit, released, taken, inbox>>

(* ProducerLane::take swaps one lane's queues for empty ones.               *)
Take ==
    /\ wpc = "take" /\ Len(taken) < Len(ordered)
    /\ LET t == ordered[Len(taken) + 1]
       IN  /\ taken' = Append(taken, queues[t])
           /\ queues' = [queues EXCEPT ![t] = EmptyLane]
    /\ UNCHANGED <<laneVars, closed, tpc, pushed, permit, released, wpc, ordered, inbox>>

(* drain_batches: passes of at most one quantum from each lane.             *)
Slice(s, pass) == SubSeq(s, (pass - 1) * Quantum + 1, IF pass * Quantum < Len(s) THEN pass * Quantum ELSE Len(s))
Merged_lane_by_lane(q) == FlattenSeq([i \in DOMAIN taken |-> taken[i][q]])
Merged(q) ==
    FlattenSeq([pass \in 1 .. Cardinality(Log) |->
        FlattenSeq([i \in DOMAIN taken |-> Slice(taken[i][q], pass)])])

FinishDrain ==
    /\ wpc = "take" /\ Len(taken) = Len(ordered)
    /\ inbox' = [q \in Queue |-> inbox[q] \o Merged(q)]
    /\ wpc' = IF \A q \in Queue : Merged(q) = <<>> THEN "wait" ELSE "busy"
    /\ ordered' = <<>> /\ taken' = <<>>
    /\ UNCHANGED <<laneVars, threadVars, permit, released>>

(* Shutdown releases the sink; a failed worker clears the lanes once no     *)
(* dispatch is left in the callback.                                        *)
ReleaseSink ==
    /\ ~released
    /\ released' = TRUE
    /\ UNCHANGED <<laneVars, threadVars, permit, workerVars>>

ProducersClosed_at_release == released
ProducersClosed == released /\ \A t \in Thread : tpc[t] \notin InCallback

Clear ==
    /\ wpc = "busy" /\ ProducersClosed
    /\ registry' = <<>> /\ cursor' = 0 /\ producer_lanes' = 0
    /\ queues' = [t \in Thread |-> EmptyLane]
    /\ wpc' = "cleared"
    /\ UNCHANGED <<closed, tpc, pushed, permit, released, ordered, taken, inbox>>

Return(t) == CountLane(t) \/ Push(t) \/ Wake(t) \/ ExitWakes(t)
Drain == Awaken \/ StartDrain \/ Take \/ FinishDrain

Next ==
    \/ \E t \in Thread : Register(t) \/ Submit(t) \/ Return(t) \/ Exit(t)
    \/ Drain \/ ReleaseSink \/ Clear

Spec == Init /\ [][Next]_vars

(* The threads leave the callback, the worker task is polled when woken.    *)
FairSpec == Spec /\ WF_vars(Drain) /\ \A t \in Thread : WF_vars(Return(t))
-----------------------------------------------------------------------------
TypeOK ==
    /\ registry \in Seq(Thread) /\ cursor \in Nat /\ producer_lanes \in Nat
    /\ queues \in [Thread -> [Queue -> Seq(Log)]] /\ closed \in [Thread -> BOOLEAN]
    /\ tpc \in [Thread -> {"new", "ready", "exit_wake", "gone"} \cup InCallback]
    /\ pushed \in [Thread -> [Queue -> Seq(Log)]]
    /\ permit \in BOOLEAN /\ released \in BOOLEAN
    /\ wpc \in {"wait", "busy", "take", "cleared"}
    /\ ordered \in Seq(Thread) /\ taken \in Seq([Queue -> Seq(Log)])
    /\ inbox \in [Queue -> Seq(Log)]

(* The metric counts the registered lanes, but for those being registered.  *)
LaneGaugeExact ==
    /\ TypeOK
    /\ producer_lanes + Cardinality({t \in Thread : tpc[t] = "count"}) = Len(registry)

(* Nothing is lost or reordered on the way: what a thread pushed to a queue *)
(* is what the inbox received of it, followed by what the worker holds,     *)
(* followed by what is in a lane that is still registered, also when the    *)
(* thread has ended meanwhile.                                              *)
Held(t, q) == FlattenSeq([i \in DOMAIN taken |-> IF ordered[i] = t THEN taken[i][q] ELSE <<>>])
LanesKeepOrder ==
    wpc # "cleared" =>
        \A t \in Thread, q \in Queue :
            pushed[t][q] = Only(inbox[q], {r \in Log : By[r] = t}) \o Held(t, q)
                           \o (IF t \in ToSet(registry) THEN queues[t][q] ELSE <<>>)

(* submit dereferences a raw pointer to its lane: the lane is still owned   *)
(* by the registry whenever a thread is inside submit_to_lane.              *)
PointersStayValid == \A t \in Thread : tpc[t] = "submit" \/ tpc[t] = "wake" => t \in ToSet(registry)

(* A worker that sleeps while a lane holds records is about to be woken:    *)
(* only the push into an empty lane notifies, and takes may come between.   *)
WokenWhenRecordsWait ==
    wpc = "wait" /\ (\E t \in ToSet(registry) : ~IsEmpty(queues[t]))
    => permit \/ \E t \in Thread : tpc[t] = "wake"

(* "A single noisy producer cannot starve other threads": in what a drain   *)
(* delivers, no lane is more than a quantum ahead of another lane that      *)
(* still has records to deliver.                                            *)
Count(s, t, n) == Cardinality({i \in 1 .. n : By[s[i]] = t})
Even(s) ==
    \A n \in 0 .. Len(s) : \A t, u \in Thread :
        Count(s, u, n) < Count(s, u, Len(s)) => Count(s, t, n) <= Count(s, u, n) + Quantum
DrainIsFair ==
    [][\A q \in Queue : Even(SubSeq(inbox'[q], Len(inbox[q]) + 1, Len(inbox'[q])))]_vars

(* The lane of a thread that has ended is retired, its records delivered,   *)
(* without another record to trigger it.                                    *)
ExitedLanesRetire == \A t \in Thread : tpc[t] = "gone" ~> t \notin ToSet(registry)
=============================================================================
