----------------------------- MODULE Generations -----------------------------
(***************************************************************************)
(* Exporter handles over the typed sink registry (eden_logger_export:      *)
(* install_on, reconfigure, shutdown, drop).  Every install and every      *)
(* reconfiguration prepares a generation: an acceptance flag, a collector  *)
(* and a worker task.  The generation's callback is what the handle puts   *)
(* into the registry's slot; the fence that tells the worker that no       *)
(* producer is left lives in that callback, so it closes when the registry, *)
(* the registration and the dispatching threads have all let go of it.     *)
(*                                                                         *)
(* Registry is the module SinkRegistry, step by step.  A generation's      *)
(* worker is kept to what a handle can tell: how much it holds, and how it *)
(* ended.  Module Exporter has its steps, and a worker that panics.        *)
(***************************************************************************)
EXTENDS Naturals, FiniteSets

CONSTANTS
    Type, Thread, Handle, TypeOf, Callback,  \* see SinkRegistry
    Exporter,    \* the handles that are ExporterHandle values
    MaxBacklog   \* records a generation holds before it refuses more

None == "None"

ASSUME GenerationsAssumption ==
    /\ IsFiniteSet(Type)
    /\ TypeOf \in [Handle -> Type]
    /\ Exporter \subseteq Handle
    /\ None \notin Handle \cup Callback
    /\ MaxBacklog \in Nat \ {0}

VARIABLES
    known, slot, active, lock, hpc, own, new, tpc, wanted, cached, holds, used, retired,
    accepting,   \* generations whose Shared::accepting is set
    stopping,    \* generations stop_acceptance has run for
    aborting,    \* generations whose living worker was told to abort
    detached,    \* those whose living worker's JoinHandle was dropped unaborted
    worker,      \* each generation's worker task
    backlog,     \* records accepted and not yet settled
    epc,         \* each exporter handle: the call it is in
    gen,         \* ExporterHandle.shared: its generation
    other,       \* the generation being prepared or drained
    visit,       \* each thread: its place in the callback make_sink returns
    steady       \* history: no call of the handle since the thread began to dispatch

Registry == INSTANCE SinkRegistry

registryVars == <<known, slot, active, lock, hpc, own, new, tpc, wanted, cached, holds, used, retired>>
generationVars == <<accepting, stopping, aborting, detached, worker, backlog>>
exporterVars == <<epc, gen, other>>
visitVars == <<visit, steady>>
vars == <<registryVars, generationVars, exporterVars, visitVars>>

Alive == {"running", "dry", "parked"}
Done == {"stopped", "aborted"}

Init ==
    /\ Registry!Init
    /\ accepting = {} /\ stopping = {} /\ aborting = {} /\ detached = {}
    /\ worker = [g \in Callback |-> "none"]
    /\ backlog = [g \in Callback |-> 0]
    /\ epc = [e \in Exporter |-> "none"]
    /\ gen = [e \in Exporter |-> None] /\ other = [e \in Exporter |-> None]
    /\ visit = [t \in Thread |-> "out"] /\ steady = [t \in Thread |-> FALSE]

(* The callback's last reference is gone: ProducerFence::drop has run.      *)
Closed_when_released(g) == g \in used /\ \A T \in Type : slot[T] # g
Closed(g) ==
    /\ g \in used
    /\ \A T \in Type : slot[T] # g
    /\ \A h \in Handle : own[h] # g /\ new[h] # g
    /\ \A t \in Thread : holds[t] # g

-----------------------------------------------------------------------------
(* The registry on its own: handles inside a call, and sinks that are not   *)
(* exporters.                                                               *)
Plain == Handle \ Exporter

RegistrySteps ==
    /\ \/ \E h \in Handle : Registry!HandleStep(h)
       \/ \E h \in Plain, c \in Callback : Registry!RegisterCalls(h, c) \/ Registry!ReplaceCalls(h, c)
       \/ \E h \in Plain : Registry!DisableCalls(h) \/ Registry!Forget(h)
    /\ UNCHANGED <<generationVars, exporterVars, visitVars>>

-----------------------------------------------------------------------------
(* Dispatching threads, and the exporter's callback.                        *)
ThreadSteps ==
    /\ \E t \in Thread : Registry!LoadActive(t) \/ Registry!Resolve(t) \/ Registry!LoadCallback(t)
    /\ steady' = [t \in Thread |-> steady[t] /\ tpc'[t] # "idle"]
    /\ UNCHANGED <<generationVars, exporterVars, visit>>

Dispatch(t, T) ==
    /\ Registry!Dispatch(t, T)
    /\ steady' = [steady EXCEPT ![t] = \E e \in Exporter : TypeOf[e] = T /\ epc[e] \in {"open", "draining"}]
    /\ UNCHANGED <<generationVars, exporterVars, visit>>

Inside(t, place) == tpc[t] = "inside" /\ worker[holds[t]] # "none" /\ visit[t] = place
Visits(t, place) == visit' = [visit EXCEPT ![t] = place]

CheckAccepting(t) ==
    /\ Inside(t, "out")
    /\ Visits(t, IF holds[t] \in accepting THEN "admitted" ELSE "stopped")
    /\ UNCHANGED <<registryVars, generationVars, exporterVars, steady>>

(* The collector outlives its worker while a callback holds it: a record    *)
(* submitted after an abort is accepted and never exported.                 *)
Submit(t) ==
    LET g == holds[t]
    IN  /\ Inside(t, "admitted")
        /\ \/ /\ backlog[g] < MaxBacklog
              /\ backlog' = [backlog EXCEPT ![g] = @ + 1]
              /\ Visits(t, "taken")
           \/ /\ backlog[g] = MaxBacklog
              /\ UNCHANGED backlog
              /\ Visits(t, "full")
        /\ UNCHANGED <<registryVars, accepting, stopping, aborting, detached, worker, exporterVars, steady>>

Decided == {"stopped", "taken", "full"}

CallbackReturns(t) ==
    /\ tpc[t] = "inside" => worker[holds[t]] = "none" \/ visit[t] \in Decided
    /\ Registry!CallbackReturns(t)
    /\ Visits(t, "out")
    /\ steady' = [steady EXCEPT ![t] = FALSE]
    /\ UNCHANGED <<generationVars, exporterVars>>
-----------------------------------------------------------------------------
(* The worker of a generation.                                              *)
WorkerBecomes(g, place) ==
    /\ worker' = [worker EXCEPT ![g] = place]
    /\ IF place \in Done
       THEN aborting' = aborting \ {g} /\ detached' = detached \ {g}
       ELSE UNCHANGED <<aborting, detached>>
    /\ UNCHANGED <<registryVars, accepting, stopping, exporterVars, visitVars>>

WorkerSettles(g) ==
    /\ worker[g] = "running" /\ backlog[g] > 0
    /\ backlog' = [backlog EXCEPT ![g] = @ - 1]
    /\ WorkerBecomes(g, "running")

(* A permanent collector error parks the worker with what it holds.         *)
WorkerFails(g) ==
    /\ worker[g] = "running" /\ backlog[g] > 0
    /\ UNCHANGED backlog
    /\ WorkerBecomes(g, "parked")

(* Shutting down: the inbox is looked at first, the fence afterwards.       *)
WorkerFindsNothing(g) ==
    /\ worker[g] = "running" /\ g \in stopping /\ backlog[g] = 0
    /\ UNCHANGED backlog
    /\ WorkerBecomes(g, "dry")

WorkerReadsFence(g) ==
    /\ worker[g] = "dry"
    /\ UNCHANGED backlog
    /\ WorkerBecomes(g, IF Closed(g) THEN "stopped" ELSE "running")

(* The parked worker waits for the shutdown and the fence, then drops all.  *)
WorkerGivesUp(g) ==
    /\ worker[g] = "parked" /\ g \in stopping /\ Closed(g)
    /\ backlog' = [backlog EXCEPT ![g] = 0]
    /\ WorkerBecomes(g, "stopped")

(* What an aborted worker held is gone.                                     *)
WorkerAborts(g) ==
    /\ worker[g] \in Alive /\ g \in aborting
    /\ backlog' = [backlog EXCEPT ![g] = 0]
    /\ WorkerBecomes(g, "aborted")

WorkerSteps(g) ==
    \/ WorkerSettles(g) \/ WorkerFails(g)
    \/ WorkerFindsNothing(g) \/ WorkerReadsFence(g) \/ WorkerGivesUp(g)
    \/ WorkerAborts(g)
-----------------------------------------------------------------------------
(* Exporter handles.                                                        *)
Goto(e, place) == epc' = [epc EXCEPT ![e] = place]

(* prepare_generation: validated, its worker spawned, nothing routed to it. *)
Prepare(g) ==
    /\ accepting' = accepting \cup {g}
    /\ worker' = [worker EXCEPT ![g] = "running"]
    /\ UNCHANGED <<stopping, aborting, detached, backlog>>

(* JoinHandle::abort, which has no effect on a task that has ended.         *)
Abort(g) == aborting' = IF worker[g] \in Alive THEN aborting \cup {g} ELSE aborting

StopAcceptance(g) ==
    /\ accepting' = accepting \ {g}
    /\ stopping' = stopping \cup {g}
    /\ UNCHANGED <<detached, worker, backlog>>

Disturbs(e) == steady' = [t \in Thread |-> steady[t] /\ wanted[t] # TypeOf[e]]

Install(e, g) ==
    /\ epc[e] = "none"
    /\ Registry!RegisterCalls(e, g)
    /\ Prepare(g)
    /\ Goto(e, "installing")
    /\ gen' = [gen EXCEPT ![e] = g]
    /\ UNCHANGED <<other, visitVars>>

(* The registration was refused: the prepared generation is taken down.     *)
InstallFails(e) ==
    /\ epc[e] = "installing" /\ hpc[e] = "free"
    /\ StopAcceptance(gen[e])
    /\ Abort(gen[e])
    /\ Goto(e, "none")
    /\ gen' = [gen EXCEPT ![e] = None]
    /\ UNCHANGED <<registryVars, other, visitVars>>

InstallSucceeds(e) ==
    /\ epc[e] = "installing" /\ hpc[e] = "held"
    /\ Goto(e, "open")
    /\ UNCHANGED <<registryVars, generationVars, gen, other, visitVars>>

Reconfigure(e, g) ==
    /\ epc[e] = "open"
    /\ Registry!ReplaceCalls(e, g)
    /\ Prepare(g)
    /\ Goto(e, "replacing")
    /\ other' = [other EXCEPT ![e] = g]
    /\ Disturbs(e)
    /\ UNCHANGED <<gen, visit>>

(* The callback is replaced: the handle takes the new generation over and   *)
(* closes the old one.  Had the registry refused, the new one is aborted.   *)
ReplaceEnds_stops_new(e) ==
    /\ epc[e] = "replacing" /\ hpc[e] = "held"
    /\ gen' = [gen EXCEPT ![e] = other[e]]
    /\ other' = [other EXCEPT ![e] = gen[e]]
    /\ StopAcceptance(other[e])
    /\ Goto(e, "draining")
    /\ UNCHANGED <<aborting, registryVars, visitVars>>
ReplaceEnds(e) ==
    /\ epc[e] = "replacing" /\ hpc[e] = "held"
    /\ IF own[e] = other[e]
       THEN /\ gen' = [gen EXCEPT ![e] = other[e]]
            /\ other' = [other EXCEPT ![e] = gen[e]]
            /\ StopAcceptance(gen[e])
            /\ Goto(e, "draining")
            /\ UNCHANGED aborting
       ELSE /\ Abort(other[e])
            /\ other' = [other EXCEPT ![e] = None]
            /\ Goto(e, "open")
            /\ UNCHANGED <<accepting, stopping, detached, worker, backlog, gen>>
    /\ UNCHANGED <<registryVars, visitVars>>

(* shutdown and drop both stop acceptance before they release the sink.     *)
Closes(e, place) ==
    /\ epc[e] = "open"
    /\ StopAcceptance(gen[e])
    /\ Registry!DisableCalls(e)
    /\ Goto(e, place)
    /\ Disturbs(e)
    /\ UNCHANGED <<aborting, gen, other, visit>>

Shutdown(e) == Closes(e, "shutting")
Drop(e) == Closes(e, "dropping")

(* The handle is gone; its variables are free for another installation.     *)
HandleGone(e) ==
    /\ Goto(e, "none")
    /\ gen' = [gen EXCEPT ![e] = None]
    /\ other' = [other EXCEPT ![e] = None]

SinkReleased_drop_forgets_worker(e) ==
    /\ hpc[e] = "free"
    /\ \/ /\ epc[e] = "shutting"
          /\ other' = [other EXCEPT ![e] = gen[e]]
          /\ Goto(e, "ending")
          /\ UNCHANGED <<aborting, gen>>
       \/ /\ epc[e] = "dropping"
          /\ aborting' = aborting
          /\ HandleGone(e)
    /\ UNCHANGED <<registryVars, accepting, stopping, detached, worker, backlog, visitVars>>
SinkReleased(e) ==
    /\ hpc[e] = "free"
    /\ \/ /\ epc[e] = "shutting"
          /\ other' = [other EXCEPT ![e] = gen[e]]
          /\ Goto(e, "ending")
          /\ UNCHANGED <<aborting, gen>>
       \/ /\ epc[e] = "dropping"
          /\ Abort(gen[e])
          /\ HandleGone(e)
    /\ UNCHANGED <<registryVars, accepting, stopping, detached, worker, backlog, visitVars>>

(* drain_generation waits for the worker until its deadline, then aborts it *)
(* and waits for the abort.                                                 *)
Waiting == {"draining", "ending"}

DrainTimesOut_aborts_current(e) ==
    /\ epc[e] \in Waiting
    /\ worker[other[e]] \in Alive
    /\ Abort(gen[e])
    /\ UNCHANGED <<registryVars, accepting, stopping, detached, worker, backlog, exporterVars, visitVars>>
DrainTimesOut(e) ==
    /\ epc[e] \in Waiting
    /\ worker[other[e]] \in Alive
    /\ Abort(other[e])
    /\ UNCHANGED <<registryVars, accepting, stopping, detached, worker, backlog, exporterVars, visitVars>>

DrainReturns(e) ==
    /\ \/ epc[e] = "draining" /\ Goto(e, "open") /\ UNCHANGED gen /\ other' = [other EXCEPT ![e] = None]
       \/ epc[e] = "ending" /\ HandleGone(e)
    /\ UNCHANGED <<registryVars, accepting, stopping, aborting, worker, backlog, visitVars>>

DrainEnds(e) ==
    /\ epc[e] \in Waiting
    /\ worker[other[e]] \in Done
    /\ UNCHANGED detached
    /\ DrainReturns(e)

(* The caller drops the future while it waits: the worker's JoinHandle goes *)
(* with it and the task runs on, detached.  For shutdown this drops the     *)
(* handle as well, whose worker has been taken out of it.                   *)
Cancelled(e) ==
    /\ epc[e] \in Waiting
    /\ worker[other[e]] \in Alive
    /\ detached' = detached \cup {other[e]}
    /\ DrainReturns(e)

HandleSteps(e) ==
    \/ InstallFails(e) \/ InstallSucceeds(e)
    \/ ReplaceEnds(e)
    \/ SinkReleased(e)
    \/ DrainTimesOut(e) \/ DrainEnds(e)

Next ==
    \/ RegistrySteps
    \/ ThreadSteps
    \/ \E t \in Thread, T \in Type : Dispatch(t, T)
    \/ \E t \in Thread : CheckAccepting(t) \/ Submit(t) \/ CallbackReturns(t)
    \/ \E g \in Callback : WorkerSteps(g)
    \/ \E e \in Exporter, g \in Callback : Install(e, g) \/ Reconfigure(e, g)
    \/ \E e \in Exporter : Shutdown(e) \/ Drop(e) \/ Cancelled(e) \/ HandleSteps(e)

Spec == Init /\ [][Next]_vars
-----------------------------------------------------------------------------
TypeOK ==
    /\ Registry!TypeOK
    /\ {accepting, stopping, aborting, detached} \subseteq SUBSET Callback
    /\ worker \in [Callback -> {"none"} \cup Alive \cup Done]
    /\ backlog \in [Callback -> 0 .. MaxBacklog]
    /\ epc \in [Exporter -> {"none", "installing", "open", "replacing", "shutting", "dropping"} \cup Waiting]
    /\ gen \in [Exporter -> Callback \cup {None}] /\ other \in [Exporter -> Callback \cup {None}]
    /\ visit \in [Thread -> {"out", "admitted"} \cup Decided]
    /\ steady \in [Thread -> BOOLEAN]

(* What SinkRegistry promises holds in the hands of the exporter.           *)
ActiveExact == Registry!ActiveExact
NoDispatchAfterDisable == Registry!NoDispatchAfterDisable

(* An open handle works: the slot of its type routes to its generation,     *)
(* which accepts and whose worker nobody stops, whatever installs were      *)
(* refused, generations replaced, drains timed out or awaits cancelled.     *)
OpenHandleWorks ==
    \A e \in Exporter :
        epc[e] \in {"open", "draining"} =>
            /\ slot[TypeOf[e]] = gen[e]
            /\ gen[e] \in accepting
            /\ gen[e] \notin stopping \cup aborting
            /\ worker[gen[e]] \in {"running", "parked"}

(* No worker is leaked: one that lives belongs to a handle, was told to     *)
(* abort, or drains a generation whose drain the caller stopped awaiting.   *)
(* No failed install, no failed replacement and no drop leaves one behind.  *)
NoWorkerLeaked ==
    /\ TypeOK
    /\ \A g \in Callback :
        worker[g] \in Alive => \/ \E e \in Exporter : g \in {gen[e], other[e]}
                               \/ g \in aborting
                               \/ g \in detached \cap stopping

(* The fence: once a worker has stopped by itself nothing is accepted into  *)
(* its generation any more, by whatever thread and through whatever handle. *)
QuietOnceStopped ==
    [][\A g \in Callback : worker[g] = "stopped" => backlog'[g] = backlog[g]]_vars

(* "Without a logging outage": a record whose dispatch no call of the handle *)
(* overlaps reaches a generation that takes it, or refuses it because it is *)
(* full, even while the previous generation drains, times out or is         *)
(* abandoned, another handle's install is refused, or other sinks go.       *)
SteadyLogsAreTaken ==
    [][\A t \in Thread : steady[t] /\ tpc[t] # "idle" /\ tpc'[t] = "idle" => visit[t] \in {"taken", "full"}]_vars
=============================================================================
