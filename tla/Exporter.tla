------------------------------- MODULE Exporter -------------------------------
(***************************************************************************)
(* One exporter generation (eden_logger_export): producers that dispatch   *)
(* into a sink callback, their lanes, the worker task that drains, batches, *)
(* exports, retries, bisects and completes, the flush callers that wait on *)
(* its watermark, and the handle that shuts the generation down, replaces  *)
(* it or drops it.                                                         *)
(*                                                                         *)
(* Producers run on their own threads, the worker is a tokio task, flush   *)
(* and shutdown are futures: their steps interleave.  The worker's steps   *)
(* between two awaits are merged unless another actor can tell.  Admission *)
(* is one step here; module Admission has its atomic operations.           *)
(***************************************************************************)
EXTENDS RequestSize, FiniteSets

CONSTANTS
    Producer,         \* threads that log
    Log,              \* records, each dispatched at most once
    Thread,           \* the thread that logs each record
    Flusher,          \* callers of force_flush, one call each
    Priority,         \* records at or above priority_threshold
    Filtered,         \* records below min_level or of an excluded audience
    Unmappable,       \* records whose RequestFields may panic while being mapped
    Weight,           \* encoded length of a record
    Capacity,         \* normal_queue_capacity, reserved_queue_capacity
    MaxBatchRecords,  \* max_batch_records
    MaxBatchBytes,    \* max_batch_bytes, of an encoded request
    Answers,          \* how the collector may answer a request
    Closings          \* how the handle may end: shutdown, reconfigure, drop

Queue == {"Normal", "Reserved"}
AnswerKinds == {"ok", "partial", "invalid", "retryable", "terminal"}
ClosingKinds == {"shutdown", "reconfigure", "drop"}

(* ExporterConfig::validate rejects zero limits. *)
ASSUME ExporterAssumption ==
    /\ IsFiniteSet(Producer) /\ IsFiniteSet(Log) /\ Thread \in [Log -> Producer]
    /\ Priority \subseteq Log /\ Filtered \subseteq Log /\ Unmappable \subseteq Log
    /\ Weight \in [Log -> Nat \ {0}]
    /\ Capacity \in [Queue -> Nat \ {0}]
    /\ MaxBatchRecords \in Nat \ {0} /\ MaxBatchBytes \in Nat \ {0}
    /\ Answers \subseteq AnswerKinds /\ Closings \subseteq ClosingKinds

VARIABLES
    ppc, current,      \* each producer: its place in the callback, its record
    lane,              \* ProducerLane.queues of each producer
    ticket, kind,      \* QueuedLog.ticket, QueuedLog.queue
    outcome,           \* what became of each record
    next_ticket,       \* Shared::next_ticket
    depth,             \* normal_queue_depth, reserved_queue_depth
    accepting,         \* Shared::accepting
    slot,              \* the sink slot still routes to this generation
    producers_closed,  \* set by ProducerFence::drop
    permit,            \* stored permits of the Notify fields shutdown, records, flush
    wpc,               \* the worker's place
    shutting_down,     \* run_worker's local
    input,             \* WorkerInput
    pending,           \* run_worker's overflow queue
    stack,             \* the batch being built, then export_batch's pending
    completed_ticket,  \* CompletionTracker.watermark, published
    out_of_order,      \* CompletionTracker.out_of_order
    status,            \* metrics.status
    inflight,          \* metrics.inflight
    counted,           \* metrics.exported, rejected, dropped_shutdown
    fpc, target, woken, result,   \* each force_flush call
    hpc, closing, seen, report,   \* the handle: its place, how it ends, a status it read, its report
    promised           \* history: the records whose dispatch had returned before closing

producerVars == <<ppc, current, lane, ticket, kind, next_ticket>>
sharedVars == <<accepting, slot, producers_closed>>
workerVars == <<wpc, shutting_down, input, pending, stack>>
trackerVars == <<completed_ticket, out_of_order>>
flushVars == <<fpc, target, result>>
handleVars == <<hpc, closing, seen, report, promised>>
vars == <<producerVars, outcome, depth, sharedVars, permit, workerVars, trackerVars,
          status, inflight, counted, flushVars, woken, handleVars>>

None == "None"
Resolved == {"exported", "rejected", "oversize"}
Outcome == {"none", "filtered", "dropped_stopped", "dropped_full", "accepted"} \cup Resolved

(* A producer holds the callback, and so the fence, from load to return. *)
InCallback == {"loaded", "claim", "push", "wake", "leave"}

(* Where the worker is suspended and an abort takes effect. *)
Awaiting == {"receive", "gather", "send", "backoff", "await_records", "term_shutdown", "term_records"}
Ended == {"stopped", "aborted", "panicked"}
WorkerPlace == {"top", "drained", "fill", "batched", "exported", "terminal", "term_fence"} \cup Awaiting \cup Ended

Status == {"Running", "BackingOff", "TerminalFailure", "ShuttingDown", "Stopped"}
NoReport == [by |-> None, timed_out |-> FALSE, remaining |-> 0]

-----------------------------------------------------------------------------
Init ==
    /\ ppc = [p \in Producer |-> "idle"]
    /\ current = [p \in Producer |-> None]
    /\ lane = [p \in Producer |-> [q \in Queue |-> <<>>]]
    /\ ticket = [r \in Log |-> 0]
    /\ kind = [r \in Log |-> "Normal"]
    /\ outcome = [r \in Log |-> "none"]
    /\ next_ticket = 0
    /\ depth = [q \in Queue |-> 0]
    /\ accepting = TRUE /\ slot = TRUE /\ producers_closed = FALSE
    /\ permit = [shutdown |-> FALSE, records |-> FALSE, flush |-> FALSE]
    /\ wpc = "top" /\ shutting_down = FALSE
    /\ input = [q \in Queue |-> <<>>] /\ pending = <<>> /\ stack = <<>>
    /\ completed_ticket = 0 /\ out_of_order = {}
    /\ status = "Running" /\ inflight = 0
    /\ counted = [exported |-> 0, rejected |-> 0, dropped_oversize |-> 0, dropped_shutdown |-> 0]
    /\ fpc = [f \in Flusher |-> "idle"]
    /\ target = [f \in Flusher |-> 0]
    /\ woken = [f \in Flusher |-> FALSE]
    /\ result = [f \in Flusher |-> None]
    /\ hpc = "open" /\ closing = None /\ seen = "Running"
    /\ report = NoReport
    /\ promised = {}

-----------------------------------------------------------------------------
(* Producers: make_sink's callback and LogCollector::submit.               *)

ProducerUnchanged ==
    UNCHANGED <<sharedVars, workerVars, trackerVars, status, inflight, counted,
                flushVars, woken, handleVars>>

(* dispatch loads the slot's callback, which keeps the fence alive. *)
Dispatch(p, r) ==
    /\ ppc[p] = "idle" /\ slot
    /\ outcome[r] = "none" /\ Thread[r] = p
    /\ ppc' = [ppc EXCEPT ![p] = "loaded"]
    /\ current' = [current EXCEPT ![p] = r]
    /\ UNCHANGED <<lane, ticket, kind, next_ticket, outcome, depth, permit>>
    /\ ProducerUnchanged

CheckAccepting(p) ==
    LET r == current[p]
        decide(place, o) == /\ ppc' = [ppc EXCEPT ![p] = place]
                            /\ outcome' = [outcome EXCEPT ![r] = o]
    IN  /\ ppc[p] = "loaded"
        /\ \/ ~accepting /\ decide("leave", "dropped_stopped")
           \/ accepting /\ r \in Filtered /\ decide("leave", "filtered")
           \/ accepting /\ r \notin Filtered /\ decide("claim", "none")
        /\ UNCHANGED <<current, lane, ticket, kind, next_ticket, depth, permit>>
        /\ ProducerUnchanged

(* Normal first; a priority record falls back to the reserved slots.       *)
Applicable(r) == IF r \in Priority THEN <<"Normal", "Reserved">> ELSE <<"Normal">>
HasRoom(q) == depth[q] < Capacity[q]

ClaimSlot(p) ==
    LET r == current[p]
        grant(q) ==
            /\ HasRoom(q)
            /\ depth' = [depth EXCEPT ![q] = @ + 1]
            /\ kind' = [kind EXCEPT ![r] = q]
            /\ next_ticket' = next_ticket + 1
            /\ ticket' = [ticket EXCEPT ![r] = next_ticket + 1]
            /\ outcome' = [outcome EXCEPT ![r] = "accepted"]
            /\ ppc' = [ppc EXCEPT ![p] = "push"]
    IN  /\ ppc[p] = "claim"
        /\ \/ grant("Normal")
           \/ ~HasRoom("Normal") /\ r \in Priority /\ grant("Reserved")
           \/ /\ \A i \in DOMAIN Applicable(r) : ~HasRoom(Applicable(r)[i])
              /\ outcome' = [outcome EXCEPT ![r] = "dropped_full"]
              /\ ppc' = [ppc EXCEPT ![p] = "leave"]
              /\ UNCHANGED <<depth, kind, next_ticket, ticket>>
        /\ UNCHANGED <<current, lane, permit>>
        /\ ProducerUnchanged

LaneIsEmpty(p) == \A q \in Queue : lane[p][q] = <<>>

(* ProducerLane::push; the worker is woken only by a lane that was empty.  *)
Push_sees_itself(p) ==
    LET r == current[p]
    IN  /\ ppc[p] = "push"
        /\ lane' = [lane EXCEPT ![p][kind[r]] = Append(@, r)]
        /\ ppc' = [ppc EXCEPT ![p] = "leave"]
        /\ UNCHANGED <<current, ticket, kind, next_ticket, outcome, depth, permit>>
        /\ ProducerUnchanged
Push(p) ==
    LET r == current[p]
    IN  /\ ppc[p] = "push"
        /\ lane' = [lane EXCEPT ![p][kind[r]] = Append(@, r)]
        /\ ppc' = [ppc EXCEPT ![p] = IF LaneIsEmpty(p) THEN "wake" ELSE "leave"]
        /\ UNCHANGED <<current, ticket, kind, next_ticket, outcome, depth, permit>>
        /\ ProducerUnchanged

Wake(p) ==
    /\ ppc[p] = "wake"
    /\ permit' = [permit EXCEPT !.records = TRUE]
    /\ ppc' = [ppc EXCEPT ![p] = "leave"]
    /\ UNCHANGED <<current, lane, ticket, kind, next_ticket, outcome, depth>>
    /\ ProducerUnchanged

(* ProducerFence::drop runs when the last reference to the callback goes.  *)
Holders == {p \in Producer : ppc[p] \in InCallback}
FenceDrops == producers_closed' = TRUE /\ permit' = [permit EXCEPT !.records = TRUE]

Leave(p) ==
    /\ ppc[p] = "leave"
    /\ ppc' = [ppc EXCEPT ![p] = "idle"]
    /\ current' = [current EXCEPT ![p] = None]
    /\ IF ~slot /\ Holders = {p}
       THEN FenceDrops
       ELSE UNCHANGED <<producers_closed, permit>>
    /\ UNCHANGED <<lane, ticket, kind, next_ticket, outcome, depth, accepting, slot, workerVars,
                   trackerVars, status, inflight, counted, flushVars, woken, handleVars>>

Produce(p) ==
    \/ CheckAccepting(p)
    \/ ClaimSlot(p)
    \/ Push(p)
    \/ Wake(p)
    \/ Leave(p)
-----------------------------------------------------------------------------
(* Receiving: LogCollector::drain_into, WorkerInput, try_receive.          *)

(* Lanes are swapped out in rotating order, reserved records drained first. *)
(* Module Lanes has the cursor, the quantum and the per-lane swaps.         *)
LaneOrders == Bijection(1 .. Cardinality(Producer), Producer)
Drained(o) == [q \in Queue |-> input[q] \o FlattenSeq([i \in DOMAIN o |-> lane[o[i]][q]])]
Refreshed == {Drained(o) : o \in LaneOrders}
NoLanes == [p \in Producer |-> [q \in Queue |-> <<>>]]
IsDry(in) == \A q \in Queue : in[q] = <<>>

(* WorkerInput::pop_front prefers the reserved inbox. *)
FrontQueue(in) == IF in["Reserved"] # <<>> THEN "Reserved" ELSE "Normal"

(* LogCollector::release gives the slot of the record's queue back.         *)
Release(r) == depth' = [depth EXCEPT ![kind[r]] = @ - 1]

(* try_receive pops a record and releases the slot it held.                 *)
Received(in) == Head(in[FrontQueue(in)])
Receive(in) ==
    /\ ~IsDry(in)
    /\ input' = [in EXCEPT ![FrontQueue(in)] = Tail(@)]
    /\ Release(Received(in))

(* map_log runs the record's attribute writer, which may panic: the task ends. *)
MappingPanics(r) ==
    /\ r \in Unmappable
    /\ wpc' = "panicked"
    /\ UNCHANGED <<pending, stack, outcome, counted, trackerVars, woken>>

-----------------------------------------------------------------------------
(* Completing: CompletionTracker::complete, which wakes the flush waiters.  *)

Armed_once_waiting == {"wait"}
Armed == {"check", "status", "wait"}
WakeFlushers == woken' = [f \in Flusher |-> woken[f] \/ fpc[f] \in Armed]

Complete_highest(T) ==
    /\ completed_ticket' = CHOOSE t \in T \cup {completed_ticket} :
                              \A u \in T \cup {completed_ticket} : u <= t
    /\ UNCHANGED out_of_order
    /\ WakeFlushers
Complete(T) ==
    LET all == out_of_order \cup {t \in T : t > completed_ticket}
    IN  /\ \E k \in completed_ticket .. completed_ticket + Cardinality(all) :
              /\ (completed_ticket + 1) .. k \subseteq all
              /\ k + 1 \notin all
              /\ completed_ticket' = k
              /\ out_of_order' = {t \in all : t > k}
        /\ WakeFlushers

Tickets(S) == {ticket[r] : r \in S}
AcceptedRecords == {r \in Log : outcome[r] \in {"accepted"} \cup Resolved}

(* Give the records of S their final outcome: lost is what was rejected.    *)
Resolve(S, lost) ==
    /\ outcome' = [r \in Log |-> IF r \in lost THEN "rejected"
                                 ELSE IF r \in S THEN "exported" ELSE outcome[r]]
    /\ counted' = [counted EXCEPT !.exported = @ + Cardinality(S \ lost),
                                  !.rejected = @ + Cardinality(lost)]
    /\ Complete(Tickets(S))

-----------------------------------------------------------------------------
(* Batching: the loop of run_worker.                                       *)

Fits(records_len) == encoded_len(records_len) <= MaxBatchBytes
Oversize(r) == ~Fits(length_delimited_field_len(Weight[r]))

(* reject_oversize counts the record as dropped and as rejected.            *)
RejectOversize(r) ==
    /\ outcome' = [outcome EXCEPT ![r] = "oversize"]
    /\ counted' = [counted EXCEPT !.dropped_oversize = @ + 1, !.rejected = @ + 1]
    /\ Complete({ticket[r]})
RecordsLen(records) == FoldSeq(LAMBDA r, n : length_delimited_field_len(Weight[r]) + n, 0, records)
PlaceAfter(batch) == IF Len(batch) < MaxBatchRecords THEN "fill" ELSE "batched"

StartBatch(r, rest) ==
    /\ pending' = rest
    /\ IF Oversize(r)
       THEN /\ RejectOversize(r)
            /\ wpc' = "top"
            /\ UNCHANGED stack
       ELSE /\ stack' = << <<r>> >>
            /\ wpc' = PlaceAfter(<<r>>)
            /\ UNCHANGED <<outcome, counted, trackerVars, woken>>

AddToBatch_overflow_lost(r, rest) ==
    LET batch == Head(stack)
    IN  IF Fits(RecordsLen(Append(batch, r)))
        THEN /\ stack' = << Append(batch, r) >>
             /\ pending' = rest
             /\ wpc' = PlaceAfter(Append(batch, r))
             /\ UNCHANGED <<outcome, counted, trackerVars, woken>>
        ELSE /\ pending' = rest
             /\ wpc' = "batched"
             /\ UNCHANGED <<stack, outcome, counted, trackerVars, woken>>
AddToBatch(r, rest) ==
    LET batch == Head(stack)
    IN  IF Oversize(r)
        THEN /\ RejectOversize(r)
             /\ pending' = rest
             /\ wpc' = "fill"
             /\ UNCHANGED stack
        ELSE IF ~Fits(RecordsLen(Append(batch, r)))
        THEN /\ pending' = <<r>> \o rest
             /\ wpc' = "batched"
             /\ UNCHANGED <<stack, outcome, counted, trackerVars, woken>>
        ELSE /\ stack' = << Append(batch, r) >>
             /\ pending' = rest
             /\ wpc' = PlaceAfter(Append(batch, r))
             /\ UNCHANGED <<outcome, counted, trackerVars, woken>>

WorkerUnchanged ==
    UNCHANGED <<ppc, current, ticket, kind, next_ticket, sharedVars, flushVars, handleVars>>

(* The head of the loop refreshes the inbox even when an overflow record is *)
(* waiting, so that a new reserved record can overtake a normal backlog.    *)
(* Nothing at hand: await a record, or see whether the drain is complete.   *)
Top ==
    /\ wpc = "top"
    /\ lane' = NoLanes
    /\ \E in \in Refreshed :
          \/ /\ pending # <<>>
             /\ input' = in
             /\ StartBatch(Head(pending), Tail(pending))
             /\ UNCHANGED depth
          \/ /\ pending = <<>>
             /\ Receive(in)
             /\ StartBatch(Received(in), pending) \/ MappingPanics(Received(in))
          \/ /\ pending = <<>> /\ IsDry(in)
             /\ wpc' = IF shutting_down THEN "drained" ELSE "receive"
             /\ UNCHANGED <<input, pending, stack, depth, outcome, counted, trackerVars, woken>>
    /\ UNCHANGED <<permit, shutting_down, status, inflight>>
    /\ WorkerUnchanged

(* select!, biased: a stored shutdown permit wins over a stored records one. *)
AwaitReceive_no_last_look ==
    /\ wpc = "receive"
    /\ \/ /\ permit.shutdown
          /\ permit' = [permit EXCEPT !.shutdown = FALSE]
          /\ shutting_down' = TRUE
          /\ wpc' = "drained"
       \/ /\ ~permit.shutdown /\ permit.records
          /\ permit' = [permit EXCEPT !.records = FALSE]
          /\ UNCHANGED shutting_down
          /\ wpc' = "top"
    /\ UNCHANGED <<lane, input, pending, stack, depth, outcome, counted, trackerVars, woken, status, inflight>>
    /\ WorkerUnchanged
AwaitReceive ==
    /\ wpc = "receive"
    /\ \/ /\ permit.shutdown
          /\ permit' = [permit EXCEPT !.shutdown = FALSE]
          /\ shutting_down' = TRUE
       \/ /\ ~permit.shutdown /\ permit.records
          /\ permit' = [permit EXCEPT !.records = FALSE]
          /\ UNCHANGED shutting_down
    /\ wpc' = "top"
    /\ UNCHANGED <<lane, input, pending, stack, depth, outcome, counted, trackerVars, woken, status, inflight>>
    /\ WorkerUnchanged

(* The next record of the batch: the overflow record, else try_receive,     *)
(* which refreshes the inbox only when it is empty.                         *)
Fill ==
    /\ wpc = "fill"
    /\ \/ /\ pending # <<>>
          /\ AddToBatch(Head(pending), Tail(pending))
          /\ UNCHANGED <<lane, input, depth>>
       \/ /\ pending = <<>> /\ ~IsDry(input)
          /\ Receive(input)
          /\ AddToBatch(Received(input), pending) \/ MappingPanics(Received(input))
          /\ UNCHANGED lane
       \/ /\ pending = <<>> /\ IsDry(input)
          /\ lane' = NoLanes
          /\ \E in \in Refreshed :
                \/ /\ Receive(in)
                   /\ AddToBatch(Received(in), pending) \/ MappingPanics(Received(in))
                \/ /\ IsDry(in)
                   /\ wpc' = IF shutting_down THEN "batched" ELSE "gather"
                   /\ UNCHANGED <<input, pending, stack, depth, outcome, counted, trackerVars, woken>>
    /\ UNCHANGED <<permit, shutting_down, status, inflight>>
    /\ WorkerUnchanged

(* The biased select! of the fill loop: shutdown, max_batch_delay, flush,   *)
(* records.  Any of the first three ends the batch.                         *)
GatherEnds ==
    /\ wpc = "gather"
    /\ \/ /\ permit.shutdown
          /\ permit' = [permit EXCEPT !.shutdown = FALSE]
          /\ shutting_down' = TRUE
       \/ /\ ~permit.shutdown                       \* the deadline elapsed
          /\ UNCHANGED <<permit, shutting_down>>
       \/ /\ ~permit.shutdown /\ permit.flush
          /\ permit' = [permit EXCEPT !.flush = FALSE]
          /\ UNCHANGED shutting_down
    /\ wpc' = "batched"
    /\ UNCHANGED <<lane, input, pending, stack, depth, outcome, counted, trackerVars, woken, status, inflight>>
    /\ WorkerUnchanged

GatherReceives ==
    /\ wpc = "gather"
    /\ ~permit.shutdown /\ ~permit.flush /\ permit.records
    /\ permit' = [permit EXCEPT !.records = FALSE]
    /\ lane' = NoLanes
    /\ \E in \in Refreshed :
          \/ /\ Receive(in)
             /\ AddToBatch(Received(in), pending) \/ MappingPanics(Received(in))
          \/ /\ IsDry(in)
             /\ wpc' = "batched"
             /\ UNCHANGED <<input, pending, stack, depth, outcome, counted, trackerVars, woken>>
    /\ UNCHANGED <<shutting_down, status, inflight>>
    /\ WorkerUnchanged

StartExport ==
    /\ wpc = "batched"
    /\ inflight' = Len(Head(stack))
    /\ wpc' = "send"
    /\ UNCHANGED <<lane, permit, shutting_down, input, pending, stack, depth, outcome, counted,
                   trackerVars, woken, status>>
    /\ WorkerUnchanged
-----------------------------------------------------------------------------
(* Exporting: export_batch keeps a stack of record groups, the next one     *)
(* first; an invalid-payload answer splits a group in two.                  *)

Split_right_first(records) ==
    LET half == Len(records) \div 2
    IN  << SubSeq(records, half + 1, Len(records)), SubSeq(records, 1, half) >>
Split(records) ==
    LET half == Len(records) \div 2
    IN  << SubSeq(records, 1, half), SubSeq(records, half + 1, Len(records)) >>

SendUnchanged ==
    /\ UNCHANGED <<lane, permit, shutting_down, input, pending, depth>>
    /\ WorkerUnchanged

NextGroup ==
    /\ stack' = Tail(stack)
    /\ wpc' = IF Tail(stack) = <<>> THEN "exported" ELSE "send"
    /\ UNCHANGED <<status, inflight>>

(* Accepted by the collector, wholly or, for a partial success, but for the *)
(* records of lost: the response only counts them.                          *)
SendAccepted ==
    /\ wpc = "send"
    /\ \E lost \in SUBSET ToSet(Head(stack)) :
          /\ IF lost = {} THEN "ok" \in Answers ELSE "partial" \in Answers
          /\ Resolve(ToSet(Head(stack)), lost)
    /\ NextGroup
    /\ SendUnchanged

(* 400 and 413: reject a single record, bisect a larger group.              *)
SendInvalid ==
    /\ wpc = "send"
    /\ "invalid" \in Answers
    /\ \/ /\ Len(Head(stack)) = 1
          /\ Resolve(ToSet(Head(stack)), ToSet(Head(stack)))
          /\ NextGroup
       \/ /\ Len(Head(stack)) > 1
          /\ stack' = Split(Head(stack)) \o Tail(stack)
          /\ UNCHANGED <<wpc, outcome, counted, trackerVars, woken, status, inflight>>
    /\ SendUnchanged

SendRetryable ==
    /\ wpc = "send"
    /\ "retryable" \in Answers
    /\ status' = "BackingOff"
    /\ wpc' = "backoff"
    /\ UNCHANGED <<stack, outcome, counted, trackerVars, woken, inflight>>
    /\ SendUnchanged

BackoffEnds ==
    /\ wpc = "backoff"
    /\ status' = IF accepting THEN "Running" ELSE "ShuttingDown"
    /\ wpc' = "send"
    /\ UNCHANGED <<stack, outcome, counted, trackerVars, woken, inflight>>
    /\ SendUnchanged

(* terminal() publishes the status and keeps every group not yet exported.  *)
RecordsIn(groups) == Len(FlattenSeq(groups))
SendTerminal ==
    /\ wpc = "send"
    /\ "terminal" \in Answers
    /\ status' = "TerminalFailure"
    /\ inflight' = RecordsIn(stack)
    /\ wpc' = "terminal"
    /\ UNCHANGED <<stack, outcome, counted, trackerVars, woken>>
    /\ SendUnchanged

BatchExported ==
    /\ wpc = "exported"
    /\ inflight' = 0
    /\ status' = IF shutting_down THEN "ShuttingDown" ELSE "Running"
    /\ wpc' = "top"
    /\ UNCHANGED <<stack, outcome, counted, trackerVars, woken>>
    /\ SendUnchanged

-----------------------------------------------------------------------------
(* Ending: the drained worker, and the worker parked by a terminal failure. *)

EndUnchanged == UNCHANGED <<outcome, trackerVars, shutting_down>>

(* The inbox was seen empty; the fence is looked at only now.               *)
DrainCompletes ==
    /\ wpc = "drained"
    /\ \/ /\ ~producers_closed
          /\ wpc' = "await_records"
          /\ UNCHANGED <<status, woken, report>>
       \/ /\ producers_closed
          /\ wpc' = "stopped"
          /\ status' = "Stopped"
          /\ WakeFlushers
          /\ report' = [by |-> "worker", timed_out |-> FALSE, remaining |-> 0]
    /\ UNCHANGED <<lane, permit, input, pending, stack, depth, inflight, counted, hpc, closing, seen, promised>>
    /\ UNCHANGED <<ppc, current, ticket, kind, next_ticket, sharedVars, flushVars>>
    /\ EndUnchanged

AwaitUnchanged ==
    /\ UNCHANGED <<lane, input, pending, stack, depth, status, inflight, counted, woken>>
    /\ WorkerUnchanged
    /\ EndUnchanged

(* Suspended on a Notify: its permit is consumed and the loop goes on.      *)
AwaitNotified(place, notify, next) ==
    /\ wpc = place
    /\ permit[notify]
    /\ permit' = [permit EXCEPT ![notify] = FALSE]
    /\ wpc' = next
    /\ AwaitUnchanged

AwaitRecords == AwaitNotified("await_records", "records", "top")
AwaitShutdown == AwaitNotified("term_shutdown", "shutdown", "term_fence")
AwaitFence == AwaitNotified("term_records", "records", "term_fence")

TerminalParks ==
    /\ wpc = "terminal"
    /\ wpc' = IF accepting THEN "term_shutdown" ELSE "term_fence"
    /\ UNCHANGED permit
    /\ AwaitUnchanged

(* Behind the fence: count what is retained and queued, clear everything.   *)
QueuedRecords == depth["Normal"] + depth["Reserved"]
TerminalStops ==
    /\ wpc = "term_fence"
    /\ UNCHANGED <<permit, ppc, current, ticket, kind, next_ticket, sharedVars, flushVars, hpc, closing, seen, promised>>
    /\ EndUnchanged
    /\ \/ /\ ~producers_closed
          /\ wpc' = "term_records"
          /\ UNCHANGED <<lane, input, pending, stack, depth, status, inflight, counted, woken, report>>
       \/ /\ producers_closed
          /\ LET remaining == RecordsIn(stack) + QueuedRecords
             IN  /\ counted' = [counted EXCEPT !.dropped_shutdown = @ + remaining]
                 /\ report' = [by |-> "worker", timed_out |-> FALSE, remaining |-> remaining]
          /\ lane' = NoLanes /\ input' = [q \in Queue |-> <<>>] /\ pending' = <<>> /\ stack' = <<>>
          /\ depth' = [q \in Queue |-> 0] /\ inflight' = 0
          /\ status' = "Stopped"
          /\ wpc' = "stopped"
          /\ WakeFlushers

(* A transient failure aside, an answer settles the group it is about.      *)
Settles == SendAccepted \/ SendInvalid \/ SendTerminal

Work ==
    \/ Top \/ AwaitReceive \/ Fill \/ GatherEnds \/ GatherReceives \/ StartExport
    \/ SendAccepted \/ SendInvalid \/ SendRetryable \/ BackoffEnds \/ SendTerminal \/ BatchExported
    \/ DrainCompletes \/ AwaitRecords
    \/ TerminalParks \/ AwaitShutdown \/ AwaitFence \/ TerminalStops
-----------------------------------------------------------------------------
(* ExporterHandle::force_flush.  The future registers with progress before  *)
(* it looks at the watermark, so that a completion in between wakes it.     *)

FlushUnchanged ==
    UNCHANGED <<producerVars, outcome, depth, sharedVars, workerVars, trackerVars, status, inflight,
                counted, handleVars>>

(* force_flush borrows the handle: it excludes shutdown, reconfigure, drop. *)
FlushCalls(f) ==
    /\ hpc = "open" /\ fpc[f] = "idle"
    /\ target' = [target EXCEPT ![f] = next_ticket]
    /\ permit' = [permit EXCEPT !.flush = TRUE]
    /\ fpc' = [fpc EXCEPT ![f] = "arm"]
    /\ UNCHANGED <<woken, result>>
    /\ FlushUnchanged

FlushArms(f) ==
    /\ fpc[f] = "arm"
    /\ woken' = [woken EXCEPT ![f] = FALSE]
    /\ fpc' = [fpc EXCEPT ![f] = "check"]
    /\ UNCHANGED <<permit, target, result>>
    /\ FlushUnchanged

FlushReturns(f, r) ==
    /\ fpc' = [fpc EXCEPT ![f] = "done"]
    /\ result' = [result EXCEPT ![f] = r]

FlushChecks_one_early(f) ==
    /\ fpc[f] = "check"
    /\ IF completed_ticket + 1 >= target[f]
       THEN FlushReturns(f, "Flushed")
       ELSE /\ fpc' = [fpc EXCEPT ![f] = "status"]
            /\ UNCHANGED result
    /\ UNCHANGED <<permit, target, woken>>
    /\ FlushUnchanged
FlushChecks(f) ==
    /\ fpc[f] = "check"
    /\ IF completed_ticket >= target[f]
       THEN FlushReturns(f, "Flushed")
       ELSE /\ fpc' = [fpc EXCEPT ![f] = "status"]
            /\ UNCHANGED result
    /\ UNCHANGED <<permit, target, woken>>
    /\ FlushUnchanged

FlushChecksStatus(f) ==
    /\ fpc[f] = "status"
    /\ IF status \in {"TerminalFailure", "Stopped"}
       THEN FlushReturns(f, status)
       ELSE /\ fpc' = [fpc EXCEPT ![f] = "wait"]
            /\ UNCHANGED result
    /\ UNCHANGED <<permit, target, woken>>
    /\ FlushUnchanged

FlushWakes(f) ==
    /\ fpc[f] = "wait" /\ woken[f]
    /\ fpc' = [fpc EXCEPT ![f] = "arm"]
    /\ UNCHANGED <<permit, target, woken, result>>
    /\ FlushUnchanged

(* tokio::time::timeout polls the wait first: it elapses only while the     *)
(* future is suspended with nothing to do.                                  *)
FlushTimesOut(f) ==
    /\ fpc[f] = "wait" /\ ~woken[f]
    /\ FlushReturns(f, "TimedOut")
    /\ UNCHANGED <<permit, target, woken>>
    /\ FlushUnchanged

Flush(f) == FlushArms(f) \/ FlushChecks(f) \/ FlushChecksStatus(f) \/ FlushWakes(f)

-----------------------------------------------------------------------------
(* ExporterHandle::shutdown, reconfigure (the side of the generation that is *)
(* replaced) and drop: stop_acceptance, release the sink, drain or abort.   *)
(*   shutdown     stop, release, stop, join                                 *)
(*   reconfigure  release, stop, join                                       *)
(*   drop         stop, release, abort                                      *)

HandleUnchanged ==
    UNCHANGED <<producerVars, outcome, workerVars, trackerVars, flushVars>>

Close(c) ==
    /\ hpc = "open" /\ c \in Closings
    /\ \A f \in Flusher : fpc[f] \in {"idle", "done"}
    /\ closing' = c
    /\ promised' = AcceptedRecords \ {current[p] : p \in Holders}
    /\ hpc' = IF c = "reconfigure" THEN "release" ELSE "stop_first"
    /\ UNCHANGED <<seen, report, depth, sharedVars, permit, status, inflight, counted, woken>>
    /\ HandleUnchanged

(* stop_acceptance: the flag, then a status read and written in two steps,  *)
(* then a permit for each Notify the worker may be suspended on.            *)
StopAccepting ==
    /\ \/ hpc = "stop_first" /\ hpc' = "mark_first"
       \/ hpc = "stop_again" /\ hpc' = "mark_again"
    /\ accepting' = FALSE
    /\ seen' = status
    /\ UNCHANGED <<promised, closing, report, depth, slot, producers_closed, permit, status, inflight, counted, woken>>
    /\ HandleUnchanged

MarkShuttingDown_no_shutdown_permit ==
    /\ \/ hpc = "mark_first" /\ hpc' = "release"
       \/ hpc = "mark_again" /\ hpc' = "join"
    /\ status' = IF seen = "Stopped" THEN status ELSE "ShuttingDown"
    /\ permit' = [permit EXCEPT !.records = TRUE, !.flush = TRUE]
    /\ UNCHANGED <<promised, closing, seen, report, depth, sharedVars, inflight, counted, woken>>
    /\ HandleUnchanged
MarkShuttingDown ==
    /\ \/ hpc = "mark_first" /\ hpc' = "release"
       \/ hpc = "mark_again" /\ hpc' = "join"
    /\ status' = IF seen = "Stopped" THEN status ELSE "ShuttingDown"
    /\ permit' = [shutdown |-> TRUE, records |-> TRUE, flush |-> TRUE]
    /\ UNCHANGED <<promised, closing, seen, report, depth, sharedVars, inflight, counted, woken>>
    /\ HandleUnchanged

(* SinkRegistration::disable or replace: later dispatches miss this         *)
(* callback, those that loaded it keep it, and the fence, alive.            *)
ReleaseSink ==
    /\ hpc = "release"
    /\ slot' = FALSE
    /\ IF Holders = {} THEN FenceDrops ELSE UNCHANGED <<producers_closed, permit>>
    /\ hpc' = IF closing = "drop" THEN "abort" ELSE "stop_again"
    /\ UNCHANGED <<promised, closing, seen, report, depth, accepting, status, inflight, counted, woken>>
    /\ HandleUnchanged

(* drain_generation: the worker's own report, if it comes in time.          *)
Joins ==
    /\ hpc = "join" /\ wpc = "stopped"
    /\ hpc' = "reported"
    /\ UNCHANGED <<promised, closing, seen, report, depth, sharedVars, permit, status, inflight, counted, woken>>
    /\ HandleUnchanged

JoinTimesOut ==
    /\ hpc = "join" /\ wpc \notin {"stopped", "panicked"}
    /\ hpc' = "aborting"
    /\ UNCHANGED <<promised, closing, seen, report, depth, sharedVars, permit, status, inflight, counted, woken>>
    /\ HandleUnchanged

(* An aborted task ends at its next await.                                  *)
WorkerAborts ==
    /\ hpc \in {"aborting", "dropped"} /\ wpc \in Awaiting
    /\ wpc' = "aborted"
    /\ UNCHANGED <<handleVars, producerVars, outcome, depth, sharedVars, permit, shutting_down, input,
                   pending, stack, trackerVars, status, inflight, counted, flushVars, woken>>

(* remaining_records, then reset_live_metrics.                              *)
Remaining == QueuedRecords + inflight
CountRemaining == counted' = [counted EXCEPT !.dropped_shutdown = @ + Remaining]

DrainFails_resets_first ==
    /\ \/ hpc = "aborting" /\ wpc \in Ended
       \/ hpc = "join" /\ wpc = "panicked"
    /\ counted' = [counted EXCEPT !.dropped_shutdown = @ + inflight]
    /\ report' = [by |-> "handle", timed_out |-> hpc = "aborting", remaining |-> inflight]
    /\ depth' = [q \in Queue |-> 0] /\ inflight' = 0
    /\ status' = "Stopped"
    /\ WakeFlushers
    /\ hpc' = "reported"
    /\ UNCHANGED <<promised, closing, seen, sharedVars, permit>>
    /\ HandleUnchanged
DrainFails ==
    /\ \/ hpc = "aborting" /\ wpc \in Ended
       \/ hpc = "join" /\ wpc = "panicked"
    /\ CountRemaining
    /\ report' = [by |-> "handle", timed_out |-> hpc = "aborting", remaining |-> Remaining]
    /\ depth' = [q \in Queue |-> 0] /\ inflight' = 0
    /\ status' = "Stopped"
    /\ WakeFlushers
    /\ hpc' = "reported"
    /\ UNCHANGED <<promised, closing, seen, sharedVars, permit>>
    /\ HandleUnchanged

(* ExporterHandle::drop aborts without waiting.                             *)
DropAborts ==
    /\ hpc = "abort"
    /\ CountRemaining
    /\ status' = "Stopped"
    /\ WakeFlushers
    /\ hpc' = "dropped"
    /\ UNCHANGED <<promised, closing, seen, report, depth, sharedVars, permit, inflight>>
    /\ HandleUnchanged

(* shutdown consumes the handle: returning, it drops it, and drop counts    *)
(* once more what the gauges say.                                           *)
ShutdownDropsHandle ==
    /\ hpc = "reported" /\ closing = "shutdown"
    /\ CountRemaining
    /\ permit' = [shutdown |-> TRUE, records |-> TRUE, flush |-> TRUE]
    /\ status' = "Stopped"
    /\ WakeFlushers
    /\ hpc' = "dropped"
    /\ UNCHANGED <<promised, closing, seen, report, depth, sharedVars, inflight>>
    /\ HandleUnchanged

Handle ==
    \/ StopAccepting \/ MarkShuttingDown \/ ReleaseSink
    \/ Joins \/ WorkerAborts \/ DrainFails \/ DropAborts \/ ShutdownDropsHandle

-----------------------------------------------------------------------------
Next ==
    \/ \E p \in Producer, r \in Log : Dispatch(p, r)
    \/ \E p \in Producer : Produce(p)
    \/ Work
    \/ \E f \in Flusher : FlushCalls(f) \/ Flush(f) \/ FlushTimesOut(f)
    \/ \E c \in ClosingKinds : Close(c)
    \/ Handle
    \/ JoinTimesOut

Spec == Init /\ [][Next]_vars

(* Threads and tasks that can run do run; nobody must log, flush or close,  *)
(* no deadline must elapse, and the collector, asked again and again, some  *)
(* time answers with something other than a transient failure.              *)
Fairness ==
    /\ \A p \in Producer : WF_vars(Produce(p))
    /\ WF_vars(Work)
    /\ SF_vars(Settles)
    /\ \A f \in Flusher : WF_vars(Flush(f))
    /\ WF_vars(Handle)

FairSpec == Spec /\ Fairness

-----------------------------------------------------------------------------
TypeOK ==
    /\ ppc \in [Producer -> {"idle"} \cup InCallback]
    /\ current \in [Producer -> Log \cup {None}]
    /\ lane \in [Producer -> [Queue -> Seq(Log)]]
    /\ ticket \in [Log -> Nat] /\ kind \in [Log -> Queue]
    /\ outcome \in [Log -> Outcome]
    /\ next_ticket \in Nat
    /\ depth \in [Queue -> Nat]
    /\ accepting \in BOOLEAN /\ slot \in BOOLEAN /\ producers_closed \in BOOLEAN
    /\ permit \in [shutdown : BOOLEAN, records : BOOLEAN, flush : BOOLEAN]
    /\ wpc \in WorkerPlace /\ shutting_down \in BOOLEAN
    /\ input \in [Queue -> Seq(Log)] /\ pending \in Seq(Log) /\ stack \in Seq(Seq(Log))
    /\ completed_ticket \in Nat /\ out_of_order \subseteq Nat
    /\ status \in Status
    /\ inflight \in Nat
    /\ counted \in [exported : Nat, rejected : Nat, dropped_oversize : Nat, dropped_shutdown : Nat]
    /\ fpc \in [Flusher -> {"idle", "arm", "done"} \cup Armed]
    /\ target \in [Flusher -> Nat] /\ woken \in [Flusher -> BOOLEAN]
    /\ result \in [Flusher -> {None, "Flushed", "TimedOut", "TerminalFailure", "Stopped"}]
    /\ hpc \in {"open", "stop_first", "mark_first", "release", "stop_again", "mark_again",
                "join", "aborting", "reported", "abort", "dropped"}
    /\ closing \in ClosingKinds \cup {None} /\ seen \in Status
    /\ report \in [by : {None, "worker", "handle"}, timed_out : BOOLEAN, remaining : Nat]
    /\ promised \subseteq Log
(* Between the push and its outcome a record is in exactly one place: a     *)
(* lane, the inbox, the overflow queue or a group being built or exported.  *)
(* No hand-over loses it and no bisection, overflow or refresh copies it.   *)
Container == ({"lane"} \X Producer \X Queue) \cup ({"inbox"} \X Queue) \cup {<<"pending">>}
             \cup ({"group"} \X DOMAIN stack)
Contents(c) ==
    CASE c[1] = "lane" -> lane[c[2]][c[3]]
      [] c[1] = "inbox" -> input[c[2]]
      [] c[1] = "pending" -> pending
      [] c[1] = "group" -> stack[c[2]]
Pushing == {current[p] : p \in {p2 \in Producer : ppc[p2] = "push"}}
ExactlyOnePlace ==
    /\ TypeOK
    /\ wpc \notin Ended =>
        /\ UNION {ToSet(Contents(c)) : c \in Container} = {r \in Log : outcome[r] = "accepted"} \ Pushing
        /\ \A c, d \in Container : \A i \in DOMAIN Contents(c), j \in DOMAIN Contents(d) :
              Contents(c)[i] = Contents(d)[j] => c = d /\ i = j

(* The completion watermark is sound: every ticket at or below it belongs   *)
(* to a record that has its final outcome, although reserved records        *)
(* overtake normal ones and oversize records are settled ahead of their     *)
(* batch.                                                                   *)
WatermarkSound ==
    \A r \in Log : ticket[r] \in 1 .. completed_ticket => outcome[r] \in Resolved

(* Records of one thread in one queue are exported in the order they were   *)
(* accepted, through batching, overflow, retries and bisection.             *)
LaneOrderKept ==
    \A r, s \in Log :
        /\ Thread[r] = Thread[s] /\ kind[r] = kind[s]
        /\ 0 < ticket[r] /\ ticket[r] < ticket[s]
        /\ outcome[s] = "exported"
        => outcome[r] \in Resolved

(* No request exceeds max_batch_bytes: the length predicted while the batch *)
(* fills is never below the length on the wire, at a varint boundary either, *)
(* and bisection only makes requests smaller.                               *)
BatchesFit ==
    wpc \in {"batched", "send", "backoff"} =>
        \A i \in DOMAIN stack :
            RequestLen([j \in DOMAIN stack[i] |-> Weight[stack[i][j]]]) <= MaxBatchBytes

(* A drain the worker reports as complete left nothing behind of what had   *)
(* been logged before shutdown or reconfigure was called.                   *)
DrainKeepsPromise ==
    /\ report.by = "worker" /\ report.remaining = 0
    => \A r \in promised : outcome[r] \in Resolved

(* The generation implements Delivery: whatever the worker, the producers   *)
(* and the flush callers interleave, records take their tickets in one      *)
(* order, are settled once, the watermark is the settled prefix exactly,    *)
(* and Flushed is answered only behind it.                                  *)
Fate(o) ==
    CASE o \in {"filtered", "dropped_stopped", "dropped_full"} -> "refused"
      [] o \in Resolved -> "settled"
      [] OTHER -> o
Promise == INSTANCE Delivery WITH
    order <- [i \in 1 .. next_ticket |-> CHOOSE r \in Log : ticket[r] = i],
    fate <- [r \in Log |-> Fate(outcome[r])],
    watermark <- completed_ticket,
    flush <- [f \in Flusher |-> IF fpc[f] = "done" THEN result[f]
                                ELSE IF fpc[f] = "idle" THEN "idle" ELSE "waiting"]
ImplementsDelivery == Promise!Spec

(* worker.rs: the report counts the "records that remained when shutdown    *)
(* ended".  A closing that gives up, and what really remains then, agree    *)
(* but for three known amounts, and for nothing else:                       *)
(*   InHand     what the worker holds outside every gauge, the overflow     *)
(*              record and a batch still being filled, is not counted;      *)
(*   a panic    nor is the one record whose mapping panicked;               *)
(*   Recounted  groups of the batch in export that already had their answer *)
(*              are counted as if they remained.                            *)
(* A worker that had stopped before its abort took effect has already       *)
(* reported; the handle's report, which replaces it, adds only what was     *)
(* queued behind its back.                                                  *)
Lost == {r \in Log : outcome[r] = "accepted"}
Batch == UNION {ToSet(stack[i]) : i \in DOMAIN stack}
GivenUp ==
    LET waiting(p) == ToSet(lane[p]["Normal"]) \cup ToSet(lane[p]["Reserved"])
        inbox == ToSet(input["Normal"]) \cup ToSet(input["Reserved"])
    IN  Pushing \cup (UNION {waiting(p) : p \in Producer}) \cup inbox \cup (IF inflight > 0 THEN Batch ELSE {})
InHand == ToSet(pending) \cup (IF inflight > 0 THEN {} ELSE Batch)
Recounted == IF stack # <<>> /\ inflight > 0 THEN inflight - RecordsIn(stack) ELSE 0
Panicked == IF wpc = "panicked" THEN 1 ELSE 0

GivesUp ==
    \/ report.by # "handle" /\ report'.by = "handle"
    \/ wpc = "term_fence" /\ wpc' = "stopped"
ReportAccountsForRecords ==
    [][GivesUp =>
          /\ GivenUp \subseteq Lost
          /\ report'.remaining = Cardinality(GivenUp) + Recounted
          /\ wpc # "stopped" =>
                report'.remaining + Cardinality(InHand) + Panicked = Cardinality(Lost) + Recounted]_vars

WorkerFailed == wpc \in {"terminal", "term_shutdown", "term_fence", "term_records", "panicked"}

(* While the handle is open every accepted record gets its outcome without  *)
(* a flush or a later record to push it: no wakeup of the worker is lost.   *)
NoRecordIsStranded ==
    \A r \in Log :
        outcome[r] = "accepted" ~> \/ outcome[r] \in Resolved
                                   \/ hpc # "open"
                                   \/ WorkerFailed

(* A flush returns, deadline or not, unless the exporter failed meanwhile.  *)
FlushReturnsWhenDone ==
    \A f \in Flusher : fpc[f] = "wait" ~> \/ fpc[f] = "done"
                                          \/ WorkerFailed

(* Shutdown, reconfigure and drop end the worker without their deadline:    *)
(* whichever await it is suspended in, a permit or the fence releases it.   *)
ClosingEndsTheWorker == hpc # "open" ~> /\ wpc \in Ended
                                        /\ hpc \in {"reported", "dropped"}

-----------------------------------------------------------------------------
(* Statements of the documentation that the code does not keep.             *)

(* lib.rs: the fence is "an exact ... producer quiescence fence", so that a *)
(* drain that did not time out leaves nothing.                              *)
GracefulDrainLosesNothing ==
    /\ hpc \in {"reported", "dropped"} /\ report.by = "worker" /\ report.remaining = 0
    => Lost = {}

(* lib.rs: a flush returns TerminalFailure when "export stopped on a        *)
(* permanent collector or transport error", TimedOut when its deadline      *)
(* elapsed first.                                                           *)
FlushLearnsOfFailure ==
    \A f \in Flusher : fpc[f] = "wait" /\ status = "TerminalFailure" ~> fpc[f] = "done"
=============================================================================
