------------------------------ MODULE Admission ------------------------------
(***************************************************************************)
(* Concurrent admission into the exporter's bounded queues                 *)
(* (eden_logger_export/src/collector.rs).                                   *)
(*                                                                         *)
(* Producer threads submit records without a lock.  Capacity is a pair of  *)
(* atomic gauges per queue: a producer adds its amount first and looks at  *)
(* the previous value afterwards, taking the amount back when it did not   *)
(* fit.  Bytes are claimed before the record slot; a refused record slot   *)
(* returns the bytes already claimed; a priority record refused by the     *)
(* normal queue tries the reserved one.  One action is one atomic memory   *)
(* operation, plus the thread-local computation that follows it.           *)
(***************************************************************************)
EXTENDS Integers, FiniteSets

CONSTANTS
    Producer,        \* threads that log
    Log,             \* records, each submitted at most once
    Priority,        \* records at or above priority_threshold
    Size,            \* estimated_size_bytes of a record
    RecordCapacity,  \* per queue: normal_capacity, reserved_capacity
    ByteCapacity,    \* per queue: normal_byte_capacity, reserved_byte_capacity
    Checked          \* the gauges whose capacity exceeds u64::MAX / 2

Queue == {"Normal", "Reserved"}

(* ExporterConfig::validate rejects a capacity or byte budget of zero. *)
ASSUME AdmissionAssumption ==
    /\ IsFiniteSet(Producer)
    /\ IsFiniteSet(Log)
    /\ Priority \subseteq Log
    /\ Size \in [Log -> Nat]
    /\ RecordCapacity \in [Queue -> Nat \ {0}]
    /\ ByteCapacity \in [Queue -> Nat \ {0}]
    /\ Checked \subseteq Queue \X {"Records", "Bytes"}

VARIABLES
    phase,        \* where each record is in submit_to_lane, or after it
    thread,       \* the producer that submitted the record, or None
    queue,        \* the queue a record is claiming, or was granted
    failure,      \* normal_failure of a priority record in its second attempt
    depth,        \* normal_queue_depth, reserved_queue_depth
    bytes,        \* normal_queue_bytes, reserved_queue_bytes
    next_ticket,  \* Shared::next_ticket
    ticket        \* acceptance ticket of each record, 0 before it has one

vars == <<phase, thread, queue, failure, depth, bytes, next_ticket, ticket>>

None == "None"
Failure == {"Records", "Bytes"}

Claiming == {"claim_bytes", "undo_bytes", "claim_record", "undo_record", "refund_bytes"}
Granted == {"ticket", "push", "queued"}
Dropped == {"RecordCapacity", "ByteCapacity"}
Phase == {"fresh", "releasing", "received"} \cup Claiming \cup Granted \cup Dropped

(* A producer runs one submission at a time. *)
Busy(p) == \E r \in Log : thread[r] = p /\ phase[r] \in Claiming \cup {"ticket", "push"}

-----------------------------------------------------------------------------
(* The records and bytes each gauge stands for. *)
CountsAsRecord == {"undo_record"} \cup Granted
CountsAsBytes == {"undo_bytes", "claim_record", "undo_record", "refund_bytes", "releasing"} \cup Granted

In(q, phases) == {r \in Log : queue[r] = q /\ phase[r] \in phases}

(* One element per byte of every record of S, so that a sum is a cardinality. *)
BytesOf(r) == {r} \X (1 .. Size[r])
Units(S) == UNION {BytesOf(r) : r \in S}

-----------------------------------------------------------------------------
Init ==
    /\ phase = [r \in Log |-> "fresh"]
    /\ thread = [r \in Log |-> None]
    /\ queue = [r \in Log |-> "Normal"]
    /\ failure = [r \in Log |-> None]
    /\ depth = [q \in Queue |-> 0]
    /\ bytes = [q \in Queue |-> 0]
    /\ next_ticket = 0
    /\ ticket = [r \in Log |-> 0]

(* The two ways claim_amount decides: by the value before its own add, or,  *)
(* for capacities above half the range, by a checked read-modify-write.     *)
Room_off_by_one(previous, capacity, amount) == previous <= capacity - amount + 1
Room(previous, capacity, amount) == previous <= capacity - amount
Optimistic(q, gauge) == <<q, gauge>> \notin Checked

Combine(first, second) == IF "Bytes" \in {first, second} THEN "Bytes" ELSE "Records"

SubmitResult(f) == IF f = "Records" THEN "RecordCapacity" ELSE "ByteCapacity"

(* The tail of a failed claim_queue: a priority record falls back from the  *)
(* normal to the reserved queue, any other outcome is final.                *)
Refuse(r, f) ==
    IF queue[r] = "Normal" /\ r \in Priority
    THEN /\ phase' = [phase EXCEPT ![r] = "claim_bytes"]
         /\ queue' = [queue EXCEPT ![r] = "Reserved"]
         /\ failure' = [failure EXCEPT ![r] = f]
    ELSE /\ phase' = [phase EXCEPT ![r] = SubmitResult(Combine(failure[r], f))]
         /\ UNCHANGED <<queue, failure>>

Goto(r, next) ==
    /\ phase' = [phase EXCEPT ![r] = next]
    /\ UNCHANGED <<queue, failure>>

Submit(p, r) ==
    /\ phase[r] = "fresh"
    /\ ~Busy(p)
    /\ Goto(r, "claim_bytes")
    /\ thread' = [thread EXCEPT ![r] = p]
    /\ UNCHANGED <<depth, bytes, next_ticket, ticket>>

ClaimBytes(r) ==
    LET q == queue[r]
        fits == Room(bytes[q], ByteCapacity[q], Size[r])
    IN  /\ phase[r] = "claim_bytes"
        /\ \/ /\ Size[r] > ByteCapacity[q]
              /\ Refuse(r, "Bytes")
              /\ UNCHANGED bytes
           \/ /\ Size[r] <= ByteCapacity[q]
              /\ Optimistic(q, "Bytes") \/ fits
              /\ Goto(r, IF fits THEN "claim_record" ELSE "undo_bytes")
              /\ bytes' = [bytes EXCEPT ![q] = @ + Size[r]]
           \/ /\ Size[r] <= ByteCapacity[q]
              /\ ~Optimistic(q, "Bytes") /\ ~fits
              /\ Refuse(r, "Bytes")
              /\ UNCHANGED bytes
        /\ UNCHANGED <<thread, depth, next_ticket, ticket>>

UndoBytes(r) ==
    /\ phase[r] = "undo_bytes"
    /\ bytes' = [bytes EXCEPT ![queue[r]] = @ - Size[r]]
    /\ Refuse(r, "Bytes")
    /\ UNCHANGED <<thread, depth, next_ticket, ticket>>

ClaimRecord(r) ==
    LET q == queue[r]
        fits == Room(depth[q], RecordCapacity[q], 1)
    IN  /\ phase[r] = "claim_record"
        /\ \/ /\ Optimistic(q, "Records") \/ fits
              /\ Goto(r, IF fits THEN "ticket" ELSE "undo_record")
              /\ depth' = [depth EXCEPT ![q] = @ + 1]
           \/ /\ ~Optimistic(q, "Records") /\ ~fits
              /\ Goto(r, "refund_bytes")
              /\ UNCHANGED depth
        /\ UNCHANGED <<thread, bytes, next_ticket, ticket>>

UndoRecord_dropped(r) ==
    /\ phase[r] = "undo_record"
    /\ Goto(r, "refund_bytes")
    /\ UNCHANGED <<thread, depth, bytes, next_ticket, ticket>>
UndoRecord(r) ==
    /\ phase[r] = "undo_record"
    /\ depth' = [depth EXCEPT ![queue[r]] = @ - 1]
    /\ Goto(r, "refund_bytes")
    /\ UNCHANGED <<thread, bytes, next_ticket, ticket>>

(* claim_queue returns the bytes of a record whose slot was refused. *)
RefundBytes_dropped(r) ==
    /\ phase[r] = "refund_bytes"
    /\ Refuse(r, "Records")
    /\ UNCHANGED <<thread, bytes, depth, next_ticket, ticket>>
RefundBytes(r) ==
    /\ phase[r] = "refund_bytes"
    /\ bytes' = [bytes EXCEPT ![queue[r]] = @ - Size[r]]
    /\ Refuse(r, "Records")
    /\ UNCHANGED <<thread, depth, next_ticket, ticket>>

(* next_ticket.fetch_add(1) + 1, drawn only once both claims are granted. *)
TakeTicket_previous(r) ==
    /\ phase[r] = "ticket"
    /\ next_ticket' = next_ticket + 1
    /\ ticket' = [ticket EXCEPT ![r] = next_ticket]
    /\ Goto(r, "push")
    /\ UNCHANGED <<thread, depth, bytes>>
TakeTicket(r) ==
    /\ phase[r] = "ticket"
    /\ next_ticket' = next_ticket + 1
    /\ ticket' = [ticket EXCEPT ![r] = next_ticket + 1]
    /\ Goto(r, "push")
    /\ UNCHANGED <<thread, depth, bytes>>

Push(r) ==
    /\ phase[r] = "push"
    /\ Goto(r, "queued")
    /\ UNCHANGED <<thread, depth, bytes, next_ticket, ticket>>

(* The worker's try_receive: the record slot is released, then the bytes.   *)
(* Which queued record is received next is the subject of module Lanes.     *)
ReleaseRecord(r) ==
    /\ phase[r] = "queued"
    /\ depth' = [depth EXCEPT ![queue[r]] = @ - 1]
    /\ Goto(r, "releasing")
    /\ UNCHANGED <<thread, bytes, next_ticket, ticket>>

ReleaseBytes_wrong_queue(r) ==
    /\ phase[r] = "releasing"
    /\ bytes' = [bytes EXCEPT !["Normal"] = @ - Size[r]]
    /\ Goto(r, "received")
    /\ UNCHANGED <<thread, depth, next_ticket, ticket>>
ReleaseBytes(r) ==
    /\ phase[r] = "releasing"
    /\ bytes' = [bytes EXCEPT ![queue[r]] = @ - Size[r]]
    /\ Goto(r, "received")
    /\ UNCHANGED <<thread, depth, next_ticket, ticket>>

Step(r) ==
    \/ ClaimBytes(r)
    \/ UndoBytes(r)
    \/ ClaimRecord(r)
    \/ UndoRecord(r)
    \/ RefundBytes(r)
    \/ TakeTicket(r)
    \/ Push(r)
    \/ ReleaseRecord(r)
    \/ ReleaseBytes(r)

Next ==
    \/ \E p \in Producer, r \in Log : Submit(p, r)
    \/ \E r \in Log : Step(r)

Spec == Init /\ [][Next]_vars
-----------------------------------------------------------------------------
(* Types.  The gauges are unsigned: a value below zero is the "queue        *)
(* accounting underflow" that decrement and subtract assert against.        *)
TypeOK ==
    /\ phase \in [Log -> Phase]
    /\ thread \in [Log -> Producer \cup {None}]
    /\ queue \in [Log -> Queue]
    /\ failure \in [Log -> Failure \cup {None}]
    /\ depth \in [Queue -> Nat]
    /\ bytes \in [Queue -> Nat]
    /\ next_ticket \in Nat
    /\ ticket \in [Log -> Nat]

(* Every gauge equals what is held: at no interleaving of claim, undo,      *)
(* refund and release is a slot or a byte leaked, returned twice or returned *)
(* to the other queue.                                                      *)
GaugesExact ==
    \A q \in Queue :
        /\ depth[q] = Cardinality(In(q, CountsAsRecord))
        /\ bytes[q] = Cardinality(Units(In(q, CountsAsBytes)))

(* The admission bound of the README: however producers interleave, the     *)
(* records granted a slot never exceed the capacity, nor the bytes granted   *)
(* the budget, although the gauges themselves may exceed both.              *)
GrantedBytes == {"claim_record", "undo_record", "refund_bytes", "releasing"} \cup Granted
CapacityRespected ==
    \A q \in Queue :
        /\ Cardinality(In(q, Granted)) <= RecordCapacity[q]
        /\ Cardinality(Units(In(q, GrantedBytes))) <= ByteCapacity[q]

(* Refinement: seen from outside, a record enters a bounded queue in one    *)
(* step, when its slot is granted, and leaves it when its slot is released; *)
(* the gauges, the overshoot and the fallback are not visible.              *)
Place(r) ==
    IF phase[r] \in Granted THEN queue[r]
    ELSE IF phase[r] \in Dropped THEN "refused"
    ELSE IF phase[r] \in {"releasing", "received"} THEN "received" ELSE "new"
Bounded == INSTANCE BoundedQueue WITH place <- [r \in Log |-> Place(r)]
ImplementsBoundedQueue == Bounded!Spec

(* The optimistic add overshoots by at most one attempt per producer that   *)
(* is inside a claim, which is what keeps fetch_add from wrapping around.   *)
OvershootBounded ==
    LET claiming == Cardinality({p \in Producer : Busy(p)})
    IN  \A q \in Queue :
            /\ depth[q] <= RecordCapacity[q] + claiming
            /\ bytes[q] <= ByteCapacity[q] * (1 + claiming)

(* Tickets are drawn by accepted records only, without gaps or repetition:  *)
(* the completion watermark of the worker cannot advance otherwise.         *)
Accepted == {r \in Log : phase[r] \in {"push", "queued", "releasing", "received"}}
TicketsDense ==
    /\ {ticket[r] : r \in Accepted} = 1 .. next_ticket
    /\ Cardinality(Accepted) = next_ticket
=============================================================================
