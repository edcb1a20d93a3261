----------------------------- MODULE BoundedQueue -----------------------------
(***************************************************************************)
(* What concurrent admission amounts to (README of eden_logger_export,     *)
(* "Admission"): each queue is a bounded set that a record enters in one   *)
(* step, when its slot and its bytes are there, or not at all.  No gauges, *)
(* no overshoot, no second look.  A refusal needs no reason: an attempt of  *)
(* another producer may be in the way.  Module Admission implements this.  *)
(***************************************************************************)
EXTENDS Integers, FiniteSets

CONSTANTS Log, Priority, Size, RecordCapacity, ByteCapacity

VARIABLE place   \* of each record: new, one of the queues, refused, received

Queue == {"Normal", "Reserved"}
Held(q) == {r \in Log : place[r] = q}

(* One element per byte, so that a sum of sizes is a cardinality.           *)
Units(S) == UNION {{r} \X (1 .. Size[r]) : r \in S}

Init == place = [r \in Log |-> "new"]

(* The reserved slots are for priority records only.                        *)
Admit(r, q) ==
    /\ place[r] = "new"
    /\ q = "Reserved" => r \in Priority
    /\ place' = [place EXCEPT ![r] = q]
    /\ Cardinality(Held(q)') <= RecordCapacity[q]
    /\ Cardinality(Units(Held(q)')) <= ByteCapacity[q]

Refuse(r) == place[r] = "new" /\ place' = [place EXCEPT ![r] = "refused"]
Receive(r) == place[r] \in Queue /\ place' = [place EXCEPT ![r] = "received"]

Next == \E r \in Log : Refuse(r) \/ Receive(r) \/ \E q \in Queue : Admit(r, q)

Spec == Init /\ [][Next]_place
=============================================================================
