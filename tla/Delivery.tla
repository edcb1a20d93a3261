------------------------------- MODULE Delivery -------------------------------
(***************************************************************************)
(* What an exporter generation promises its clients (eden_logger_export):  *)
(* an accepted record has a place in one order, it is settled at most      *)
(* once, and force_flush answers Flushed only when every record accepted   *)
(* before the call is settled.  How records are queued, batched, retried   *)
(* and bisected, and who wakes whom, is left to module Exporter, which     *)
(* implements this specification.                                          *)
(***************************************************************************)
EXTENDS Integers, Sequences

CONSTANTS
    Log,       \* records
    Flusher    \* callers of force_flush, one call each

VARIABLES
    order,     \* the accepted records in the order of their tickets
    fate,      \* what became of each record
    watermark, \* the length of the settled prefix of order
    flush,     \* each call: idle, waiting, or its answer
    target     \* what a call waits for: the length of order when it was made

vars == <<order, fate, watermark, flush, target>>

Fate == {"none", "refused", "accepted", "settled"}
Answer == {"Flushed", "TimedOut", "TerminalFailure", "Stopped"}

Init ==
    /\ order = <<>>
    /\ fate = [r \in Log |-> "none"]
    /\ watermark = 0
    /\ flush = [f \in Flusher |-> "idle"]
    /\ target = [f \in Flusher |-> 0]

Accept(r) ==
    /\ fate[r] = "none"
    /\ fate' = [fate EXCEPT ![r] = "accepted"]
    /\ order' = Append(order, r)
    /\ UNCHANGED <<watermark, flush, target>>

Refuse(r) ==
    /\ fate[r] = "none"
    /\ fate' = [fate EXCEPT ![r] = "refused"]
    /\ UNCHANGED <<order, watermark, flush, target>>

(* Records are settled in any order, several at a time; the watermark goes  *)
(* as far as it can, and no further.                                        *)
Settle(S) ==
    /\ \A r \in S : fate[r] = "accepted"
    /\ fate' = [r \in Log |-> IF r \in S THEN "settled" ELSE fate[r]]
    /\ \E k \in 0 .. Len(order) :
          /\ \A i \in 1 .. k : fate'[order[i]] = "settled"
          /\ k < Len(order) => fate'[order[k + 1]] # "settled"
          /\ watermark' = k
    /\ UNCHANGED <<order, flush, target>>

Call(f) ==
    /\ flush[f] = "idle"
    /\ flush' = [flush EXCEPT ![f] = "waiting"]
    /\ target' = [target EXCEPT ![f] = Len(order)]
    /\ UNCHANGED <<order, fate, watermark>>

Return(f, answer) ==
    /\ flush[f] = "waiting"
    /\ answer = "Flushed" => target[f] <= watermark
    /\ flush' = [flush EXCEPT ![f] = answer]
    /\ UNCHANGED <<order, fate, watermark, target>>

Next ==
    \/ \E r \in Log : Accept(r) \/ Refuse(r)
    \/ \E S \in SUBSET Log : Settle(S)
    \/ \E f \in Flusher : Call(f)
    \/ \E f \in Flusher, answer \in Answer : Return(f, answer)

Spec == Init /\ [][Next]_vars

-----------------------------------------------------------------------------
TypeOK ==
    /\ order \in Seq(Log)
    /\ fate \in [Log -> Fate]
    /\ watermark \in 0 .. Len(order)
    /\ flush \in [Flusher -> {"idle", "waiting"} \cup Answer]
    /\ target \in [Flusher -> 0 .. Len(order)]

(* CompletionTracker: what the watermark covers is settled.                 *)
WatermarkCovers == \A i \in 1 .. watermark : fate[order[i]] = "settled"

(* FlushStatus::Flushed: "every record accepted before the call completed". *)
FlushIsExact ==
    \A f \in Flusher :
        flush[f] = "Flushed" => \A i \in 1 .. target[f] : fate[order[i]] = "settled"
=============================================================================
