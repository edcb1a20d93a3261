------------------------------ MODULE MCExporter ------------------------------
(***************************************************************************)
(* Small instances of Exporter.  With max_batch_bytes = 130 two light       *)
(* records make a request of 123 bytes, record h one of 129 by itself, and  *)
(* record o one of 131: its ResourceLogs is 128 bytes long, so a varint     *)
(* taken for a byte too short would let it through.                         *)
(***************************************************************************)
EXTENDS Exporter

CONSTANTS a, b, w, h, o, p1, p2

MCThread == [r \in Log |-> IF r \in {h, o} THEN p2 ELSE p1]
MCWeight == [r \in Log |-> IF r = o THEN 89 ELSE IF r = h THEN 88 ELSE 40]
MCCapacity == [q \in Queue |-> 1]
=============================================================================
