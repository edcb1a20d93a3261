----------------------------- MODULE RequestSize -----------------------------
(***************************************************************************)
(* How the worker predicts the encoded length of an OTLP request while it  *)
(* fills a batch (eden_logger_export/src/worker.rs, ExportRequestSizer),   *)
(* and what the request's length is.  A request holds one ResourceLogs,    *)
(* which holds the resource and one ScopeLogs, which holds the scope and   *)
(* the records; each is a length-delimited field of its parent with a tag  *)
(* of one byte.                                                            *)
(***************************************************************************)
EXTENDS Integers, Sequences, SequencesExt

CONSTANTS
    ResourceLen,   \* encoded length of the resource
    ScopeLen       \* encoded length of the instrumentation scope

ASSUME RequestSizeAssumption == ResourceLen \in Nat /\ ScopeLen \in Nat

-----------------------------------------------------------------------------
(* The worker's arithmetic.                                                 *)
varint_len_one_short(value) ==
    LET len[n \in Nat] == IF n <= 128 THEN 1 ELSE 1 + len[n \div 128] IN len[value]
varint_len(value) ==
    LET len[n \in Nat] == IF n < 128 THEN 1 ELSE 1 + len[n \div 128] IN len[value]

length_delimited_field_len(len) == 1 + varint_len(len) + len

(* records_len is the sum of the records' field lengths.                    *)
encoded_len(records_len) ==
    LET scope_logs_len == length_delimited_field_len(ScopeLen) + records_len
        resource_logs_len == length_delimited_field_len(ResourceLen) + length_delimited_field_len(scope_logs_len)
    IN  length_delimited_field_len(resource_logs_len)

-----------------------------------------------------------------------------
(* The wire format: a length is written in groups of seven bits, as many as *)
(* it takes, behind a byte for the field's number and type. Room[k] is how  *)
(* many lengths k groups tell apart; n + 1 groups are enough for any n.     *)
Room[k \in Nat] == IF k = 0 THEN 1 ELSE 128 * Room[k - 1]
Groups(n) == CHOOSE k \in 1 .. n + 1 : n < Room[k] /\ (k > 1 => n >= Room[k - 1])
Field(len) == 1 + Groups(len) + len

(* A request with records of the given encoded lengths.                     *)
RequestLen(lengths) ==
    LET records == FoldSeq(LAMBDA len, n : Field(len) + n, 0, lengths)
    IN  Field(Field(ResourceLen) + Field(Field(ScopeLen) + records))
=============================================================================
