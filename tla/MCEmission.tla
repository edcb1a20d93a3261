----------------------------- MODULE MCEmission -----------------------------
(***************************************************************************)
(* Small instances of Emission: one thread, two calls that may nest, two    *)
(* spans of different traces and a malformed identifier from upstream.      *)
(***************************************************************************)
EXTENDS Emission, TLC

CONSTANTS c1, c2, s1, s2, x1, x2

MCTraceOf == (s1 :> x1) @@ (s2 :> x2)
MCConfig == {
    [target |-> "Stdout", format |-> "Json", trace_source |-> "Otel"],
    [target |-> "StructuredSink", format |-> "Display", trace_source |-> "FastTelemetry"]}

(* A span is exchanged together with its trace.                             *)
Swap == (s1 :> s2) @@ (s2 :> s1) @@ (x1 :> x2) @@ (x2 :> x1)
Symmetry == Permutations({c1, c2}) \cup {Swap}
              \cup {p @@ Swap : p \in Permutations({c1, c2})}
=============================================================================
