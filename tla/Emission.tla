------------------------------ MODULE Emission ------------------------------
(***************************************************************************)
(* One log call from the context to its text line and its structured       *)
(* record (eden_logger/src: schema.rs, writer.rs, trace.rs, context.rs; the *)
(* identifiers of the record: eden_logger_export/src/mapper.rs).            *)
(*                                                                         *)
(* A call runs on one thread, through that thread's format buffer, and     *)
(* reads the global configuration one atomic at a time while another       *)
(* thread may store a new one.  Formatting runs user code (request fields, *)
(* Display values), which may log in turn or panic.  The calls here are    *)
(* those the runtime filter lets through.                                  *)
(***************************************************************************)
EXTENDS Integers, Sequences, FiniteSets

CONSTANTS
    Thread,     \* threads that log
    Call,       \* names for the calls in progress
    Span,       \* spans of the application
    TraceOf,    \* the trace a span belongs to
    Upstream,   \* trace identifiers received from elsewhere
    Malformed,  \* those of them that are no OTLP identifiers
    Compiled,   \* trace sources whose feature is compiled in
    Config,     \* WriterConfig values passed to init
    MaxDepth,   \* bound on calls nested in user code
    None        \* an absent value

Api == {"emit", "emit_direct"}
Source == {"FastTelemetry", "Otel"}
Target == {"Stderr", "Stdout", "Sink", "StructuredSink"}
Format == {"Display", "Json"}
TraceId == {TraceOf[s] : s \in Span} \cup Upstream

(* Identifiers as a call has them, and a line as it is written: the text of *)
(* one call.                                                                *)
Ids == [trace : TraceId \cup {None}, span : Span \cup {None}]
Line == [target : Target, format : Format, ids : Ids, text : {<<c>> : c \in Call}]

ASSUME EmissionAssumption ==
    /\ Malformed \subseteq Upstream
    /\ Compiled \subseteq Source
    /\ Config \subseteq [target : Target, format : Format, trace_source : Source]
    /\ MaxDepth \in Nat \ {0}
    /\ None \notin Span \cup TraceId \cup Line

NoIds == [trace |-> None, span |-> None]
IdsOf(s) == IF s = None THEN NoIds ELSE [trace |-> TraceOf[s], span |-> s]

VARIABLES
    TARGET, FORMAT, TRACE_SOURCE,  \* the writer's atomics
    initpc, initarg,  \* a call of init: the next store, and its argument
    current,     \* the span each tracer holds current on a thread
    ctx,         \* the LogContext a thread logs with
    frames,      \* the log calls a thread is inside, innermost last
    buffer,      \* FMT_BUF of emit and of emit_direct on each thread
    done,        \* history: the call that has just returned on a thread
    dropped,     \* history: the span with_fresh_span cleared in the context
    configured   \* history: the configuration of the last complete init

globals == <<TARGET, FORMAT, TRACE_SOURCE, initpc, initarg, configured>>
application == <<current, ctx, dropped>>
vars == <<globals, application, frames, buffer, done>>

(* The statics' initial values, which are WriterConfig's defaults too.      *)
DefaultConfig == [target |-> "Stderr", format |-> "Display", trace_source |-> "FastTelemetry"]

Init ==
    /\ TARGET = DefaultConfig.target
    /\ FORMAT = DefaultConfig.format
    /\ TRACE_SOURCE = DefaultConfig.trace_source
    /\ initpc = "idle" /\ initarg = None
    /\ current = [t \in Thread |-> [s \in Source |-> None]]
    /\ ctx = [t \in Thread |-> NoIds]
    /\ frames = [t \in Thread |-> <<>>]
    /\ buffer = [t \in Thread |-> [a \in Api |-> [borrowed |-> FALSE, text |-> <<>>]]]
    /\ done = [t \in Thread |-> None]
    /\ dropped = [t \in Thread |-> None]
    /\ configured = DefaultConfig

-----------------------------------------------------------------------------
(* writer::init: three stores that readers may see one at a time.  A call   *)
(* that one of them overlaps is not settled.                                *)
InitTarget ==
    /\ initpc = "idle"
    /\ \E config \in Config :
        /\ TARGET' = config.target
        /\ initarg' = config
    /\ initpc' = "format"
    /\ frames' = [t \in Thread |->
                    [i \in DOMAIN frames[t] |-> [frames[t][i] EXCEPT !.settled = FALSE]]]
    /\ done' = [t \in Thread |-> None]
    /\ UNCHANGED <<FORMAT, TRACE_SOURCE, configured, application, buffer>>

(* Mutant: init does not store the format.                                  *)
InitFormat_not_stored ==
    /\ initpc = "format"
    /\ initpc' = "trace_source"
    /\ UNCHANGED <<TARGET, FORMAT, TRACE_SOURCE, initarg, configured, application, frames,
                   buffer, done>>

InitFormat ==
    /\ initpc = "format"
    /\ FORMAT' = initarg.format
    /\ initpc' = "trace_source"
    /\ UNCHANGED <<TARGET, TRACE_SOURCE, initarg, configured, application, frames, buffer, done>>

InitSource ==
    /\ initpc = "trace_source"
    /\ TRACE_SOURCE' = initarg.trace_source
    /\ initpc' = "idle"
    /\ initarg' = None
    /\ configured' = initarg
    /\ UNCHANGED <<TARGET, FORMAT, application, frames, buffer, done>>

-----------------------------------------------------------------------------
(* The application between its log calls: tracers and LogContext builders.  *)
Idle(t) == frames[t] = <<>>

Forget(t) == done' = [done EXCEPT ![t] = None]

SwitchSpan(t) ==
    /\ Idle(t)
    /\ \E source \in Compiled, s \in Span \cup {None} :
        current' = [current EXCEPT ![t][source] = s]
    /\ Forget(t)
    /\ UNCHANGED <<globals, ctx, dropped, frames, buffer>>

(* extract_trace_context reads the source once and both identifiers there;  *)
(* a source whose feature is not compiled in has no current span.           *)
Extract(t) ==
    IF TRACE_SOURCE \in Compiled THEN IdsOf(current[t][TRACE_SOURCE]) ELSE NoIds

Or(first, second) == IF first # None THEN first ELSE second

(* LogContext::merge, and with_trace_id and with_span_id of present values. *)
Merge(base, other) ==
    [trace |-> Or(other.trace, base.trace), span |-> Or(other.span, base.span)]

SetContext(t, context, cleared) ==
    /\ Idle(t)
    /\ ctx' = [ctx EXCEPT ![t] = context]
    /\ dropped' = [dropped EXCEPT ![t] = cleared]
    /\ Forget(t)
    /\ UNCHANGED <<globals, current, frames, buffer>>

NewContext(t) == SetContext(t, NoIds, None)
WithTraceContext(t) == SetContext(t, Merge(ctx[t], Extract(t)), None)
WithTraceId(t) == \E id \in Upstream : SetContext(t, [ctx[t] EXCEPT !.trace = id], None)
WithFreshSpan(t) == SetContext(t, [ctx[t] EXCEPT !.span = None], ctx[t].span)

(* The other context was captured in some span, whole or made fresh.        *)
MergeContext(t) ==
    \E s \in Span, fresh \in BOOLEAN :
        SetContext(t, Merge(ctx[t], [IdsOf(s) EXCEPT !.span = IF fresh THEN None ELSE s]), None)

-----------------------------------------------------------------------------
(* The log call.  A frame is its place in emit or emit_direct:              *)
(*   new      EdenLog::new, before emit                                     *)
(*   check    record_emitted, the target, and borrowing the buffer          *)
(*   format   the format                                                    *)
(*   head     the identifiers of the text                                   *)
(*   text     request fields and values are formatted: user code            *)
(*   build    dispatch looks for a callback                                 *)
(*   values   the record is built or cloned: user code                      *)
(* with the line it has written and the record it has handed to the sink.   *)
(* The context and the current spans stay the same while a call runs.       *)
Top(t) == frames[t][Len(frames[t])]
At(t, pc) == ~ Idle(t) /\ Top(t).pc = pc
InUserCode(t) == At(t, "text") \/ At(t, "values")
SetTop(t, frame) == frames' = [frames EXCEPT ![t][Len(frames[t])] = frame]

(* Mutant: the current span replaces the context's, its trace does not.     *)
Effective_current_span(t) == [Merge(Extract(t), ctx[t]) EXCEPT !.span = Or(Extract(t).span, @)]

(* effective_trace_context: missing identifiers come from the tracer.       *)
Effective(t) ==
    IF ctx[t].trace # None /\ ctx[t].span # None THEN ctx[t] ELSE Merge(Extract(t), ctx[t])

Begin(t, c, api) ==
    /\ Idle(t) \/ InUserCode(t)
    /\ Len(frames[t]) < MaxDepth
    /\ \A i \in DOMAIN frames[t] : frames[t][i].call # c
    /\ frames' = [frames EXCEPT ![t] = Append(@,
           [call |-> c, api |-> api, pc |-> IF api = "emit" THEN "new" ELSE "check",
            settled |-> initpc = "idle", format |-> "Display", ids |-> NoIds,
            line |-> None, record |-> None])]
    /\ Forget(t)
    /\ UNCHANGED <<globals, application, buffer>>

(* A step of a call that leaves the buffers alone.                          *)
Quietly(t) == Forget(t) /\ UNCHANGED <<globals, application, buffer>>

New(t) ==
    /\ At(t, "new")
    /\ SetTop(t, [Top(t) EXCEPT !.pc = "check", !.ids = Effective(t)])
    /\ Quietly(t)

(* The RefMut a frame holds is dropped when the frame unwinds, and a panic  *)
(* unwinds every call the thread is in.                                     *)
Holds(frame) == frame.pc \in {"format", "head", "text"}
Held(t, api) == {i \in DOMAIN frames[t] : frames[t][i].api = api /\ Holds(frames[t][i])}

(* Mutant: the buffer is given back at the end of the call only.            *)
Unwind_buffer_kept(t) ==
    /\ frames' = [frames EXCEPT ![t] = <<>>]
    /\ Forget(t)
    /\ UNCHANGED <<globals, application, buffer>>

Unwind(t) ==
    /\ frames' = [frames EXCEPT ![t] = <<>>]
    /\ buffer' = [buffer EXCEPT ![t] = [a \in Api |->
           [borrowed |-> buffer[t][a].borrowed /\ Held(t, a) = {}, text |-> buffer[t][a].text]]]
    /\ Forget(t)
    /\ UNCHANGED <<globals, application>>

SkipText(t) ==
    /\ At(t, "check")
    /\ TARGET = "StructuredSink"
    /\ SetTop(t, [Top(t) EXCEPT !.pc = "build"])
    /\ Quietly(t)

(* Mutant: a call inside another one uses the same buffer.                  *)
Borrow_shared(t) ==
    LET f == Top(t)
        direct == f.api = "emit_direct"
    IN
    /\ At(t, "check")
    /\ TARGET # "StructuredSink"
    /\ buffer' = [buffer EXCEPT ![t][f.api] =
                    [borrowed |-> TRUE, text |-> IF direct THEN <<>> ELSE <<f.call>>]]
    /\ SetTop(t, [f EXCEPT !.pc = IF direct THEN "format" ELSE "text"])
    /\ Forget(t)
    /\ UNCHANGED <<globals, application>>

(* borrow_mut and clear; emit formats for display whatever the format is.   *)
Borrow(t) ==
    LET f == Top(t)
        direct == f.api = "emit_direct"
    IN
    /\ At(t, "check")
    /\ TARGET # "StructuredSink"
    /\ ~ buffer[t][f.api].borrowed
    /\ buffer' = [buffer EXCEPT ![t][f.api] =
                    [borrowed |-> TRUE, text |-> IF direct THEN <<>> ELSE <<f.call>>]]
    /\ SetTop(t, [f EXCEPT !.pc = IF direct THEN "format" ELSE "text"])
    /\ Forget(t)
    /\ UNCHANGED <<globals, application>>

BorrowFails(t) ==
    /\ At(t, "check")
    /\ TARGET # "StructuredSink"
    /\ buffer[t][Top(t).api].borrowed
    /\ Unwind(t)

ReadFormat(t) ==
    /\ At(t, "format")
    /\ SetTop(t, [Top(t) EXCEPT !.pc = "head", !.format = FORMAT])
    /\ Quietly(t)

WriteHead(t) ==
    /\ At(t, "head")
    /\ SetTop(t, [Top(t) EXCEPT !.pc = "text", !.ids = Effective(t)])
    /\ buffer' = [buffer EXCEPT ![t].emit_direct.text = Append(@, Top(t).call)]
    /\ Forget(t)
    /\ UNCHANGED <<globals, application>>

UserPanics(t) == InUserCode(t) /\ Unwind(t)

(* log_bytes reads the target again.                                        *)
Write(t) ==
    LET f == Top(t)
        text == [target |-> TARGET, format |-> f.format, ids |-> f.ids,
                 text |-> buffer[t][f.api].text]
    IN
    /\ At(t, "text")
    /\ SetTop(t, [f EXCEPT !.pc = "build",
                           !.line = IF TARGET = "StructuredSink" THEN None ELSE text])
    /\ buffer' = [buffer EXCEPT ![t][f.api].borrowed = FALSE]
    /\ Forget(t)
    /\ UNCHANGED <<globals, application>>

Return(t, frame) ==
    /\ frames' = [frames EXCEPT ![t] = SubSeq(@, 1, Len(@) - 1)]
    /\ done' = [done EXCEPT ![t] = frame]
    /\ UNCHANGED <<globals, application, buffer>>

NoSink(t) == At(t, "build") /\ Return(t, Top(t))

(* Mutant: from_direct takes the identifiers of the context only.           *)
Build_context_only(t) ==
    LET f == Top(t) IN
    /\ At(t, "build")
    /\ SetTop(t, [f EXCEPT !.pc = "values",
                           !.ids = IF f.api = "emit" THEN f.ids ELSE ctx[t]])
    /\ Quietly(t)

(* from_direct looks the identifiers up again; emit clones its record.      *)
Build(t) ==
    LET f == Top(t) IN
    /\ At(t, "build")
    /\ SetTop(t, [f EXCEPT !.pc = "values",
                           !.ids = IF f.api = "emit" THEN f.ids ELSE Effective(t)])
    /\ Quietly(t)

Deliver(t) == At(t, "values") /\ Return(t, [Top(t) EXCEPT !.record = Top(t).ids])

-----------------------------------------------------------------------------
ApplicationStep(t) ==
    SwitchSpan(t) \/ NewContext(t) \/ WithTraceContext(t) \/ WithTraceId(t)
    \/ WithFreshSpan(t) \/ MergeContext(t)

CallStep(t) ==
    \/ \E c \in Call, api \in Api : Begin(t, c, api)
    \/ New(t) \/ SkipText(t) \/ Borrow(t) \/ BorrowFails(t) \/ ReadFormat(t)
    \/ WriteHead(t) \/ UserPanics(t) \/ Write(t) \/ NoSink(t) \/ Build(t) \/ Deliver(t)

Next ==
    \/ InitTarget \/ InitFormat \/ InitSource
    \/ \E t \in Thread : ApplicationStep(t) \/ CallStep(t)

Spec == Init /\ [][Next]_vars

-----------------------------------------------------------------------------
(* mapper.rs: the identifiers of the OTLP record made of a structured one.  *)
decode_hex_id(id) == IF id \in Malformed THEN None ELSE id

(* Mutant: a well-formed span is kept only in its field.                    *)
Mapped_span_in_field_only(record) ==
    LET trace_id == decode_hex_id(record.trace)
    IN [trace_id |-> trace_id,
        span_id |-> IF trace_id # None THEN decode_hex_id(record.span) ELSE None,
        attributes |-> ((IF trace_id = None THEN {record.trace} ELSE {})
                        \cup (IF decode_hex_id(record.span) = None THEN {record.span} ELSE {}))
                       \ {None}]

Mapped(record) ==
    LET trace_id == decode_hex_id(record.trace)
        span_id == IF trace_id # None THEN decode_hex_id(record.span) ELSE None
    IN [trace_id |-> trace_id,
        span_id |-> span_id,
        attributes |-> ((IF trace_id = None THEN {record.trace} ELSE {})
                        \cup (IF span_id = None THEN {record.span} ELSE {})) \ {None}]

-----------------------------------------------------------------------------
Pc == {"new", "check", "format", "head", "text", "build", "values"}
Frame == [call : Call, api : Api, pc : Pc, settled : BOOLEAN, format : Format, ids : Ids,
          line : Line \cup {None}, record : Ids \cup {None}]

(* Types of the variables.                                                  *)
TypeOK ==
    /\ TARGET \in Target /\ FORMAT \in Format /\ TRACE_SOURCE \in Source
    /\ initpc \in {"idle", "format", "trace_source"}
    /\ initarg \in Config \cup {None}
    /\ current \in [Thread -> [Source -> Span \cup {None}]]
    /\ ctx \in [Thread -> Ids]
    /\ dropped \in [Thread -> Span \cup {None}]
    /\ configured \in Config \cup {DefaultConfig}
    /\ \A t \in Thread :
        /\ Len(frames[t]) <= MaxDepth
        /\ \A i \in DOMAIN frames[t] : frames[t][i] \in Frame
        /\ \A a \in Api : buffer[t][a].borrowed \in BOOLEAN
        /\ done[t] \in Frame \cup {None}

(* A thread's buffer is borrowed exactly while one of its calls formats     *)
(* text into it, so that a panic in user code or a refused borrow leaves    *)
(* the thread able to log.                                                  *)
BorrowsMatchFrames ==
    /\ TypeOK
    /\ \A t \in Thread, a \in Api :
        Cardinality(Held(t, a)) = IF buffer[t][a].borrowed THEN 1 ELSE 0

(* The calls of a thread that may have a line or a record to look at.       *)
Calls(t) == {frames[t][i] : i \in DOMAIN frames[t]} \cup ({done[t]} \ {None})

(* A line is the text of its own call, whole and alone, although the buffer *)
(* is reused, user code logs while it is being filled, and a panic leaves   *)
(* an unfinished line in it.                                                *)
LinesAreWhole ==
    \A t \in Thread : \A f \in Calls(t) : f.line # None => f.line.text = <<f.call>>

(* A call no init overlaps uses the configuration of the last one: its      *)
(* target and, by emit_direct, its format.                                  *)
ConfigRespected ==
    \A t \in Thread :
        done[t] # None /\ done[t].settled =>
            IF configured.target = "StructuredSink"
              THEN done[t].line = None
              ELSE /\ done[t].line # None
                   /\ done[t].line.target = configured.target
                   /\ done[t].api = "emit_direct" => done[t].line.format = configured.format

OfOneSpan(ids) == \E s \in Span \cup {None} : ids = IdsOf(s)

(* A context captured from one span, or from none, gives a line and a       *)
(* record whose identifiers belong to one span, although the trace source   *)
(* may change at any time.                                                  *)
IdsStayTogether ==
    \A t \in Thread : \A f \in Calls(t) :
        OfOneSpan(ctx[t]) =>
            /\ f.line # None => OfOneSpan(f.line.ids)
            /\ f.record # None => OfOneSpan(f.record)

(* The text line and the structured record of a call name the same trace    *)
(* and span: always by emit, which looks the identifiers up once, and by    *)
(* emit_direct, which looks them up twice, when no init overlaps the call.  *)
(* An identifier the context brings along is in both, overlapped or not:    *)
(* what a change of the source in between can tear apart is the tracer's.   *)
TextAndRecordAgree ==
    \A t \in Thread :
        LET f == done[t]
            given == ctx[t]
        IN  f # None /\ f.line # None /\ f.record # None =>
                /\ f.settled \/ f.api = "emit" => f.line.ids = f.record
                /\ given.trace # None => f.line.ids.trace = given.trace /\ f.record.trace = given.trace
                /\ given.span # None => f.line.ids.span = given.span /\ f.record.span = given.span

(* The OTLP record keeps every identifier, well-formed or not, in exactly   *)
(* one place, and never has a span without its trace.                       *)
NoIdLost ==
    \A t \in Thread :
        done[t] # None /\ done[t].record # None =>
            LET record == done[t].record
                otlp == Mapped(record)
                fields == {otlp.trace_id, otlp.span_id} \ {None}
            IN /\ fields \cup otlp.attributes = {record.trace, record.span} \ {None}
               /\ fields \cap otlp.attributes = {}
               /\ otlp.span_id # None => otlp.trace_id # None

-----------------------------------------------------------------------------
(* A statement of the documentation that the code does not keep.            *)

(* context.rs: after with_fresh_span "this operation appears as a new       *)
(* root-level span under the same trace, rather than nested under the       *)
(* original parent".                                                        *)
FreshSpanIsFresh ==
    \A t \in Thread : \A f \in Calls(t) :
        f.line # None /\ dropped[t] # None => f.line.ids.span # dropped[t]
=============================================================================
