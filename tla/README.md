# Formal model of eden-logger

TLA+ modules that model the concurrent core of `eden_logger` and
`eden_logger_export` and the data they carry, TLC configurations that check them
on small instances, and TLAPS proofs. `PROJECT.json` lists every run, the source lines of every
definition, the hazards and the disagreements found; this file is the guide.

Paths below are relative to `src/crates/`.

## 1. Inventory

| Component | State | Operations | What makes it correct | Module |
|---|---|---|---|---|
| Admission (`eden_logger_export/src/collector.rs`) | four atomic gauges (records and bytes of the normal and the reserved queue), the ticket counter | claim bytes, claim a slot, undo, refund, fall over to the reserved queue, take a ticket, release | gauges exact, capacities never exceeded, transient overshoot bounded, tickets dense | `Admission`, which implements `BoundedQueue` (proved: `AdmissionProofs`) |
| Producer lanes (`collector.rs`) | a registry of lanes under one lock, two queues per lane under another, a closed flag, a cursor | register, push, close at thread end, retire, take, merge, clear | nothing lost or reordered, no missed wake-up, no starved thread, no dangling lane pointer | `Lanes` (`LanesProofs`) |
| Exporter generation (`eden_logger_export/src/lib.rs`, `worker.rs`) | acceptance flag, sink slot, quiescence fence, notifications, worker inbox, carried-over record, batch stack, watermark, status, counters, handle | dispatch, gather, batch, send, bisect, retry, terminal path, flush, shutdown, reconfigure, drop | each record in one place and settled once, watermark sound, flush exact, drain complete, worker ends | `Exporter`, which implements `Delivery` (proved: `ExporterProofs`) |
| Sink registry (`eden_logger/src/sink.rs`) | a map of slots under a lock, an atomic callback per slot, `ACTIVE_SINKS`, thread-local slot caches | register, install, replace, disable/drop, dispatch | active count exact, no dispatch after disable | `SinkRegistry`, checked and proved within `Generations` (`GenerationsProofs`) |
| Runtime filter (`eden_logger/src/filter.rs`) | a level mask and an initialization flag, two separate atomics | load from the environment or a value, enable, disable, clear, `should_log` | first use decides on the environment's mask, no endless spin, the last configuration holds | `RuntimeFilter` (`FilterProofs`) |
| Generations (`lib.rs`: install, reconfigure, shutdown, drop) | the handle's generation, registration and worker handle | prepare, register, replace the callback, drain the old generation with a deadline, abort, roll back | an open handle always works, no worker leaked, nothing accepted after the worker stopped, no outage | `Generations` (`GenerationsProofs`) |
| Request sizing (`worker.rs`) | none | varint arithmetic | a request never encodes longer than `max_batch_bytes` | `RequestSize`, used by `Exporter` |
| Emergency diagnostics (`lib.rs`) | one atomic timestamp | rate-limited write to stderr | one line per interval | not modelled |
| Log call (`eden_logger/src/schema.rs`, `writer.rs`) | a format buffer per thread for `emit` and another for `emit_direct`; the atomics for target, format and trace source | `init`, `emit`, `emit_direct`, `log_bytes`, the two formats, JSON escaping, building the record for the sink | buffers given back after re-entrant calls and panics, each line whole, the configuration obeyed, JSON readable, formats in agreement | `Emission` (`EmissionProofs`), `Encoding` (`EncodingProofs`) |
| Context and trace identifiers (`context.rs`, `trace.rs`, `fields.rs`) | a context per call; the tracers' current span | builders, merge, `with_fresh_span`, extraction | trace and span belong together; line and record agree; the latest value given is the one logged | `Emission` (`EmissionProofs`), `Encoding` (`EncodingProofs`) |
| Mapper (`mapper.rs`) | none | log to OTLP record; user fields may panic | no identifier lost, attributes in their order of precedence | identifiers in `Emission`, attributes in `Encoding` (`EncodingProofs`), the panic in `Exporter` |
| Macros (`eden_logger_macros`) | none | expansion by level and audience features | a call that is compiled out evaluates no argument; one that is compiled in each of them once | `Encoding` (`EncodingProofs`) |
| Core metrics, metrics visitors | independent counters | copying | - | not modelled |

**How they interact.** The application builds a context; a log macro evaluates its arguments
and calls `emit_direct`. It and `emit` ask the runtime filter, format a line into the
thread's buffer unless the target is the structured sink, write it, and call `dispatch`,
which looks at `ACTIVE_SINKS`, resolves the slot of the record's `RequestFields` type and
runs the callback it finds there. The exporter's callback checks `accepting`, filters,
claims capacity, takes a ticket, pushes into the calling thread's lane and, if the lane was
empty, notifies the worker. The worker (one tokio task) drains the lanes into its inbox,
releases capacity record by record, builds a batch, exports it over HTTP, and completes
tickets; the highest contiguous completed ticket is the watermark `force_flush` waits for.
`shutdown` and `reconfigure` stop acceptance, release or replace the sink callback, and wait
for the worker with a deadline; the callback owns a fence whose drop tells the worker that
no producer is left inside it.

**What is hard.** Producers run on arbitrary threads without locks on the admission path;
the worker, the flush callers and the closing handle are futures that interleave with them
at every await; wake-ups are permits of `Notify` that can be consumed by the wrong await;
reserved records overtake normal ones; batches are split and retried; records that leave a
queue are in no gauge until the batch starts; a deadline may abort the worker anywhere; user
code runs inside a log call and inside the worker, and may panic or log in turn. The list,
line by line, is in `PROJECT.json` under `hazards`.

## 2. Modules

### `Admission`
One action is one atomic operation of `submit_to_lane`, `claim_queue`,
`claim_amount`, `release` or `subtract`. `phase[r]` is the program counter of the
record's submission, `queue[r]` the queue it is claiming from or was admitted to.
Claims follow the code's order: bytes, then the slot; `RefundBytes` gives bytes
back when the slot is refused; a priority record then tries the reserved queue
(`Refuse`, `Combine`). `Optimistic` selects between `fetch_add` with undo and the
checked `fetch_update`: `Checked` is the set of gauges whose capacity exceeds
`u64::MAX / 2`, for which the code uses the latter. `ReleaseRecord` and `ReleaseBytes` are
the worker's two subtractions.

`BoundedQueue` is what this amounts to: a set per queue that a record enters in one
step when its slot and its bytes are there. `Place` maps the phases to it: a record
is admitted when its slot is granted, everything else is a stutter, and a refusal
needs no reason, since a claim about to be undone may be in the way.

### `Lanes`
A thread stands for its lane. `tpc` follows `submit`: register under the registry's
lock, count the lane, push under the lane's lock, notify if it was empty.
`Exit`/`ExitWakes` are `LocalProducer::drop`. The worker's `drain_into` is cut at
its locks: `StartDrain` (retire and rotate), one `Take` per lane, `FinishDrain`
(the quantum merge). `Clear` is the teardown of a failed drain, allowed once the
fence says that no thread is in the callback. Retiring several lanes is one step
although the code locks each: a thread closes its lane after its last push, so a
lane that is closed and empty stays so.

### `Exporter`
One generation from installation to its end. Producers: `Dispatch` loads the
callback, `CheckAccepting`, `ClaimSlot` (admission in one step: its interleavings
are `Admission`'s), `Push`, `Wake`, `Leave`, which drops the fence if it is the
last reference. The worker: `wpc` names the place in `run_worker` between two
awaits. `Top`, `AwaitReceive`, `Fill`, `GatherEnds`, `GatherReceives`,
`StartExport`, the `Send...` actions with `Split`, `NextGroup`, `BackoffEnds`, the
terminal path and `DrainCompletes`. Steps between two awaits are merged unless
another actor can tell the difference: that is why looking at the inbox and
reading the fence are separate. `Notify` is a stored permit for a sole waiter
(`permit`), and for the flush callers the set of armed waiters (`Armed`, `woken`).
Flush: arm, check the watermark, check the status, wait, each on its own.
Handle: `Close`, then the steps of `stop_acceptance` and `drain_generation` in
their order, including the deadline (`JoinTimesOut`), the abort, and the handle's
own drop at the end of `shutdown`. A panic in the mapper ends the worker.

Payloads are abstract: a record has a thread, an encoded length (`Weight`) and three
flags (`Priority`, `Filtered`, `Unmappable`). The collector's answers are
nondeterministic; `partial` may reject any subset the code can count.

`RequestSize` is the arithmetic by which the worker predicts the length of a request,
and beside it (`Room`, `Groups`, `Field`, `RequestLen`) the length by the wire format's own
definition; `BatchesFit` relates the two over every batch a run reaches, `RequestsFit`
over every batch there is.

`Delivery` is the generation's promise without its machinery: an order of accepted
records, each settled at most once, a watermark that is the settled prefix exactly,
and a flush that answers `Flushed` only behind it. `Fate` and `Promise` are the
refinement mapping.

### `Generations`
Handles that are exporters (`Exporter`), and plain sinks beside them, over the steps of
`SinkRegistry`, which is instantiated and not copied: `install_on`, `reconfigure`,
`shutdown` and `drop` call the registry's actions and wait for them. Each names a
callback, which stands for its generation. `Install` and `Reconfigure` prepare the
generation first; `InstallFails` and the second branch of `ReplaceEnds` take it down
again. `DrainTimesOut`, `DrainEnds` and `Cancelled` are the three ways out of the await
in `drain_generation`; `Cancelled` is a caller dropping the future, which detaches the
worker. `aborting` is set by `JoinHandle::abort`; the worker ends some time later. The
worker keeps what a handle can tell (`running`, `parked` after a terminal error, `dry`
between its look at the inbox and the fence, `stopped`, `aborted`), and a backlog.

### `SinkRegistry`
The write lock is explicit (`lock`), and register, replace and disable are cut
where a dispatching thread can see the difference: between the callback's store
and the counter's update. `dispatch` is cut at each of its reads. The branches for
a poisoned lock are left out (no code panics while holding it). It has no run of its
own: `Generations` drives it, with plain sinks and with exporters.

### `RuntimeFilter`
One action per atomic operation on the mask or the flag. The mask is the set of
its bits, `DisabledAll` is bit 7. `alone`, `last` and `before` are history: a configuration
call that overlaps no other and that nothing followed, and the mask it found. `Outcome`
says which levels such a call leaves, `Emitted` which the mask lets through.

### Emission
A thread's log calls are a stack of frames, since formatting a value runs user code
that may log again. A frame's `pc` is the place between two reads of shared state:
the target, the buffer, the format, the identifiers, the target again in
`log_bytes`, and the second look-up when `from_direct` builds the record for the
sink. `buffer` is the `RefCell` of each of the two entry points; borrowing it twice
panics (`BorrowFails`), and a panic unwinds every call of the thread and drops the
borrows they hold (`Unwind`). User code that catches a panic inside a value it
formats is left out. `init` is three stores (`InitTarget`, `InitFormat`,
`InitSource`) by one initializer at a time. `SwitchSpan` is the tracers' doing, the
`With...` actions are the application's; both happen between calls. Whether a sink
is installed is open (`NoSink`, `Build`): `dispatch` itself is `SinkRegistry`'s. The
filter has passed the call (`RuntimeFilter`). The layout of a line, its timestamp and
the emitted-log counters are left out: the text of a call is its name.

### `Encoding`
One log call from the context to the OTLP attributes. `BuildContext` is any builder or
`merge`, which all override key by key; `WithRequest` replaces the request block. What is
in a request block is the application's: it implements `RequestFields`, whose
`write_display` and `write_json` are two methods of its own and may use different names
for a field, as the example of `eden_logger/README.md` does (`tenant`, `tenant_id`).
`DisplayKey` and `JsonKey` are those names; the display formats go through the first, the
JSON line and the OTLP attributes through the second (`KeyedBy`). That both methods write
the field's own value is assumed, and each field has one key per method. The
macro's expansion is taken expression by expression (`evaluated`), so that what a
disabled call evaluates can be told. Text is a sequence of UTF-8 bytes, since
`write_json_escaped` works on bytes, and a value of the macro is a sequence of the
pieces its `Display` writes, since `JsonEscapingWriter` escapes them one by one. A line
is the sequence of its members, key and text, empty until it is written; brackets, colours
and time stamps are left out. A number is written in its decimal digits (`Digits`) and, in
JSON, without quotes. `Inserted` is one `insert` after the other, into the record's
additional data as into the mapper's attributes. `ReadString` and `Reads` are a
JSON reader for the properties.

### History variables
`pushed` (`Lanes`), `promised` (`Exporter`), `used`, `retired` (`SinkRegistry`),
`steady` (`Generations`), `alone`, `last`, `before`, `touched` (`RuntimeFilter`), `done`,
`dropped`, `configured` and a frame's `settled` (`Emission`) and `given` (`Encoding`)
record what happened for the properties; no guard of a modelled operation reads them,
except that a callback value is installed once (`used`) and a record is pushed once
(`Unpushed`), which bounds the runs.

### Memory model
Every action sees the latest value of each variable: the atomics are modelled as
sequentially consistent, although many are `Relaxed`. For the gauges and the
ticket counter this loses nothing, since only the modification order of a single
variable is used. `ACTIVE_SINKS` and the level mask are read `Relaxed`: a stale
read may delay the effect of a registration or a configuration on another thread,
which the properties of those modules do not exclude in the code.

## 3. Runs

| Run | Questions | Instance |
|---|---|---|
| `admission` | `TypeOK`, `GaugesExact`, `OvershootBounded`, `TicketsDense`, `ImplementsBoundedQueue` | 3 producers, 4 records of sizes 1 to 3, three of them with priority, one slot per queue; the normal bytes and the reserved records are claimed with `fetch_update`, the two other gauges with `fetch_add` |
| `lanes` | `LaneGaugeExact`, `LanesKeepOrder`, `PointersStayValid`, `WokenWhenRecordsWait`, `DrainIsFair`, `ExitedLanesRetire` | 2 threads, 3 records, a quantum of 1, so that a lane exceeds it; fairness |
| `exporter_delivery` | `ExactlyOnePlace`, `WatermarkSound`, `LaneOrderKept`, `BatchesFit` | two light, a heavy, an oversize and a filtered record, batches of 2 records or 130 bytes, every answer |
| `exporter_closing` | `DrainKeepsPromise`, `ReportAccountsForRecords`, `ClosingEndsTheWorker` | 2 records, one with priority that may panic in the mapper, every way to close with its deadline; fairness |
| `exporter_liveness` | `ImplementsDelivery`, `NoRecordIsStranded`, `FlushReturnsWhenDone` | 2 producers, 2 records, a flush; fairness |
| `generations` | `ActiveExact`, `OpenHandleWorks`, `NoWorkerLeaked`, `NoDispatchAfterDisable`, `QuietOnceStopped`, `SteadyLogsAreTaken` | 2 exporter handles for one type, a plain sink of another, 3 callbacks, a thread, a backlog of one |
| `filter` | `EnvDecidesFirst`, `LastCallHolds`, `EveryCallReturns` | 2 threads, every configuration call, the variable set or not; fairness |
| `emission` | `BorrowsMatchFrames`, `LinesAreWhole`, `ConfigRespected`, `IdsStayTogether`, `TextAndRecordAgree`, `NoIdLost` | 1 thread, calls nested twice, 2 spans of different traces, a malformed identifier from upstream, 2 configurations and the default |
| `encoding` | `JsonReadsBack`, `LatestValueWins`, `FormatsAgree`, `DisabledIsFree` | 2 steps build the context, 12 macro calls with repeated keys and audiences, request fields with one name in both writers and with two, texts with a quote, control bytes, a line break, an accent |

`TypeOK` is a question of its own in `admission`; the other modules state it as the
first conjunct of `LaneGaugeExact`, `ExactlyOnePlace`, `NoWorkerLeaked`,
`EnvDecidesFirst` and `BorrowsMatchFrames`.

The bounds are the least at which the cases meet: three producers and one slot per queue, so
that claims overlap, see each other's overshoot, are refused, fall over and are refunded; a
batch limit of two records and of 130 bytes, so that batches close for either reason and
overflow into the next; record lengths of 40, 88 and 89 bytes, with which the fields inside
a request come to lie on either side of the varint boundary at 128 and the request on either
side of its limit; a heavy and a light record in `exporter_closing`, so that one is carried
over while the other's batch fails; a batch of two and a reserved record, so that a split
happens and a record overtakes another; two levels, so that a mask can be empty, partial and
full. In `generations` two handles of one type make an install fail and take over after the
other's closing, and three callbacks are an installation, a reconfiguration and a refused or
plain one; one dispatching thread suffices, since dispatching threads write nothing another
one reads. In `emission` one thread suffices, since buffers, contexts and current spans are
a thread's own, and the initializer interleaves with every step. Two nested calls are enough
for a second borrow of either buffer, and two spans for a mixture of their identifiers. In
`encoding` two steps of building meet in every pair of a key's sources.

`CHECK_DEADLOCK FALSE` stands where the system may really stop: every record has
been logged once and nobody closes, the generation has ended, every callback has been
installed, or the call is over. The runs of `RuntimeFilter` and `Emission` check for deadlock.

**Fairness.** `Exporter!Fairness`: threads inside a callback go on running and
tasks that can run are polled (weak fairness); `Settles` is strongly fair, that
is, a collector asked again and again some time answers with something other than
a transient failure. Nobody has to log, flush or close, and no deadline has to
elapse. `Lanes!FairSpec` and `RuntimeFilter!FairSpec` assume only that threads in a
call are scheduled and the worker task is polled.

**Disagreements.** Three runs are expected to fail; each shows that the code does
something other than what a comment, a test or the documentation says:

- `exporter_fence_race`: the drain finds the inbox dry, a producer pushes and drops
  the fence, the drain sees it closed and reports success; the record is lost.
- `exporter_flush_unaware`: a waiting flush does not learn of a terminal failure
  and reports a time-out.
- `emission_fresh_span`: the span cleared by `with_fresh_span` is filled in again from
  the tracer, whose current span is still the parent.

In three more places a run that passes states exactly what the code does, and the
documentation says something else:

- `ReportAccountsForRecords`: `worker.rs:20` describes `remaining_records` as the "records
  that remained when shutdown ended". The report of a closing that gives up misses
  the record carried over to the next batch (`worker.rs:197`, `216`), a batch being filled,
  because the in-flight gauge is set only when the export starts (`worker.rs:205`), and a
  record whose mapping panicked; it counts the settled part of a split batch
  (`lib.rs:750`). The property relates the report to everything that was lost and names
  each of these amounts (`InHand`, `Panicked`, `Recounted`). The last one needs a batch of
  two that is split while a closing waits, which the two records of `exporter_closing`
  are too long for; `ReportIsHonest` proves the equation for batches of any size.
- `LastCallHolds`: `filter.rs:122` says that `disable_levels` removes levels from the
  enabled set. When no filter is set, as in its own example, or when the last enabled level
  is removed, the mask becomes 0, which emits every level, the disabled one too
  (`filter.rs:136`, `185`).
- `DisabledIsFree`: `eden_logger/README.md:77` says that a macro whose level or audience
  feature is off expands to `{}`. A call whose audience is off still evaluates its audience
  expression (`eden_logger_macros/src/lib.rs:190`).

Further observations, read from the code while modelling it and not covered by a run:

- A record submitted by a thread that is still inside the callback when the worker is
  aborted is accepted and never exported (`Submit` in `Generations`).
- A record may be refused because of a concurrent addition about to be undone
  (`collector.rs:382`), although `metrics.rs:93` speaks of full queues.
- Oversize records count as `rejected` (`worker.rs:399`), which `metrics.rs:105`
  reserves for the collector's rejections.
- A value of `EDEN_LOG_LEVEL` that names no known level emits every level
  (`filter.rs:91`), and the first log on a thread may store the environment's mask over
  an `enable_levels` that has just returned (`filter.rs:57`).
- A call that overlaps `init` may write a line in the old format to the new target:
  `writer.rs:73-77` speaks only of logs that go to the old target.
- A context with a trace but no span is completed with the tracer's current span,
  which may belong to another trace (`schema.rs:74`).
- `EdenLog::emit` writes the display format even when the configured one is JSON
  (`schema.rs:331`).
- A string that needs any JSON escape is copied byte by byte, which garbles its
  non-ASCII characters (`schema.rs:708`).
- The arguments of a call are evaluated before the runtime filter is asked
  (`schema.rs:364`).
- A key given both as a request field and as additional data occurs twice in a JSON
  line, where readers keep the last, the additional one; the OTLP attribute is the
  request's (`mapper.rs:29-33`).
- The display line leaves out the error category (`schema.rs:278`, `449`).

The properties that hold are stated so as not to hide these: `DrainKeepsPromise` is about
records whose logging call had returned when the closing began, `LastCallHolds` about calls
that no other configuration and no first load of the environment overlaps or follows,
`ConfigRespected` and `TextAndRecordAgree` about calls that no `init` overlaps
(`TextAndRecordAgree` also about all calls of `emit`, and about the identifiers a context
brings along in every call), `IdsStayTogether` about contexts whose identifiers come from
one span, `JsonReadsBack` about pieces that are ASCII or need no escape, `FormatsAgree`
about keys that are not a name of the record's own and that request fields and additional
data do not share, `QuietOnceStopped` about workers that stopped by themselves, and
`SteadyLogsAreTaken` about dispatches that no call of the handle overlaps.

## 4. Proofs

`AdmissionProofs` proves, for any set of producers, records, sizes and positive
capacities, under `AdmissionAssumption` only:

- `GaugesAlwaysExact`: `Spec => []GaugesExact`;
- `AdmissionIsBounded`: `Spec => []CapacityRespected`, which no run lists since
  `ImplementsBoundedQueue` contains it;
- `GaugesNeverUnderflow`: `Spec => []TypeOK`, whose content is that no gauge falls below
  zero; how far one overshoots is `OvershootAlwaysBounded`;
- `TicketsAlwaysDense`: `Spec => []TicketsDense`;
- `OvershootAlwaysBounded`: `Spec => []OvershootBounded`;
- `AdmissionImplementsBoundedQueue`: `Spec => ImplementsBoundedQueue`.

The inductive invariant is `IInv == TypeInt /\ GaugesExact /\ CapacityRespected`. A producer
decides on the previous value of a gauge, so the capacity bound is preserved only because
the gauge is known to count at least what is granted; and the gauges are non-negative only
because they equal cardinalities, so the type invariant proved first lets them be any
integer (`TypeInt`). The bytes of a record are `Size[r]` distinct units (`Units`), so that
sums are cardinalities and the library's theorems about finite sets apply (`UnitsAdd`,
`UnitsRemove`). `InStep`, `DepthStep` and `BytesStep` say once how the two sets behind each
gauge move when one record changes phase, `ActionMoves` gives the move of each action, and
`StepPreserves` combines them. `TicketStep` and `OtherStepsKeepTickets` carry
`TicketsDense`. What a gauge counts beyond its capacity are claims about to be undone;
`OneSubmission` says that a thread has at most one of those, and one only for a record that
would fit an empty queue, so that the overshoot is at most what the threads together can
have in flight. For the refinement, `PlaceMoves` says what each step does to the abstract
place of its record, `WhatIsHeldFits` turns the bound into the guard of
`BoundedQueue!Admit`, and `StepRefines` puts them together.

`SequenceFacts` holds what the proofs about queues rest on. An induction that takes
its statement as an operator cannot be used by the provers, so it is stated with
sets: `SetInduction` (a set of numbers with 0 and each successor), from which
`SequenceInduction` says that a set of sequences closed under `Append` holds them all.
`FlattenSeq` is a recursive function, so its unfolding (`FlattenUnfolds`), the places of
its elements (`FlattenPlaces`) and its behaviour on `Append` and concatenation are
proved. `SelectSeq` is opaque to the prover, which is why `Lanes` selects with
`FlattenSeq` (`Only`).

`LanesProofs` proves every safety property of the `lanes` run for any finite sets of
threads and records and any quantum, under `LanesAssumption`:

- `GaugeCountsLanes`: `Spec => []LaneGaugeExact`;
- `LanesDeliverInOrder`: `Spec => []LanesKeepOrder`;
- `NoDanglingLane`: `Spec => []PointersStayValid`;
- `NoRecordForgotten`: `Spec => []WokenWhenRecordsWait`;
- `DrainStaysFair`: `Spec => DrainIsFair`.

The inductive invariant joins four parts to the properties. `LanesRegistered` ties the
registry to where each thread is and says that an unregistered lane is empty: retiring it
loses nothing, and a thread inside `submit` points to a registered lane. `DrainsEachOnce`
and `RecordsOwned` say that a drain takes each lane once and that what it took is that
thread's own, and `PushedOnce` that no record is pushed twice, so a drain's merge needs at
most as many rounds as there are records. `WakesAreDue` is what makes the missed wake-up
impossible: a lane with records has a permit, a producer about to notify, or a drain that
has yet to come to it. Order is then a statement about the merge. Restricted to one thread
(`Only`), the rounds of the merge deliver the successive slices of its lane
(`PassDelivers`, `PassesDeliver`), hence the lane itself (`DrainDelivers`); and
`DrainStaysFair` counts what a prefix of the merge holds of two threads, round by round
(`PrefixSplits`, `PrefixDelivers`).

`ExporterProofs` proves of a generation, for any finite sets of producers, records and
flush callers, any capacities, batch limits, answers and ways to close, under the
modules' assumptions:

- `OnePlace`: `Spec => []ExactlyOnePlace`;
- `LaneOrder`: `Spec => []LaneOrderKept`;
- `WatermarkIsSound`: `Spec => []WatermarkSound`;
- `PromiseHolds`: `Spec => []DrainKeepsPromise`;
- `ReportIsHonest`: `Spec => ReportAccountsForRecords`;
- `RequestsFit`: `Spec => []BatchesFit`;
- `ExporterImplementsDelivery`: `Spec => ImplementsDelivery`;
- `GenerationsFlushExactly`: `Spec => [](Promise!WatermarkCovers /\ Promise!FlushIsExact)`;
- `TypeCorrect`: `Spec => []TypeOK`, and `InductiveInvariant`, from which they follow.

`LaneOrderKept` speaks of exported records only; to be kept it needs the whole pipeline in
order. `PipelineInv` lists its stages from the end to the start (groups in export, the
overflow record, inbox, lanes, records being pushed) and says that every accepted record
is in one of them, that each stage is in order and that each is behind the one before
(`Chain`); the same part says that a queue's depth counts exactly the records waiting in
it, which is why a released slot was held. `WorkerInv` says at which places the worker
holds a batch, `RecordInv` that tickets are dense and that a thread inside the callback has
its own record, `TrackerInv` that the watermark and the set beyond it are the settled
tickets exactly. `PromiseInv` says that what was promised when the closing began is in no
producer's hands; an inbox found dry by a worker that knows of the closing then leaves
none of it. `TopKeeps` to `TerminalStopsKeeps` and their like for producers and handle
carry these action by action; a step settles the whole first group or nothing
(`SettlesBatch`). For the refinement, `Abstract` is the state of `Delivery`: density of the
tickets makes the order a sequence without repetition, settling is a stutter or one
`Delivery!Settle`, and the exact tracker gives the abstract watermark.

`ReportIsHonest` needs what `IInv` says of a living worker to outlive it, because the
handle reports after the worker has ended and producers inside the callback still admit and
push records then. `ReportInv` therefore keeps, until a failed drain reports, a count that
no longer mentions the order (`Accounted`): depth by depth the records in inbox, lanes and
hands of producers, all of them accepted, and apart from the groups. `PipelineAccounts`
derives it from `Pipeline` while the worker lives, `EndAccounts` carries it over the abort,
the panic and the stop, `ProducingAccounts` over the producers that remain. `ReportInv`
also says that behind the closed fence no producer is inside, and that a parked worker has
in flight the records it retains. That nothing else is lost needs the converse: every
accepted record is in one of these places or in the overflow slot, but for `Strays`, the one
record of a panic (`Whole`; `PipelineWhole` while the worker lives).
`ReportInv` was checked before it was proved, on the `exporter_closing` instance and on one
with a batch of two.

`RequestsFit` holds for any weights, resource, scope and limit; integers are unbounded, as
the saturation of `usize` is left out. `VarintIsGroups` shows that the worker's loop over
seven bits counts the groups the wire format needs: both satisfy the same recursion
(`GroupsDivide`), and the smallest length at which they differ would have a smaller one
before it. The worker's sum over records and the wire's sum over lengths are folds; `Adds`
is what a fold over indices satisfies, `AddsAgree` and `AddsAny` that the order does not
matter, and `RecordsLenIs` and `WireTotal` that both are the same `Total`. Hence
`SizerExact`, the prediction is the length, and `HalvesFit`, a bisected request fits
because each half is no longer. The invariant on top of `IInv` is `FitInv`: every group fits
from the first record of a batch on. It was checked on the `exporter_delivery`
instance first. The inductions over numbers and sequences go through sets
(`SetInduction`, `SequenceInduction` in `SequenceFacts`).

What a client of `force_flush` may rely on is proved twice. `GenerationsFlushExactly`
says it of a generation: a call that answered `Flushed` has every record accepted before
it settled, then and for good. `AnswersExact` says this with the target the call took,
and holds initially and is kept because each step of the generation is a step of
`Delivery` or a stutter (`StepDelivery`, `AbstractSteps`); with the exact watermark of
`IInv` (`WatermarkSettled`) it gives the promise. `FlushKeepsItsPromise` says the same
of any behaviour of `Delivery` whatever implements it, over variables of its own
(`Bare`), from `Delivery`'s own invariant.

`FilterProofs` proves, for any threads, levels and configuration calls, under
`FilterAssumption` (bit 7 is no level, calls and environment are of their sets):

- `EnvironmentAlwaysDecides`: `Spec => []EnvDecidesFirst`;
- `LastCallAlwaysHolds`: `Spec => []LastCallHolds`.

`IInv` adds to the types where in its call a thread may be (`CallsHavePlaces`), what the
mask is until somebody configures (`EnvironmentLoaded`: only the thread that wins the
exchange stores, and nobody reads before it has published) and that a call marked alone
is the only one (`Undisturbed`), over the mask it found. `StoredMaskHasOutcome` is the arithmetic
of the masks: what a call stores lets exactly its outcome through.

`GenerationsProofs` has three parts that build on each other: the registry, the handles, and
the steady dispatches. For any types, handles, threads and callbacks, under
`GenerationsAssumption` (finitely many types, exporters are handles, `None` is neither
handle nor callback), they prove every property of the `generations` run:

- `GenerationsDriveTheRegistry`: `Spec => Registry!Spec`, so that what holds of the
  registry holds in the hands of exporters;
- `ActiveAlwaysExact`, `NoDispatchOnceDisabled`;
- `OpenHandleAlwaysWorks`, `NoWorkerEverLeaked`, `QuietWorkersStayQuiet`;
- `SteadyLogsAlwaysTaken`.

The first inductive invariant, `IInv`, says who holds the write lock, by how much the count
lags behind the slots between the two stores of a critical section (`CountLags`), and that
a callback is in one place only: a fresh one in no slot until its handle has stored it, a
handle's own one in that handle's slot until it is taken out, a retired one nowhere
(`Places`). `ActiveExact` alone is not inductive because the counter moves after the slot.
`EInv` adds the place each handle has in its call (`InCall`), which ties the registry's
program counter to the generations the handle holds; that no two handles share a
generation (`Apart`); and that a worker which has stopped by itself had its fence closed.
A closed fence stays closed (`ClosedStays`), because its callback is in no slot, in no
handle and in no thread, and a retired callback is never registered again. `SInv` adds the
handle that serves a steady dispatch (`Serves`). `OpenIsCounted` is the delicate step: the
count is not zero while a handle is open, not even between the two stores of another
handle's registration.

`EmissionProofs` proves every property of the `emission` run for any threads, spans,
configurations and depth of nesting, under `EmissionAssumption` (an absent value is no span,
trace or line; configurations and features are of their sets): `BuffersAlwaysGivenBack`,
`LinesAlwaysWhole`, `ConfigAlwaysRespected`, `IdsAlwaysTogether`, `TextAndRecordAlwaysAgree`
and `NoIdEverLost`. The last one holds of any record and needs no invariant. For the others
`IInv` says, thread by thread, that only the innermost call is outside user code (`Nested`),
that a borrowed buffer has one holder and that holder's text in it (`Borrowing`), how much
of the text and which identifiers a call has at each place (`Going`), and how far `init` has
come (`Initializing`). A frame is `settled` until an `init` begins; only settled frames
promise anything about the configuration, which is why the two look-ups of such a call
agree; that the identifiers the context brings along are in both results (`Carries`) needs
no settled frame (`Given`). Stacks are handled by what pushing, popping and replacing a top
frame keeps of `Nested` and `Borrowing`; `TopMoves` turns that into one lemma for each step
of a call.

`EncodingProofs` proves every property of the `encoding` run for any finite contexts, any
builders and merges, calls, texts, numbers, compiled features and filters, under
`EncodingAssumption` (maps are finite and hold text, or numbers in a request block; the
arguments of a call are pieces of bytes or audiences):

- `JsonLinesRead`: `Spec => []JsonReadsBack`;
- `LatestValuesWin`: `Spec => []LatestValueWins`;
- `FourWritersAgree`: `Spec => []FormatsAgree`;
- `DisabledCostsNothing`: `Spec => []DisabledIsFree`.

The inductive invariant, `IInv`, says that the context holds what was given to it and, at
each place of the call, which of its expressions have been evaluated and which of the two
lines, the record and the attributes stand (`Progress`); it was checked on the `encoding`
instance before it was proved. Each action keeps it (`KeepWithRequest` to `KeepMap`), and the
four theorems follow from it by what the writers compute:

- The last value wins. `Inserted` is a fold, unfolded once by `InsertedMore`; from it, a
  record or a set of attributes is the last value of each key over what was there before.
  `LinesJoined` says what the keys and last values of two lines put together are;
  `MappedIs`, `DisplayIs`, `JsonIs` and `RecordIs` give the keys and values of each form in
  these terms, and the forms agree where none of their own names is in the way.
- The line reads back. The JSON reader is a function defined by recursion towards the end
  of the line; `ReaderReads` gives its existence and its unfolding at each place. `Readable(e, v)`
  says that the text `e`, wherever it stands in a line, reads as `v` and the reader goes on
  behind it. An escaped byte has it (`EscapedByteReads`) and joining keeps it
  (`ReadableConcat`), so that every text (`EscapedReads`) and every value written in pieces
  (`ChunksReadBack`) reads as some text, and as itself where escaping keeps it (`Kept`).

Only model-checked: liveness under fairness and statements with ENABLED, which are out of
the prover's reach (`EveryCallReturns`, `ExitedLanesRetire`, `ClosingEndsTheWorker`,
`NoRecordIsStranded`, `FlushReturnsWhenDone`).

## 5. Order of work

1. `Admission`, `BoundedQueue` and their proofs.
2. `Exporter` with `RequestSize`; `Delivery` and the proofs of both.
3. `RuntimeFilter` and its proofs.
4. `SinkRegistry`, then `Generations` over it, and the proofs of both.
5. `Lanes` and its proofs.
6. `Emission`, `Encoding` and the proofs of both.

Worth doing next: the lane table under re-entrant submission; the teardown's zeroed
gauges against claims taken one atomic operation at a time.

## 6. Not modelled

The rate limit of emergency diagnostics (it decides only whether a line goes to stderr,
and nothing else reads its state); the counters of the core logger and the metrics
visitors (independent additions to an external library's counters, and copies); the
thread-local lane table under a submission from inside a submission; time stamps,
colours, size estimates and the serde form of a record; the mapper's severity, body and
times; the jittered retry delay (a back-off may last any time); HTTP and TLS transport;
configuration parsing and validation (its limits are the modules' assumptions); tokio
itself (a `Notify` is its permit, a task is polled fairly). Benches and examples are not
part of the system.
