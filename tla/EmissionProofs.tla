---------------------------- MODULE EmissionProofs ----------------------------
(***************************************************************************)
(* Theorems about log calls, for any number of threads and spans, any      *)
(* depth of calls nested in user code, and any configurations.             *)
(***************************************************************************)
EXTENDS Emission, SequenceTheorems, FiniteSetTheorems, TLAPS

Globals ==
    /\ TARGET \in Target /\ FORMAT \in Format /\ TRACE_SOURCE \in Source
    /\ initpc \in {"idle", "format", "trace_source"} /\ initarg \in Config \cup {None}
    /\ initpc # "idle" => initarg \in Config
    /\ configured \in Config \cup {DefaultConfig}
Application ==
    /\ current \in [Thread -> [Source -> Span \cup {None}]]
    /\ ctx \in [Thread -> Ids]
    /\ dropped \in [Thread -> Span \cup {None}]
Stacks ==
    /\ frames \in [Thread -> Seq(Frame)]
    /\ \A t \in Thread : Len(frames[t]) <= MaxDepth
    /\ buffer \in [Thread -> [Api -> [borrowed : BOOLEAN, text : Seq(Call)]]]
    /\ done \in [Thread -> Frame \cup {None}]

(* How far init has come.                                                   *)
Initializing ==
    /\ initpc = "idle" => /\ TARGET = configured.target /\ FORMAT = configured.format
                          /\ TRACE_SOURCE = configured.trace_source
    /\ initpc = "format" => TARGET = initarg.target
    /\ initpc = "trace_source" => TARGET = initarg.target /\ FORMAT = initarg.format

Places(s) == 1 .. Len(s)

(* A call's entry point and place, and what it has not done yet.            *)
WellPlaced(f) ==
    /\ f.pc = "new" => f.api = "emit"
    /\ f.pc \in {"format", "head"} => f.api = "emit_direct"
    /\ f.line # None => f.pc \in {"build", "values"}
    /\ f.record = None

(* Outer calls run user code.                                               *)
Nested(s) ==
    /\ \A i \in Places(s) : i # Len(s) => s[i].pc \in {"text", "values"}
    /\ \A i \in Places(s) : WellPlaced(s[i])

(* A buffer is borrowed by one call, and has its text, or by none.          *)
Begun(f) == IF f.pc = "text" THEN <<f.call>> ELSE <<>>
HasBuffer(f, b) == b[f.api].borrowed /\ b[f.api].text = Begun(f)
Borrowing(s, b) ==
    /\ \A i \in Places(s) : Holds(s[i]) => HasBuffer(s[i], b)
    /\ \A i, j \in Places(s) : Holds(s[i]) /\ Holds(s[j]) /\ s[i].api = s[j].api => i = j
    /\ \A a \in Api : b[a].borrowed => \E i \in Places(s) : Holds(s[i]) /\ s[i].api = a

(* r is s but for its top, which is f.                                      *)
Replaces(r, s, f) ==
    /\ Len(r) = Len(s) /\ Len(s) \in Places(s)
    /\ \A i \in Places(s) : r[i] = IF i = Len(s) THEN f ELSE s[i]

(* What a call has written, and where its identifiers are from.             *)
Whole(f) == f.line # None => f.line.text = <<f.call>>
Carries(t, ids) ==
    /\ ctx[t].trace # None => ids.trace = ctx[t].trace
    /\ ctx[t].span # None => ids.span = ctx[t].span
Given(t, f) ==
    /\ f.line # None => Carries(t, f.line.ids) /\ (f.api = "emit" => f.line.ids = f.ids)
    /\ f.pc \in {"text", "values"} \/ (f.api = "emit" /\ f.pc # "new") => Carries(t, f.ids)
Together(t, f) ==
    /\ OfOneSpan(ctx[t]) => OfOneSpan(f.ids) /\ (f.line # None => OfOneSpan(f.line.ids))
    /\ Given(t, f)
AsConfigured(f) ==
    IF TARGET = "StructuredSink"
      THEN f.line = None
      ELSE /\ f.line # None /\ f.line.target = TARGET
           /\ f.api = "emit_direct" => f.line.format = FORMAT
Settled(t, f) ==
    /\ initpc = "idle"
    /\ f.pc \in {"format", "head", "text"} => TARGET # "StructuredSink"
    /\ f.api = "emit_direct" /\ f.pc \in {"head", "text"} => f.format = FORMAT
    /\ f.pc \in {"build", "values"} => AsConfigured(f)
    /\ f.line # None => f.line.ids = (IF f.api = "emit" THEN f.ids ELSE Effective(t))
    /\ f.api = "emit_direct" /\ f.pc \in {"text", "values"} => f.ids = Effective(t)
Going(t, f) == Whole(f) /\ Together(t, f) /\ (f.settled => Settled(t, f))
Over(t, f) ==
    /\ Whole(f) /\ Together(t, f)
    /\ f.record # None => f.record = f.ids /\ Carries(t, f.record)
    /\ f.settled => /\ initpc = "idle" /\ AsConfigured(f)
                    /\ f.line # None /\ f.record # None => f.line.ids = f.record

ThreadInv(t) ==
    /\ Nested(frames[t]) /\ Borrowing(frames[t], buffer[t])
    /\ \A i \in Places(frames[t]) : Going(t, frames[t][i])
    /\ done[t] # None => Over(t, done[t])
IInv ==
    /\ Globals /\ Application /\ Stacks /\ Initializing
    /\ \A t \in Thread : ThreadInv(t)

-----------------------------------------------------------------------------
(* Stacks of calls.                                                         *)
LEMMA TopIsThere ==
    ASSUME Stacks, NEW t \in Thread, ~ Idle(t)
    PROVE  /\ Len(frames[t]) \in 1 .. MaxDepth /\ Len(frames[t]) \in Places(frames[t])
           /\ Top(t) \in Frame
<1>1. frames[t] \in Seq(Frame) /\ frames[t] # <<>>  BY DEF Stacks, Idle
<1>2. Len(frames[t]) \in Nat \ {0}  BY <1>1, EmptySeq
<1>3. Top(t) \in Frame  BY <1>1, <1>2, ElementOfSeq DEF Top
<1> QED  BY <1>2, <1>3, EmissionAssumption DEF Stacks, Places

LEMMA TopReplaced ==
    ASSUME Stacks, NEW t \in Thread, ~ Idle(t), NEW f \in Frame, SetTop(t, f)
    PROVE  /\ frames' \in [Thread -> Seq(Frame)]
           /\ \A u \in Thread \ {t} : frames'[u] = frames[u]
           /\ Replaces(frames'[t], frames[t], f)
<1> DEFINE s == frames[t]
           top == [s EXCEPT ![Len(s)] = f]
<1>1. s \in Seq(Frame) /\ Len(s) \in 1 .. Len(s)  BY TopIsThere DEF Stacks, Places
<1>2. frames' = [frames EXCEPT ![t] = top]  BY DEF SetTop
<1> HIDE DEF s
<1>3. /\ top \in Seq(Frame) /\ Len(top) = Len(s)
      /\ \A i \in 1 .. Len(s) : top[i] = IF i = Len(s) THEN f ELSE s[i]
  BY <1>1, ExceptSeq
<1> HIDE DEF top
<1> QED  BY <1>1, <1>2, <1>3 DEF Stacks, Replaces, Places, s

LEMMA Pushed ==
    ASSUME Stacks, NEW t \in Thread, NEW f \in Frame,
           frames' = [frames EXCEPT ![t] = Append(@, f)]
    PROVE  /\ frames' \in [Thread -> Seq(Frame)]
           /\ \A u \in Thread \ {t} : frames'[u] = frames[u]
           /\ Len(frames[t]) \in Nat /\ Len(frames'[t]) = Len(frames[t]) + 1
           /\ \A i \in Places(frames[t]) : frames'[t][i] = frames[t][i]
           /\ frames'[t][Len(frames[t]) + 1] = f
<1> DEFINE s == frames[t]
           longer == Append(s, f)
<1>1. s \in Seq(Frame)  BY DEF Stacks
<1>2. frames' = [frames EXCEPT ![t] = longer]  OBVIOUS
<1> HIDE DEF s
<1>3. /\ longer \in Seq(Frame) /\ Len(longer) = Len(s) + 1 /\ longer[Len(s) + 1] = f
      /\ \A i \in 1 .. Len(s) : longer[i] = s[i]
  BY <1>1, AppendProperties
<1>4. Len(s) \in Nat  BY <1>1, LenProperties
<1> HIDE DEF longer
<1> QED  BY <1>2, <1>3, <1>4 DEF Stacks, Places, s

LEMMA Popped ==
    ASSUME Stacks, NEW t \in Thread, ~ Idle(t),
           frames' = [frames EXCEPT ![t] = SubSeq(@, 1, Len(@) - 1)]
    PROVE  /\ frames' \in [Thread -> Seq(Frame)]
           /\ \A u \in Thread \ {t} : frames'[u] = frames[u]
           /\ Len(frames'[t]) = Len(frames[t]) - 1
           /\ \A i \in 1 .. Len(frames[t]) - 1 : frames'[t][i] = frames[t][i]
<1> DEFINE s == frames[t]
           n == Len(s)
           shorter == SubSeq(s, 1, n - 1)
<1>1. s \in Seq(Frame) /\ n \in Nat \ {0}  BY TopIsThere DEF Stacks
<1>2. frames' = [frames EXCEPT ![t] = shorter]  OBVIOUS
<1>3. \A i \in 1 .. n : s[i] \in Frame  BY <1>1, ElementOfSeq
<1> HIDE DEF s, n
<1>4. \A i \in 1 .. n - 1 : s[i] \in Frame  BY <1>1, <1>3
<1>5. /\ shorter \in Seq(Frame) /\ Len(shorter) = IF 1 <= n - 1 THEN n - 1 - 1 + 1 ELSE 0
      /\ \A i \in 1 .. n - 1 - 1 + 1 : shorter[i] = s[1 + i - 1]
  BY <1>1, <1>4, SubSeqProperties
<1>6. Len(shorter) = n - 1 /\ \A i \in 1 .. n - 1 : shorter[i] = s[i]
  BY <1>1, <1>5
<1> HIDE DEF shorter
<1> QED  BY <1>2, <1>5, <1>6 DEF Stacks, s, n

LEMMA Emptied ==
    ASSUME Stacks, NEW t \in Thread, frames' = [frames EXCEPT ![t] = <<>>]
    PROVE  /\ frames' \in [Thread -> Seq(Frame)]
           /\ \A u \in Thread \ {t} : frames'[u] = frames[u]
           /\ Len(frames'[t]) = 0
  BY EmptySeq DEF Stacks

-----------------------------------------------------------------------------
(* What pushing, popping and replacing a frame does to the order of calls   *)
(* and to the buffers they have borrowed.                                   *)
OuterHolds(s, api) == \E i \in Places(s) : i # Len(s) /\ Holds(s[i]) /\ s[i].api = api

LEMMA OneHolder ==
    ASSUME NEW s, NEW b, Borrowing(s, b), Len(s) \in Places(s), NEW f, f = s[Len(s)]
    PROVE  /\ Holds(f) => HasBuffer(f, b) /\ ~ OuterHolds(s, f.api)
           /\ ~ b[f.api].borrowed => ~ OuterHolds(s, f.api)
  BY DEF Borrowing, HasBuffer, OuterHolds

LEMMA ReplacingNests ==
    ASSUME NEW s, NEW r, NEW f, Nested(s), WellPlaced(f), Replaces(r, s, f)
    PROVE  Nested(r)
  BY DEF Nested, Replaces, Places

LEMMA ReplacingBorrows ==
    ASSUME NEW s, NEW r, NEW f, NEW b, NEW d, Borrowing(s, b),
           Replaces(r, s, f), s \in Seq(Frame),
           f.api = s[Len(s)].api, ~ OuterHolds(s, f.api),
           \A a \in Api \ {f.api} : d[a] = b[a],
           Holds(f) => HasBuffer(f, d), d[f.api].borrowed => Holds(f)
    PROVE  Borrowing(r, d)
<1> DEFINE n == Len(s)
<1>1. /\ Places(r) = Places(s) /\ n \in Places(s)
      /\ \A i \in Places(s) : r[i] = IF i = n THEN f ELSE s[i]
  BY DEF Replaces, Places
<1>2. ASSUME NEW i \in Places(s), i # n
      PROVE  r[i] = s[i] /\ (Holds(s[i]) => s[i].api \in Api \ {f.api})
  <2>1. s[i] \in Frame  BY ElementOfSeq DEF Places
  <2>2. s[i].api \in Api  BY <2>1 DEF Frame
  <2> QED  BY <1>1, <1>2, <2>2 DEF OuterHolds
<1>3. ASSUME NEW i \in Places(r), Holds(r[i]) PROVE HasBuffer(r[i], d)
  <2>1. CASE i = n  BY <1>1, <1>3, <2>1
  <2>2. CASE i # n
    <3>1. r[i] = s[i] /\ s[i].api \in Api \ {f.api}  BY <1>1, <1>2, <1>3, <2>2
    <3>2. HasBuffer(s[i], b)  BY <1>1, <1>3, <3>1 DEF Borrowing
    <3> QED  BY <3>1, <3>2 DEF HasBuffer
  <2> QED  BY <2>1, <2>2
<1>4. ASSUME NEW i \in Places(r), NEW j \in Places(r), Holds(r[i]), Holds(r[j]), r[i].api = r[j].api
      PROVE  i = j
  <2>1. CASE i = n \/ j = n  BY <1>1, <1>2, <1>4, <2>1
  <2>2. CASE i # n /\ j # n  BY <1>1, <1>2, <1>4, <2>2 DEF Borrowing
  <2> QED  BY <2>1, <2>2
<1>5. ASSUME NEW a \in Api, d[a].borrowed PROVE \E i \in Places(r) : Holds(r[i]) /\ r[i].api = a
  <2>1. CASE a = f.api  BY <1>1, <1>5, <2>1
  <2>2. CASE a # f.api
    <3>1. PICK i \in Places(s) : Holds(s[i]) /\ s[i].api = a
      BY <1>5, <2>2 DEF Borrowing
    <3> QED  BY <1>1, <1>2, <2>2, <3>1
  <2> QED  BY <2>1, <2>2
<1> QED BY <1>3, <1>4, <1>5 DEF Borrowing

LEMMA ReplacingQuietly ==
    ASSUME NEW s, NEW r, NEW f, NEW b, Borrowing(s, b), Replaces(r, s, f),
           f.api = s[Len(s)].api, Holds(f) <=> Holds(s[Len(s)]), Begun(f) = Begun(s[Len(s)])
    PROVE  Borrowing(r, b)
<1>1. /\ Places(r) = Places(s)
      /\ \A i \in Places(s) : r[i] = IF i = Len(s) THEN f ELSE s[i]
  BY DEF Replaces, Places
<1>2. ASSUME NEW i \in Places(s)
      PROVE  /\ Holds(r[i]) <=> Holds(s[i])
             /\ r[i].api = s[i].api /\ (HasBuffer(s[i], b) => HasBuffer(r[i], b))
  <2>1. CASE i = Len(s)
    <3>1. r[i] = f /\ s[i] = s[Len(s)]  BY <1>1, <2>1
    <3> QED  BY <3>1 DEF HasBuffer
  <2>2. CASE i # Len(s)
    <3>1. r[i] = s[i]  BY <1>1, <2>2
    <3> QED  BY <3>1
  <2> QED  BY <2>1, <2>2
<1> QED  BY <1>1, <1>2 DEF Borrowing

LEMMA PushingNests ==
    ASSUME NEW s, NEW r, Nested(s), Len(s) \in Nat, Len(r) = Len(s) + 1,
           \A i \in Places(s) : r[i] = s[i], WellPlaced(r[Len(s) + 1]),
           Len(s) \in Places(s) => s[Len(s)].pc \in {"text", "values"}
    PROVE  Nested(r)
<1>1. Places(r) = Places(s) \cup {Len(s) + 1}  BY DEF Places
<1> QED  BY <1>1 DEF Nested

LEMMA PushingBorrows ==
    ASSUME NEW s, NEW r, NEW b, Borrowing(s, b), Len(s) \in Nat, Len(r) = Len(s) + 1,
           \A i \in Places(s) : r[i] = s[i], ~ Holds(r[Len(s) + 1])
    PROVE  Borrowing(r, b)
<1>1. Places(r) = Places(s) \cup {Len(s) + 1}  BY DEF Places
<1> QED  BY <1>1 DEF Borrowing

LEMMA PoppingNests ==
    ASSUME NEW s, NEW r, Nested(s), Len(s) \in Nat \ {0}, Len(r) = Len(s) - 1,
           \A i \in 1 .. Len(s) - 1 : r[i] = s[i]
    PROVE  Nested(r)
<1>1. Places(r) \subseteq Places(s) \ {Len(s)}  BY DEF Places
<1>2. \A i \in Places(r) : r[i] = s[i]  BY DEF Places
<1> QED  BY <1>1, <1>2 DEF Nested

LEMMA PoppingBorrows ==
    ASSUME NEW s, NEW r, NEW b, Borrowing(s, b), Len(s) \in Nat \ {0}, Len(r) = Len(s) - 1,
           \A i \in 1 .. Len(s) - 1 : r[i] = s[i], ~ Holds(s[Len(s)])
    PROVE  Borrowing(r, b)
<1>1. Places(r) = Places(s) \ {Len(s)}  BY DEF Places
<1>2. \A i \in Places(r) : r[i] = s[i]  BY DEF Places
<1> QED  BY <1>1, <1>2 DEF Borrowing

-----------------------------------------------------------------------------
(* What a step leaves of a thread's invariant.                              *)
Same == UNCHANGED <<TARGET, FORMAT, TRACE_SOURCE, initpc>>
SameContext(t) == ctx'[t] = ctx[t] /\ current'[t] = current[t]

LEMMA LookUpsKept ==
    ASSUME NEW t \in Thread, SameContext(t), TRACE_SOURCE' = TRACE_SOURCE
    PROVE  Effective(t)' = Effective(t) /\ ctx'[t] = ctx[t]
  BY DEF Effective, Extract, Merge, Or, SameContext

LEMMA GoingKept ==
    ASSUME NEW t \in Thread, Same, SameContext(t), NEW f,
           \A i \in Places(frames[t]) : Going(t, frames[t][i]), Going(t, f),
           \A i \in Places(frames'[t]) :
               frames'[t][i] = f \/ \E j \in Places(frames[t]) : frames'[t][i] = frames[t][j]
    PROVE  (\A i \in Places(frames[t]) : Going(t, frames[t][i]))'
<1> SUFFICES ASSUME NEW i \in Places(frames'[t]) PROVE Going(t, frames[t][i])'
  OBVIOUS
<1>1. Going(t, frames'[t][i])  OBVIOUS
<1> QED
  BY <1>1, LookUpsKept DEF Same, Going, Whole, Together, Given, Carries, OfOneSpan, Settled, AsConfigured

LEMMA OverKept ==
    ASSUME NEW t \in Thread, Same, SameContext(t), Over(t, done'[t])
    PROVE  Over(t, done[t])'
  BY LookUpsKept DEF Same, Over, Whole, Together, Given, Carries, OfOneSpan, AsConfigured

LEMMA OthersKept ==
    ASSUME NEW u \in Thread, ThreadInv(u), Same, SameContext(u),
           frames'[u] = frames[u], buffer'[u] = buffer[u], done'[u] = done[u]
    PROVE  ThreadInv(u)'
<1>1. Nested(frames'[u]) /\ Borrowing(frames'[u], buffer'[u])
  BY DEF ThreadInv
<1>2. (\A i \in Places(frames[u]) : Going(u, frames[u][i]))'
  <2> SUFFICES ASSUME NEW i \in Places(frames[u]) PROVE Going(u, frames[u][i])'
    OBVIOUS
  <2> QED
    BY LookUpsKept DEF ThreadInv, Same, Going, Whole, Together, Given, Carries, OfOneSpan, Settled, AsConfigured
<1>3. (done[u] # None => Over(u, done[u]))'
  BY OverKept DEF ThreadInv
<1> QED  BY <1>1, <1>2, <1>3 DEF ThreadInv

(* A thread that writes nothing but its own stack, buffers and last call    *)
(* leaves the other threads as they are.                                    *)
LEMMA OneThreadMoves ==
    ASSUME IInv, NEW t \in Thread, UNCHANGED <<globals, application>>, Stacks', ThreadInv(t)',
           \A u \in Thread \ {t} :
               frames'[u] = frames[u] /\ buffer'[u] = buffer[u] /\ done'[u] = done[u]
    PROVE  IInv'
<1>1. Globals' /\ Application' /\ Initializing'
  BY DEF IInv, Globals, Application, Initializing, globals, application
<1>2. ASSUME NEW u \in Thread \ {t} PROVE ThreadInv(u)'
  <2>1. Same /\ SameContext(u)  BY DEF Same, SameContext, globals, application
  <2> QED  BY <2>1, OthersKept DEF IInv
<1> QED  BY <1>1, <1>2 DEF IInv

(* The innermost call, and what no step of it changes.                      *)
LEMMA TopGoes ==
    ASSUME IInv, NEW t \in Thread, ~ Idle(t)
    PROVE  /\ Stacks /\ Application /\ ThreadInv(t)
           /\ Len(frames[t]) \in Nat \ {0} /\ Len(frames[t]) \in Places(frames[t])
           /\ Top(t) \in Frame /\ WellPlaced(Top(t)) /\ Going(t, Top(t))
<1>1. Stacks /\ Application /\ ThreadInv(t)  BY DEF IInv
<1>2. Top(t) \in Frame /\ Len(frames[t]) \in Places(frames[t]) /\ Len(frames[t]) \in Nat \ {0}
  BY <1>1, TopIsThere, EmissionAssumption
<1>3. WellPlaced(Top(t)) /\ Going(t, Top(t))  BY <1>1, <1>2 DEF ThreadInv, Nested, Top
<1> QED  BY <1>1, <1>2, <1>3

(* The step of the innermost call, from its frame to f.                     *)
LEMMA TopMoves ==
    ASSUME IInv, NEW t \in Thread, ~ Idle(t), NEW f \in Frame, SetTop(t, f), Forget(t),
           UNCHANGED <<globals, application>>,
           buffer' \in [Thread -> [Api -> [borrowed : BOOLEAN, text : Seq(Call)]]],
           \A u \in Thread \ {t} : buffer'[u] = buffer[u],
           WellPlaced(f), Going(t, f), Borrowing(frames'[t], buffer'[t])
    PROVE  IInv'
<1>0. Stacks /\ ThreadInv(t) /\ Len(frames[t]) \in Places(frames[t])  BY TopGoes
<1>1. /\ frames' \in [Thread -> Seq(Frame)] /\ \A u \in Thread \ {t} : frames'[u] = frames[u]
      /\ Replaces(frames'[t], frames[t], f)
  BY <1>0, TopReplaced
<1>2. /\ done' \in [Thread -> Frame \cup {None}] /\ done'[t] = None
      /\ \A u \in Thread \ {t} : done'[u] = done[u]
  BY <1>0 DEF Stacks, Forget
<1>3. Same /\ SameContext(t)  BY DEF Same, SameContext, globals, application
<1>4. Nested(frames'[t])  BY <1>0, <1>1, ReplacingNests DEF ThreadInv
<1>5. (\A i \in Places(frames[t]) : Going(t, frames[t][i]))'
  <2>1. Places(frames'[t]) = Places(frames[t])  BY <1>1 DEF Replaces, Places
  <2>2. \A i \in Places(frames'[t]) :
          frames'[t][i] = f \/ \E j \in Places(frames[t]) : frames'[t][i] = frames[t][j]
    BY <1>1, <2>1 DEF Replaces
  <2> QED  BY <1>0, <1>3, <2>2, GoingKept DEF ThreadInv
<1>6. Stacks'
  <2>1. \A u \in Thread : Len(frames'[u]) <= MaxDepth  BY <1>0, <1>1 DEF Stacks, Replaces
  <2> QED  BY <1>1, <1>2, <2>1 DEF Stacks
<1>7. ThreadInv(t)'  BY <1>2, <1>4, <1>5 DEF ThreadInv
<1> QED  BY <1>1, <1>2, <1>6, <1>7, OneThreadMoves

(* A step that holds on to what the call has borrowed.                      *)
LEMMA TopMovesQuietly ==
    ASSUME IInv, NEW t \in Thread, ~ Idle(t), NEW f \in Frame, SetTop(t, f), Quietly(t),
           f.api = Top(t).api, Holds(f) <=> Holds(Top(t)), Begun(f) = Begun(Top(t)),
           WellPlaced(f), Going(t, f)
    PROVE  IInv'
<1>0. Stacks /\ ThreadInv(t) /\ Len(frames[t]) \in Places(frames[t])  BY TopGoes
<1>1. Replaces(frames'[t], frames[t], f)
  BY <1>0, TopReplaced
<1>2. Borrowing(frames'[t], buffer[t])
  BY <1>0, <1>1, ReplacingQuietly DEF ThreadInv, Top
<1> QED  BY <1>0, <1>2, TopMoves DEF Quietly, Stacks

(* A step that takes, fills or gives back the call's buffer.                *)
LEMMA TopMovesBuffer ==
    ASSUME IInv, NEW t \in Thread, ~ Idle(t), NEW f \in Frame, SetTop(t, f), Forget(t),
           UNCHANGED <<globals, application>>,
           NEW d \in [borrowed : BOOLEAN, text : Seq(Call)],
           buffer' = [buffer EXCEPT ![t][f.api] = d],
           Holds(Top(t)) \/ ~ buffer[t][f.api].borrowed,
           d.borrowed <=> Holds(f), Holds(f) => d.text = Begun(f),
           f.api = Top(t).api, WellPlaced(f), Going(t, f)
    PROVE  IInv'
<1>0. Stacks /\ ThreadInv(t) /\ Len(frames[t]) \in Places(frames[t])  BY TopGoes
<1>1. Replaces(frames'[t], frames[t], f)
  BY <1>0, TopReplaced
<1>2. f.api \in Api /\ Top(t) = frames[t][Len(frames[t])]  BY DEF Frame, Top
<1>3. /\ buffer' \in [Thread -> [Api -> [borrowed : BOOLEAN, text : Seq(Call)]]]
      /\ \A u \in Thread \ {t} : buffer'[u] = buffer[u]
      /\ buffer'[t][f.api] = d /\ \A a \in Api \ {f.api} : buffer'[t][a] = buffer[t][a]
  BY <1>0, <1>2 DEF Stacks
<1>4. ~ OuterHolds(frames[t], f.api)
  BY <1>0, <1>2, OneHolder DEF ThreadInv
<1>5. Holds(f) => HasBuffer(f, buffer'[t])  BY <1>3 DEF HasBuffer
<1>6. Borrowing(frames'[t], buffer'[t])
  <2> DEFINE s == frames[t]
             r == frames'[t]
             b == buffer[t]
             c == buffer'[t]
  <2>1. Borrowing(s, b)  BY <1>0 DEF ThreadInv
  <2>2. Replaces(r, s, f) /\ s \in Seq(Frame)  BY <1>0, <1>1 DEF Stacks
  <2>3. f.api = s[Len(s)].api  BY <1>2
  <2>4. \A a \in Api \ {f.api} : c[a] = b[a]  BY <1>3
  <2>5. ~ OuterHolds(s, f.api)  BY <1>4
  <2>6. (Holds(f) => HasBuffer(f, c)) /\ (c[f.api].borrowed => Holds(f))  BY <1>3, <1>5
  <2> HIDE DEF s, r, b, c
  <2>7. Borrowing(r, c)
    BY <2>1, <2>2, <2>3, <2>4, <2>5, <2>6, ReplacingBorrows
  <2> QED  BY <2>7 DEF r, c
<1> QED BY <1>3, <1>6, TopMoves

(* What a look-up yields.                                                   *)
LEMMA LookUp ==
    ASSUME Application, NEW t \in Thread
    PROVE  /\ Effective(t) \in Ids /\ (OfOneSpan(ctx[t]) => OfOneSpan(Effective(t)))
           /\ Carries(t, Effective(t))
<1>1. PICK s \in Span \cup {None} : Extract(t) = IdsOf(s)
  <2>1. CASE TRACE_SOURCE \in Compiled
    BY <2>1, EmissionAssumption DEF Extract, Application
  <2>2. CASE TRACE_SOURCE \notin Compiled
    BY <2>2 DEF Extract, IdsOf
  <2> QED  BY <2>1, <2>2
<1>2. \A r \in Span \cup {None} : IdsOf(r) \in Ids
  BY DEF IdsOf, NoIds, Ids, TraceId
<1>3. ctx[t] \in Ids  BY DEF Application
<1>4. Effective(t) \in Ids
  BY <1>1, <1>2, <1>3 DEF Effective, Merge, Or, Ids
<1>5. ASSUME NEW r \in Span \cup {None}, ctx[t] = IdsOf(r)
      PROVE  Effective(t) \in {IdsOf(r), IdsOf(s)}
  <2>1. CASE r = None
    BY <1>1, <1>5, <2>1 DEF Effective, Merge, Or, IdsOf, NoIds
  <2>2. CASE r # None
    <3>1. TraceOf[r] \in TraceId  BY <2>2 DEF TraceId
    <3>2. TraceOf[r] # None  BY <3>1, EmissionAssumption
    <3> QED  BY <1>5, <2>2, <3>2 DEF Effective, IdsOf
  <2> QED  BY <2>1, <2>2
<1>6. Carries(t, Effective(t))
  BY <1>1, <1>3 DEF Effective, Merge, Or, Carries, Ids
<1> QED  BY <1>1, <1>4, <1>5, <1>6 DEF OfOneSpan

-----------------------------------------------------------------------------
(* One lemma for each step of a call.                                       *)
LEMMA NewStep == ASSUME IInv, NEW t \in Thread, New(t) PROVE IInv'
<1> DEFINE f == [Top(t) EXCEPT !.pc = "check", !.ids = Effective(t)]
<1>0. ~ Idle(t) /\ Top(t).pc = "new"  BY DEF New, At
<1>1. /\ Application /\ Top(t) \in Frame /\ WellPlaced(Top(t)) /\ Going(t, Top(t))
      /\ Effective(t) \in Ids /\ (OfOneSpan(ctx[t]) => OfOneSpan(Effective(t)))
      /\ Carries(t, Effective(t))
  BY <1>0, TopGoes, LookUp
<1>2. f \in Frame  BY <1>1 DEF Frame, Pc
<1>3. /\ f.record = None /\ f.line = None /\ f.api = Top(t).api /\ f.ids = Effective(t)
      /\ f.pc = "check"
      /\ f.settled = Top(t).settled /\ f.call = Top(t).call
  BY <1>0, <1>1 DEF Frame, WellPlaced
<1>4. SetTop(t, f) /\ Quietly(t)  BY DEF New
<1> HIDE DEF f
<1>5. WellPlaced(f) /\ (Holds(f) <=> Holds(Top(t))) /\ Begun(f) = Begun(Top(t))
  BY <1>0, <1>3 DEF WellPlaced, Holds, Begun
<1>6. Going(t, f)
  BY <1>0, <1>1, <1>3 DEF Going, Whole, Together, Given, Carries, Settled
<1> QED  BY <1>0, <1>2, <1>3, <1>4, <1>5, <1>6, TopMovesQuietly

LEMMA SkipTextStep == ASSUME IInv, NEW t \in Thread, SkipText(t) PROVE IInv'
<1> DEFINE f == [Top(t) EXCEPT !.pc = "build"]
<1>0. ~ Idle(t) /\ Top(t).pc = "check" /\ TARGET = "StructuredSink"  BY DEF SkipText, At
<1>1. Top(t) \in Frame /\ WellPlaced(Top(t)) /\ Going(t, Top(t))
  BY <1>0, TopGoes
<1>2. f \in Frame  BY <1>1 DEF Frame, Pc
<1>3. /\ f.record = None /\ f.line = None /\ f.api = Top(t).api /\ f.ids = Top(t).ids
      /\ f.pc = "build"
      /\ f.settled = Top(t).settled /\ f.call = Top(t).call
  BY <1>0, <1>1 DEF Frame, WellPlaced
<1>4. SetTop(t, f) /\ Quietly(t)  BY DEF SkipText
<1> HIDE DEF f
<1>5. WellPlaced(f) /\ (Holds(f) <=> Holds(Top(t))) /\ Begun(f) = Begun(Top(t))
  BY <1>0, <1>3 DEF WellPlaced, Holds, Begun
<1>6. Going(t, f)
  BY <1>0, <1>1, <1>3 DEF Going, Whole, Together, Given, Carries, Settled, AsConfigured
<1> QED  BY <1>0, <1>2, <1>3, <1>4, <1>5, <1>6, TopMovesQuietly

LEMMA ReadFormatStep == ASSUME IInv, NEW t \in Thread, ReadFormat(t) PROVE IInv'
<1> DEFINE f == [Top(t) EXCEPT !.pc = "head", !.format = FORMAT]
<1>0. ~ Idle(t) /\ Top(t).pc = "format"  BY DEF ReadFormat, At
<1>1. Top(t) \in Frame /\ WellPlaced(Top(t)) /\ Going(t, Top(t)) /\ FORMAT \in Format
  BY <1>0, TopGoes DEF IInv, Globals
<1>2. f \in Frame  BY <1>1 DEF Frame, Pc
<1>3. /\ f.record = None /\ f.line = None /\ f.api = Top(t).api /\ f.ids = Top(t).ids
      /\ f.pc = "head"
      /\ f.settled = Top(t).settled /\ f.call = Top(t).call /\ f.format = FORMAT
  BY <1>0, <1>1 DEF Frame, WellPlaced
<1>4. SetTop(t, f) /\ Quietly(t)  BY DEF ReadFormat
<1> HIDE DEF f
<1>5. WellPlaced(f) /\ (Holds(f) <=> Holds(Top(t))) /\ Begun(f) = Begun(Top(t))
  BY <1>0, <1>1, <1>3 DEF WellPlaced, Holds, Begun
<1>6. Going(t, f)
  BY <1>0, <1>1, <1>3 DEF Going, Whole, Together, Given, Carries, Settled
<1> QED  BY <1>0, <1>2, <1>3, <1>4, <1>5, <1>6, TopMovesQuietly

LEMMA BuildStep == ASSUME IInv, NEW t \in Thread, Build(t) PROVE IInv'
<1> DEFINE f == [Top(t) EXCEPT !.pc = "values",
                               !.ids = IF Top(t).api = "emit" THEN Top(t).ids ELSE Effective(t)]
<1>0. ~ Idle(t) /\ Top(t).pc = "build"  BY DEF Build, At
<1>1. /\ Application /\ Top(t) \in Frame /\ WellPlaced(Top(t)) /\ Going(t, Top(t))
      /\ Effective(t) \in Ids /\ (OfOneSpan(ctx[t]) => OfOneSpan(Effective(t)))
      /\ Carries(t, Effective(t))
  BY <1>0, TopGoes, LookUp
<1>2. f \in Frame  BY <1>1 DEF Frame, Pc
<1>3. /\ f.record = None /\ f.api = Top(t).api /\ f.line = Top(t).line /\ f.pc = "values"
      /\ f.ids = IF Top(t).api = "emit" THEN Top(t).ids ELSE Effective(t)
      /\ f.settled = Top(t).settled /\ f.call = Top(t).call
  BY <1>0, <1>1 DEF Frame, WellPlaced
<1>4. SetTop(t, f) /\ Quietly(t)  BY DEF Build
<1> HIDE DEF f
<1>5. WellPlaced(f) /\ (Holds(f) <=> Holds(Top(t))) /\ Begun(f) = Begun(Top(t))
  BY <1>0, <1>3 DEF WellPlaced, Holds, Begun
<1>6. Going(t, f)
  BY <1>0, <1>1, <1>3 DEF Going, Whole, Together, Given, Carries, Settled, AsConfigured
<1> QED  BY <1>0, <1>2, <1>3, <1>4, <1>5, <1>6, TopMovesQuietly

LEMMA HeldBuffer ==
    ASSUME IInv, NEW t \in Thread, ~ Idle(t), Holds(Top(t))
    PROVE  HasBuffer(Top(t), buffer[t])
  BY TopGoes, OneHolder DEF ThreadInv, Top

LEMMA BorrowStep == ASSUME IInv, NEW t \in Thread, Borrow(t) PROVE IInv'
<1> DEFINE api == Top(t).api
           f == [Top(t) EXCEPT !.pc = IF api = "emit_direct" THEN "format" ELSE "text"]
           held == [borrowed |-> TRUE,
                    text |-> IF api = "emit_direct" THEN <<>> ELSE <<Top(t).call>>]
<1>0. /\ ~ Idle(t) /\ Top(t).pc = "check" /\ TARGET # "StructuredSink"
      /\ ~ buffer[t][api].borrowed
  BY DEF Borrow, At
<1>1. Stacks /\ Top(t) \in Frame /\ WellPlaced(Top(t)) /\ Going(t, Top(t))
  BY <1>0, TopGoes
<1>2. f \in Frame  BY <1>1 DEF Frame, Pc
<1>3. /\ f.record = None /\ f.api = api /\ f.line = None /\ f.ids = Top(t).ids /\ api \in Api
      /\ f.pc = (IF api = "emit_direct" THEN "format" ELSE "text")
      /\ f.settled = Top(t).settled /\ f.call = Top(t).call /\ f.call \in Call
  BY <1>0, <1>1 DEF Frame, WellPlaced
<1>4. /\ SetTop(t, f) /\ Forget(t) /\ UNCHANGED <<globals, application>>
      /\ buffer' = [buffer EXCEPT ![t][api] = held]
  BY DEF Borrow
<1>5. held \in [borrowed : BOOLEAN, text : Seq(Call)]
  BY <1>3
<1>6. /\ held.borrowed /\ held.text = Begun(f)
  BY <1>3 DEF Begun
<1>7. WellPlaced(f) /\ Holds(f)
  BY <1>0, <1>3 DEF WellPlaced, Holds, Api
<1>8. Going(t, f)
  BY <1>0, <1>1, <1>3 DEF Going, Whole, Together, Given, Carries, Settled, Api
<1> HIDE DEF f, held, api
<1> QED  BY <1>0, <1>2, <1>3, <1>4, <1>5, <1>6, <1>7, <1>8, TopMovesBuffer DEF api

LEMMA WriteHeadStep == ASSUME IInv, NEW t \in Thread, WriteHead(t) PROVE IInv'
<1> DEFINE f == [Top(t) EXCEPT !.pc = "text", !.ids = Effective(t)]
           api == "emit_direct"
           held == [buffer[t][api] EXCEPT !.text = Append(@, Top(t).call)]
<1>0. ~ Idle(t) /\ Top(t).pc = "head"  BY DEF WriteHead, At
<1>1. /\ Stacks /\ Application /\ Top(t) \in Frame /\ WellPlaced(Top(t)) /\ Going(t, Top(t))
      /\ Effective(t) \in Ids /\ (OfOneSpan(ctx[t]) => OfOneSpan(Effective(t)))
      /\ Carries(t, Effective(t))
  BY <1>0, TopGoes, LookUp
<1>2. f \in Frame  BY <1>1 DEF Frame, Pc
<1>3. /\ Top(t).api = api /\ f.api = api /\ api \in Api
      /\ f.record = None /\ f.line = None /\ f.ids = Effective(t)
      /\ f.pc = "text" /\ f.settled = Top(t).settled /\ f.call = Top(t).call /\ f.call \in Call
      /\ f.format = Top(t).format
  BY <1>0, <1>1 DEF Frame, WellPlaced, Api
<1>4. /\ SetTop(t, f) /\ Forget(t) /\ UNCHANGED <<globals, application>>
      /\ buffer' = [buffer EXCEPT ![t][api] = held]
  BY DEF WriteHead
<1>5. buffer[t][api].borrowed /\ buffer[t][api].text = <<>>
  BY <1>0, <1>3, HeldBuffer DEF Holds, HasBuffer, Begun
<1>6. buffer[t][api] \in [borrowed : BOOLEAN, text : Seq(Call)]
  BY <1>1, <1>3 DEF Stacks
<1>7. held = [borrowed |-> TRUE, text |-> <<f.call>>]
  <2>1. Append(<<>>, Top(t).call) = <<Top(t).call>>  OBVIOUS
  <2>2. buffer[t][api].borrowed = TRUE  BY <1>5, <1>6
  <2>3. held = [buffer[t][api] EXCEPT !.text = <<Top(t).call>>]  BY <1>5, <2>1
  <2>4. held = [borrowed |-> buffer[t][api].borrowed, text |-> <<Top(t).call>>]
    BY <1>6, <2>3
  <2> QED BY <1>3, <2>2, <2>4
<1> HIDE DEF f, held
<1>8. /\ held \in [borrowed : BOOLEAN, text : Seq(Call)]
      /\ held.borrowed /\ held.text = Begun(f)
  BY <1>3, <1>7 DEF Begun
<1>9. WellPlaced(f) /\ Holds(f)
  BY <1>3 DEF WellPlaced, Holds
<1>10. Going(t, f)
  BY <1>0, <1>1, <1>3 DEF Going, Whole, Together, Given, Carries, Settled
<1> HIDE DEF api
<1>11. Holds(Top(t))  BY <1>0 DEF Holds
<1> QED  BY <1>0, <1>2, <1>3, <1>4, <1>8, <1>9, <1>10, <1>11, TopMovesBuffer

LEMMA WriteStep == ASSUME IInv, NEW t \in Thread, Write(t) PROVE IInv'
<1> DEFINE api == Top(t).api
           text == [target |-> TARGET, format |-> Top(t).format, ids |-> Top(t).ids,
                    text |-> buffer[t][api].text]
           line == IF TARGET = "StructuredSink" THEN None ELSE text
           f == [Top(t) EXCEPT !.pc = "build", !.line = line]
           held == [buffer[t][api] EXCEPT !.borrowed = FALSE]
<1>0. ~ Idle(t) /\ Top(t).pc = "text"  BY DEF Write, At
<1>1. /\ Stacks /\ Top(t) \in Frame /\ WellPlaced(Top(t)) /\ Going(t, Top(t))
      /\ TARGET \in Target
  BY <1>0, TopGoes DEF IInv, Globals
<1>2. /\ api \in Api /\ Top(t).call \in Call /\ Top(t).ids \in Ids /\ Top(t).format \in Format
  BY <1>1 DEF Frame
<1>3. buffer[t][api].text = <<Top(t).call>>
  BY <1>0, HeldBuffer DEF Holds, HasBuffer, Begun
<1>4. text \in Line /\ text # None
  <2>1. text \in Line  BY <1>1, <1>2, <1>3 DEF Line
  <2> QED  BY <2>1, EmissionAssumption
<1>5. f \in Frame  BY <1>1, <1>4 DEF Frame, Pc
<1>6. /\ f.record = None /\ f.api = api /\ f.line = line /\ f.ids = Top(t).ids /\ f.pc = "build"
      /\ f.settled = Top(t).settled /\ f.call = Top(t).call
  BY <1>1 DEF Frame, WellPlaced
<1>7. /\ SetTop(t, f) /\ Forget(t) /\ UNCHANGED <<globals, application>>
      /\ buffer' = [buffer EXCEPT ![t][api] = held]
  BY DEF Write
<1>8. held \in [borrowed : BOOLEAN, text : Seq(Call)] /\ held.borrowed = FALSE
  <2>1. buffer[t][api] \in [borrowed : BOOLEAN, text : Seq(Call)]
    BY <1>1, <1>2 DEF Stacks
  <2> QED  BY <2>1
<1>9. WellPlaced(f) /\ ~ Holds(f)
  BY <1>6 DEF WellPlaced, Holds
<1>10. Going(t, f)
  BY <1>0, <1>1, <1>2, <1>3, <1>4, <1>6 DEF Going, Whole, Together, Given, Carries, Settled, AsConfigured, Api
<1> HIDE DEF f, held, api
<1>11. Holds(Top(t))  BY <1>0 DEF Holds
<1> QED  BY <1>0, <1>5, <1>6, <1>7, <1>8, <1>9, <1>10, <1>11, TopMovesBuffer DEF api

LEMMA BeginStep ==
    ASSUME IInv, NEW t \in Thread, NEW c \in Call, NEW api \in Api, Begin(t, c, api)
    PROVE  IInv'
<1> DEFINE s == frames[t]
           r == frames'[t]
           f == [call |-> c, api |-> api, pc |-> IF api = "emit" THEN "new" ELSE "check",
                 settled |-> initpc = "idle", format |-> "Display", ids |-> NoIds,
                 line |-> None, record |-> None]
<1>0. /\ Stacks /\ ThreadInv(t) /\ Len(s) < MaxDepth /\ (Idle(t) \/ InUserCode(t))
      /\ frames' = [frames EXCEPT ![t] = Append(@, f)] /\ Quietly(t)
  BY DEF IInv, Begin, Quietly
<1>1. f \in Frame  BY DEF Frame, Pc, Format, NoIds, Ids
<1>2. /\ f.pc \in {"new", "check"} /\ (f.pc = "new" <=> f.api = "emit") /\ f.record = None
      /\ f.line = None /\ f.ids = NoIds /\ (f.settled => initpc = "idle")
  OBVIOUS
<1> HIDE DEF f
<1>3. WellPlaced(f) /\ ~ Holds(f)  BY <1>2 DEF WellPlaced, Holds
<1>4. Going(t, f)
  <2>1. OfOneSpan(f.ids)  BY <1>2 DEF OfOneSpan, IdsOf
  <2> QED  BY <1>2, <2>1 DEF Going, Whole, Together, Given, Carries, Settled
<1>5. /\ frames' \in [Thread -> Seq(Frame)] /\ \A u \in Thread \ {t} : frames'[u] = frames[u]
      /\ Len(s) \in Nat /\ Len(r) = Len(s) + 1 /\ r[Len(s) + 1] = f
      /\ \A i \in Places(s) : r[i] = s[i]
  BY <1>0, <1>1, Pushed
<1>6. /\ done' \in [Thread -> Frame \cup {None}] /\ done'[t] = None /\ buffer' = buffer
      /\ \A u \in Thread \ {t} : done'[u] = done[u]
  BY <1>0 DEF Stacks, Quietly, Forget
<1>7. Same /\ SameContext(t) /\ UNCHANGED <<globals, application>>
  BY <1>0 DEF Same, SameContext, globals, application, Quietly
<1>8. Nested(r)
  <2>1. Len(s) \in Places(s) => s[Len(s)].pc \in {"text", "values"}
    <3>1. CASE Idle(t)
      <4>1. Len(s) = 0  BY <3>1, EmptySeq DEF Idle
      <4> QED  BY <4>1 DEF Places
    <3>2. CASE InUserCode(t)
      BY <3>2 DEF InUserCode, At, Top
    <3> QED  BY <1>0, <3>1, <3>2
  <2>2. Nested(s)  BY <1>0 DEF ThreadInv
  <2> HIDE DEF s, r
  <2> QED BY <1>3, <1>5, <2>1, <2>2, PushingNests
<1>9. Borrowing(r, buffer'[t])
  <2> DEFINE b == buffer[t]
  <2>1. Borrowing(s, b) /\ buffer'[t] = b  BY <1>0, <1>6 DEF ThreadInv
  <2> HIDE DEF s, r, b
  <2>2. Borrowing(r, b)  BY <1>3, <1>5, <2>1, PushingBorrows
  <2> QED  BY <2>1, <2>2
<1>10. (\A i \in Places(frames[t]) : Going(t, frames[t][i]))'
  <2>1. \A i \in Places(r) : r[i] = f \/ \E j \in Places(s) : r[i] = s[j]
    BY <1>5 DEF Places
  <2> QED  BY <1>0, <1>4, <1>7, <2>1, GoingKept DEF ThreadInv
<1>11. Stacks'
  <2>1. \A u \in Thread : Len(frames'[u]) <= MaxDepth
    BY <1>0, <1>5, EmissionAssumption DEF Stacks
  <2> QED  BY <1>0, <1>5, <1>6, <2>1 DEF Stacks
<1>12. ThreadInv(t)'
  BY <1>6, <1>8, <1>9, <1>10 DEF ThreadInv
<1> QED  BY <1>5, <1>6, <1>7, <1>11, <1>12, OneThreadMoves

(* The call is over: what it leaves behind.                                 *)
LEMMA ReturnStep ==
    ASSUME IInv, NEW t \in Thread, ~ Idle(t), ~ Holds(Top(t)), NEW f \in Frame, Return(t, f),
           Over(t, f)
    PROVE  IInv'
<1> DEFINE s == frames[t]
           r == frames'[t]
           b == buffer[t]
<1>0. /\ Stacks /\ ThreadInv(t) /\ UNCHANGED <<globals, application, buffer>>
      /\ frames' = [frames EXCEPT ![t] = SubSeq(@, 1, Len(@) - 1)]
      /\ Going(t, Top(t)) /\ Len(s) \in Nat \ {0}
  BY TopGoes DEF Return
<1>1. /\ frames' \in [Thread -> Seq(Frame)] /\ \A u \in Thread \ {t} : frames'[u] = frames[u]
      /\ Len(r) = Len(s) - 1 /\ \A i \in 1 .. Len(s) - 1 : r[i] = s[i]
  BY <1>0, Popped
<1>2. /\ done' \in [Thread -> Frame \cup {None}] /\ done'[t] = f
      /\ \A u \in Thread \ {t} : done'[u] = done[u]
  BY <1>0 DEF Stacks, Return
<1>3. Same /\ SameContext(t)
  BY <1>0 DEF Same, SameContext, globals, application
<1>4. Nested(r) /\ Borrowing(r, b)
  <2>1. Nested(s) /\ Borrowing(s, b) /\ ~ Holds(s[Len(s)])
    BY <1>0 DEF ThreadInv, Top
  <2> HIDE DEF s, r, b
  <2>2. Nested(r)  BY <1>0, <1>1, <2>1, PoppingNests
  <2>3. Borrowing(r, b)  BY <1>0, <1>1, <2>1, PoppingBorrows
  <2> QED  BY <2>2, <2>3
<1>5. (\A i \in Places(frames[t]) : Going(t, frames[t][i]))'
  <2>1. \A i \in Places(r) : r[i] = Top(t) \/ \E j \in Places(s) : r[i] = s[j]
    BY <1>0, <1>1 DEF Places
  <2> QED  BY <1>0, <1>3, <2>1, GoingKept DEF ThreadInv
<1>6. (done[t] # None => Over(t, done[t]))'
  BY <1>2, <1>3, OverKept
<1>7. Stacks'
  <2>1. \A u \in Thread : Len(frames'[u]) <= MaxDepth
    BY <1>0, <1>1, EmissionAssumption DEF Stacks
  <2> QED  BY <1>0, <1>1, <1>2, <2>1 DEF Stacks
<1>8. ThreadInv(t)'
  BY <1>0, <1>4, <1>5, <1>6 DEF ThreadInv
<1> QED  BY <1>0, <1>1, <1>2, <1>7, <1>8, OneThreadMoves

LEMMA ReturnsStep == ASSUME IInv, NEW t \in Thread, NoSink(t) \/ Deliver(t) PROVE IInv'
<1>0. ~ Idle(t) /\ Top(t).pc \in {"build", "values"}  BY DEF NoSink, Deliver, At
<1>1. Top(t) \in Frame /\ WellPlaced(Top(t)) /\ Going(t, Top(t))
  BY <1>0, TopGoes
<1>2. ~ Holds(Top(t))  BY <1>0 DEF Holds
<1>3. CASE NoSink(t)
  <2>1. Over(t, Top(t))
    BY <1>0, <1>1 DEF WellPlaced, Going, Over, Settled
  <2> QED  BY <1>0, <1>1, <1>2, <1>3, <2>1, ReturnStep DEF NoSink
<1>4. CASE Deliver(t)
  <2> DEFINE f == [Top(t) EXCEPT !.record = Top(t).ids]
  <2>1. f \in Frame  BY <1>1 DEF Frame
  <2>2. /\ Top(t).pc = "values" /\ f.api = Top(t).api /\ f.call = Top(t).call
        /\ f.ids = Top(t).ids /\ f.line = Top(t).line /\ f.settled = Top(t).settled
        /\ f.record = Top(t).ids /\ Top(t).api \in Api
    BY <1>1, <1>4 DEF Frame, Deliver, At
  <2>3. Return(t, f)  BY <1>4 DEF Deliver
  <2> HIDE DEF f
  <2>4. Over(t, f)
    BY <1>1, <2>2 DEF Going, Over, Whole, Together, Given, Carries, Settled, AsConfigured, Api
  <2> QED  BY <1>0, <1>2, <2>1, <2>3, <2>4, ReturnStep
<1> QED BY <1>3, <1>4

(* A panic in user code, or of a refused borrow.                            *)
LEMMA UnwindStep == ASSUME IInv, NEW t \in Thread, Unwind(t) PROVE IInv'
<1> DEFINE s == frames[t]
           b == buffer[t]
           d == [a \in Api |-> [borrowed |-> b[a].borrowed /\ Held(t, a) = {}, text |-> b[a].text]]
<1>0. /\ Stacks /\ ThreadInv(t) /\ UNCHANGED <<globals, application>>
      /\ frames' = [frames EXCEPT ![t] = <<>>] /\ Forget(t)
      /\ buffer' = [buffer EXCEPT ![t] = d]
  BY DEF IInv, Unwind
<1>1. /\ frames' \in [Thread -> Seq(Frame)] /\ \A u \in Thread \ {t} : frames'[u] = frames[u]
      /\ Len(frames'[t]) = 0
  BY <1>0, Emptied
<1>2. /\ done' \in [Thread -> Frame \cup {None}] /\ done'[t] = None
      /\ \A u \in Thread \ {t} : done'[u] = done[u]
  BY <1>0 DEF Stacks, Forget
<1>3. Places(frames'[t]) = {}  BY <1>1 DEF Places
<1>4. ASSUME NEW a \in Api
      PROVE  d[a] \in [borrowed : BOOLEAN, text : Seq(Call)] /\ ~ d[a].borrowed
  <2>1. b[a] \in [borrowed : BOOLEAN, text : Seq(Call)]  BY <1>0 DEF Stacks
  <2>2. b[a].borrowed => Held(t, a) # {}
    <3>1. DOMAIN s = Places(s)  BY <1>0, LenProperties DEF Stacks, Places
    <3> QED  BY <1>0, <3>1 DEF ThreadInv, Borrowing, Held
  <2> QED  BY <2>1, <2>2
<1> HIDE DEF d
<1>5. /\ buffer' \in [Thread -> [Api -> [borrowed : BOOLEAN, text : Seq(Call)]]]
      /\ \A u \in Thread \ {t} : buffer'[u] = buffer[u] /\ buffer'[t] = d
  <2>1. d \in [Api -> [borrowed : BOOLEAN, text : Seq(Call)]]  BY <1>4 DEF d
  <2> QED  BY <1>0, <2>1 DEF Stacks
<1>6. Nested(frames'[t]) /\ Borrowing(frames'[t], buffer'[t])
  BY <1>0, <1>3, <1>4 DEF Nested, Borrowing, Stacks
<1>7. Stacks'
  <2>1. \A u \in Thread : Len(frames'[u]) <= MaxDepth
    BY <1>0, <1>1, EmissionAssumption DEF Stacks
  <2> QED  BY <1>1, <1>2, <1>5, <2>1 DEF Stacks
<1>8. ThreadInv(t)'
  BY <1>2, <1>3, <1>6 DEF ThreadInv
<1> QED  BY <1>0, <1>1, <1>2, <1>5, <1>7, <1>8, OneThreadMoves

-----------------------------------------------------------------------------
(* The application moves between its calls.                                 *)
LEMMA BetweenCalls ==
    ASSUME IInv, NEW t \in Thread, Idle(t), Forget(t), UNCHANGED <<globals, frames, buffer>>,
           Application', \A u \in Thread \ {t} : SameContext(u)
    PROVE  IInv'
<1>0. Stacks /\ Globals /\ Initializing /\ \A u \in Thread : ThreadInv(u)  BY DEF IInv
<1>1. Globals' /\ Initializing' /\ Same
  BY <1>0 DEF Globals, Initializing, globals, Same
<1>2. /\ done' \in [Thread -> Frame \cup {None}] /\ done'[t] = None
      /\ \A u \in Thread \ {t} : done'[u] = done[u]
  BY <1>0 DEF Stacks, Forget
<1>3. Stacks'  BY <1>0, <1>2 DEF Stacks
<1>4. ThreadInv(t)'
  <2>1. Len(frames'[t]) = 0  BY EmptySeq DEF Idle
  <2>2. Places(frames'[t]) = {}  BY <2>1 DEF Places
  <2>3. Nested(frames'[t]) /\ Borrowing(frames'[t], buffer'[t])  BY <1>0 DEF ThreadInv
  <2> QED  BY <1>2, <2>2, <2>3 DEF ThreadInv
<1>5. ASSUME NEW u \in Thread \ {t} PROVE ThreadInv(u)'
  BY <1>0, <1>1, <1>2, OthersKept
<1> QED  BY <1>1, <1>3, <1>4, <1>5 DEF IInv

LEMMA SwitchSpanStep == ASSUME IInv, NEW t \in Thread, SwitchSpan(t) PROVE IInv'
<1>1. PICK source \in Compiled, s \in Span \cup {None} :
        current' = [current EXCEPT ![t][source] = s]
  BY DEF SwitchSpan
<1>2. source \in Source  BY EmissionAssumption
<1>3. Application /\ UNCHANGED <<ctx, dropped>>  BY DEF IInv, SwitchSpan
<1>4. Application' /\ \A u \in Thread \ {t} : SameContext(u)
  BY <1>1, <1>2, <1>3 DEF Application, SameContext
<1> QED  BY <1>4, BetweenCalls DEF SwitchSpan

LEMMA SetContextStep ==
    ASSUME IInv, NEW t \in Thread, NEW context \in Ids, NEW cleared \in Span \cup {None},
           SetContext(t, context, cleared)
    PROVE  IInv'
<1>1. Application /\ UNCHANGED current  BY DEF IInv, SetContext
<1>2. Application' /\ \A u \in Thread \ {t} : SameContext(u)
  BY <1>1 DEF Application, SameContext, SetContext
<1> QED  BY <1>2, BetweenCalls DEF SetContext

LEMMA ApplicationStepKeeps == ASSUME IInv, NEW t \in Thread, ApplicationStep(t) PROVE IInv'
<1>0. Application /\ ctx[t] \in Ids /\ Extract(t) \in Ids
  <2>1. Application  BY DEF IInv
  <2>2. CASE TRACE_SOURCE \in Compiled
    BY <2>1, <2>2, EmissionAssumption DEF Application, Extract, IdsOf, NoIds, Ids, TraceId
  <2>3. CASE TRACE_SOURCE \notin Compiled
    BY <2>1, <2>3 DEF Application, Extract, NoIds, Ids
  <2> QED  BY <2>1, <2>2, <2>3 DEF Application
<1>1. NoIds \in Ids /\ \A s \in Span : IdsOf(s) \in Ids
  BY DEF NoIds, IdsOf, Ids, TraceId
<1>2. \A a, b \in Ids : Merge(a, b) \in Ids  BY DEF Merge, Or, Ids
<1>3. \A a \in Ids : a.span \in Span \cup {None} /\ [a EXCEPT !.span = None] \in Ids
  BY DEF Ids
<1>4. CASE SwitchSpan(t)  BY <1>4, SwitchSpanStep
<1>5. CASE NewContext(t)  BY <1>1, <1>5, SetContextStep DEF NewContext
<1>6. CASE WithTraceContext(t)
  BY <1>0, <1>2, <1>6, SetContextStep DEF WithTraceContext
<1>7. CASE WithTraceId(t)
  <2>1. PICK id \in Upstream : SetContext(t, [ctx[t] EXCEPT !.trace = id], None)
    BY <1>7 DEF WithTraceId
  <2>2. [ctx[t] EXCEPT !.trace = id] \in Ids  BY <1>0 DEF Ids, TraceId
  <2> QED  BY <2>1, <2>2, SetContextStep
<1>8. CASE WithFreshSpan(t)
  BY <1>0, <1>3, <1>8, SetContextStep DEF WithFreshSpan
<1>9. CASE MergeContext(t)
  <2>1. PICK s \in Span, fresh \in BOOLEAN :
          SetContext(t, Merge(ctx[t], [IdsOf(s) EXCEPT !.span = IF fresh THEN None ELSE s]), None)
    BY <1>9 DEF MergeContext
  <2>2. [IdsOf(s) EXCEPT !.span = IF fresh THEN None ELSE s] \in Ids
    BY <1>1 DEF Ids
  <2>3. Merge(ctx[t], [IdsOf(s) EXCEPT !.span = IF fresh THEN None ELSE s]) \in Ids
    BY <1>0, <1>2, <2>2
  <2> QED  BY <2>1, <2>3, SetContextStep
<1> QED  BY <1>4, <1>5, <1>6, <1>7, <1>8, <1>9 DEF ApplicationStep

-----------------------------------------------------------------------------
(* A call of init: calls in progress are no longer settled.                 *)
LEMMA InitTargetStep == ASSUME IInv, InitTarget PROVE IInv'
<1>0. Stacks /\ Application /\ Globals /\ \A t \in Thread : ThreadInv(t)  BY DEF IInv
<1>1. /\ Globals' /\ Initializing' /\ Application'
      /\ UNCHANGED <<ctx, current, dropped, buffer>>
  <2>1. PICK config \in Config : TARGET' = config.target /\ initarg' = config
    BY DEF InitTarget
  <2>2. config.target \in Target  BY EmissionAssumption
  <2> QED
    BY <1>0, <2>1, <2>2 DEF InitTarget, Globals, Initializing, Application, application
<1>2. /\ done' = [t \in Thread |-> None]
      /\ frames' = [t \in Thread |->
                      [i \in DOMAIN frames[t] |-> [frames[t][i] EXCEPT !.settled = FALSE]]]
  BY DEF InitTarget
<1>3. ASSUME NEW t \in Thread
      PROVE  /\ frames'[t] \in Seq(Frame) /\ Len(frames'[t]) = Len(frames[t])
             /\ \A i \in Places(frames[t]) :
                    /\ frames[t][i] \in Frame
                    /\ frames'[t][i] = [frames[t][i] EXCEPT !.settled = FALSE]
  <2> DEFINE s == frames[t]
             r == [i \in DOMAIN s |-> [s[i] EXCEPT !.settled = FALSE]]
  <2>1. s \in Seq(Frame)  BY <1>0 DEF Stacks
  <2>2. r = frames'[t]  BY <1>2
  <2> HIDE DEF s
  <2>3. Len(s) \in Nat /\ DOMAIN s = 1 .. Len(s)  BY <2>1, LenProperties
  <2>4. \A i \in 1 .. Len(s) : s[i] \in Frame  BY <2>1, ElementOfSeq
  <2>5. \A i \in 1 .. Len(s) : r[i] \in Frame  BY <2>3, <2>4 DEF Frame
  <2>6. r \in [1 .. Len(s) -> Frame]  BY <2>3, <2>5
  <2>7. \A i \in 1 .. Len(s) : r[i] = [s[i] EXCEPT !.settled = FALSE]  BY <2>3
  <2> HIDE DEF r
  <2>8. r \in Seq(Frame)  BY <2>3, <2>6, SeqDef
  <2>9. Len(r) = Len(s)
    <3>1. Len(r) \in Nat /\ DOMAIN r = 1 .. Len(r)  BY <2>8, LenProperties
    <3>2. 1 .. Len(r) = 1 .. Len(s)  BY <2>6, <3>1
    <3>3. ASSUME NEW m \in Nat, NEW n \in Nat, 1 .. m = 1 .. n PROVE m = n
      <4>1. (m = 0 \/ m \in 1 .. n) /\ (n = 0 \/ n \in 1 .. m)  BY <3>3
      <4> QED  BY <4>1
    <3> QED  BY <2>3, <3>1, <3>2, <3>3
  <2> QED  BY <2>2, <2>4, <2>7, <2>8, <2>9 DEF Places, s
<1>4. Stacks'
  BY <1>0, <1>1, <1>2, <1>3 DEF Stacks
<1>5. ASSUME NEW t \in Thread PROVE ThreadInv(t)'
  <2> DEFINE s == frames[t]
             r == frames'[t]
             b == buffer[t]
  <2>1. Places(r) = Places(s)  BY <1>3 DEF Places
  <2>2. \A i \in Places(s) :
          /\ r[i].pc = s[i].pc /\ r[i].api = s[i].api /\ r[i].call = s[i].call
          /\ r[i].ids = s[i].ids /\ r[i].line = s[i].line /\ r[i].record = s[i].record
          /\ ~ r[i].settled
    <3>1. ASSUME NEW f \in Frame, NEW g, g = [f EXCEPT !.settled = FALSE]
          PROVE  /\ g.pc = f.pc /\ g.api = f.api /\ g.call = f.call /\ g.ids = f.ids
                 /\ g.line = f.line /\ g.record = f.record /\ ~ g.settled
      BY <3>1 DEF Frame
    <3> QED BY <1>3, <3>1, ZenonT(40)
  <2>3. Len(r) = Len(s) /\ Nested(s) /\ Borrowing(s, b)  BY <1>0, <1>3 DEF ThreadInv
  <2>4. \A i \in Places(r) : Whole(r[i])
    BY <1>0, <2>1, <2>2 DEF ThreadInv, Going, Whole
  <2>5. (\A i \in Places(frames[t]) : Going(t, frames[t][i]))'
    BY <1>0, <1>1, <2>1, <2>2, <2>4 DEF ThreadInv, Going, Whole, Together, Given, Carries, OfOneSpan
  <2> HIDE DEF s, r, b
  <2>6. Nested(r)  BY <2>1, <2>2, <2>3 DEF Nested, WellPlaced
  <2>7. Borrowing(r, b)  BY <2>1, <2>2, <2>3 DEF Borrowing, Holds, HasBuffer, Begun
  <2>8. done'[t] = None  BY <1>2
  <2> QED  BY <1>1, <2>5, <2>6, <2>7, <2>8 DEF ThreadInv, r, b
<1> QED  BY <1>1, <1>4, <1>5 DEF IInv

LEMMA InitGoesOn == ASSUME IInv, InitFormat \/ InitSource PROVE IInv'
<1>0. /\ Stacks /\ Application /\ Globals /\ Initializing /\ \A t \in Thread : ThreadInv(t)
      /\ initpc # "idle" /\ initarg \in Config
      /\ UNCHANGED <<ctx, current, dropped, frames, buffer, done>>
  BY DEF IInv, InitFormat, InitSource, application, Globals
<1>1. initarg.target \in Target /\ initarg.format \in Format /\ initarg.trace_source \in Source
  BY <1>0, EmissionAssumption
<1>2. Stacks' /\ Application'  BY <1>0 DEF Stacks, Application
<1>3. Globals' /\ Initializing'
  BY <1>0, <1>1 DEF Globals, Initializing, InitFormat, InitSource
<1>4. ASSUME NEW t \in Thread PROVE ThreadInv(t)'
  <2>1. Nested(frames'[t]) /\ Borrowing(frames'[t], buffer'[t])  BY <1>0 DEF ThreadInv
  <2>2. (\A i \in Places(frames[t]) : Going(t, frames[t][i]))'
    BY <1>0 DEF ThreadInv, Going, Settled, Whole, Together, Given, Carries, OfOneSpan
  <2>3. (done[t] # None => Over(t, done[t]))'
    BY <1>0 DEF ThreadInv, Over, Whole, Together, Given, Carries, OfOneSpan
  <2> QED  BY <2>1, <2>2, <2>3 DEF ThreadInv
<1> QED  BY <1>2, <1>3, <1>4 DEF IInv

-----------------------------------------------------------------------------
LEMMA Initially == Init => IInv
<1> SUFFICES ASSUME Init PROVE IInv
  OBVIOUS
<1>1. Globals /\ Initializing
  BY DEF Init, Globals, Initializing, DefaultConfig, Target, Format, Source
<1>2. Application  BY DEF Init, Application, NoIds, Ids
<1>3. Stacks  BY EmptySeq, EmissionAssumption DEF Init, Stacks
<1>4. ASSUME NEW t \in Thread PROVE ThreadInv(t)
  <2>1. Len(frames[t]) = 0  BY EmptySeq DEF Init
  <2>2. Places(frames[t]) = {} /\ done[t] = None /\ \A a \in Api : ~ buffer[t][a].borrowed
    BY <2>1 DEF Init, Places
  <2> QED  BY <2>2 DEF ThreadInv, Nested, Borrowing
<1> QED  BY <1>1, <1>2, <1>3, <1>4 DEF IInv

LEMMA StepKeeps == IInv /\ [Next]_vars => IInv'
<1> SUFFICES ASSUME IInv, [Next]_vars PROVE IInv'
  OBVIOUS
<1>1. CASE InitTarget \/ InitFormat \/ InitSource  BY <1>1, InitTargetStep, InitGoesOn
<1>2. ASSUME NEW t \in Thread, ApplicationStep(t) PROVE IInv'  BY <1>2, ApplicationStepKeeps
<1>3. ASSUME NEW t \in Thread, CallStep(t) PROVE IInv'
  <2>1. CASE \E c \in Call, api \in Api : Begin(t, c, api)  BY <2>1, BeginStep
  <2>2. CASE New(t) \/ SkipText(t) \/ ReadFormat(t) \/ Build(t)
    BY <2>2, NewStep, SkipTextStep, ReadFormatStep, BuildStep
  <2>3. CASE Borrow(t) \/ WriteHead(t) \/ Write(t)
    BY <2>3, BorrowStep, WriteHeadStep, WriteStep
  <2>4. CASE BorrowFails(t) \/ UserPanics(t)
    BY <2>4, UnwindStep DEF BorrowFails, UserPanics
  <2>5. CASE NoSink(t) \/ Deliver(t)  BY <2>5, ReturnsStep
  <2> QED BY <1>3, <2>1, <2>2, <2>3, <2>4, <2>5 DEF CallStep
<1>4. CASE UNCHANGED vars
  <2>1. Globals' /\ Application' /\ Stacks' /\ Initializing'
    BY <1>4 DEF IInv, Globals, Application, Stacks, Initializing, vars, globals, application
  <2>2. ASSUME NEW t \in Thread PROVE ThreadInv(t)'
    <3>1. /\ Same /\ SameContext(t) /\ frames'[t] = frames[t] /\ buffer'[t] = buffer[t]
          /\ done'[t] = done[t]
      BY <1>4 DEF Same, SameContext, vars, globals, application
    <3> QED  BY <3>1, OthersKept DEF IInv
  <2> QED  BY <2>1, <2>2 DEF IInv
<1> QED  BY <1>1, <1>2, <1>3, <1>4 DEF Next

LEMMA Invariance == Spec => []IInv
  BY Initially, StepKeeps, PTL DEF Spec

-----------------------------------------------------------------------------
(* A thread's buffer is borrowed exactly while one of its calls formats     *)
(* text into it (emit, emit_direct: FMT_BUF), whatever user code does inside *)
(* the call, and all variables keep their types.                            *)
THEOREM BuffersAlwaysGivenBack == Spec => []BorrowsMatchFrames
<1>1. IInv => BorrowsMatchFrames
  <2> SUFFICES ASSUME IInv PROVE BorrowsMatchFrames
    OBVIOUS
  <2>0. /\ Globals /\ Application /\ Stacks /\ \A t \in Thread : ThreadInv(t)
        /\ \A t \in Thread : /\ DOMAIN frames[t] = Places(frames[t])
                             /\ \A i \in Places(frames[t]) : frames[t][i] \in Frame
    <3>1. \A t \in Thread : frames[t] \in Seq(Frame)  BY DEF IInv, Stacks
    <3> QED  BY <3>1, LenProperties, ElementOfSeq DEF IInv, Places
  <2>1. TypeOK
    <3>1. \A t \in Thread, a \in Api : buffer[t][a].borrowed \in BOOLEAN
      <4>1. \A t \in Thread, a \in Api : buffer[t][a] \in [borrowed : BOOLEAN, text : Seq(Call)]
        BY <2>0 DEF Stacks
      <4> QED  BY <4>1
    <3> QED  BY <2>0, <3>1 DEF TypeOK, Globals, Application, Stacks
  <2>2. ASSUME NEW t \in Thread, NEW a \in Api
        PROVE  Cardinality(Held(t, a)) = IF buffer[t][a].borrowed THEN 1 ELSE 0
    <3>1. Borrowing(frames[t], buffer[t])  BY <2>0 DEF ThreadInv
    <3>2. CASE buffer[t][a].borrowed
      <4>1. PICK i \in Places(frames[t]) : Holds(frames[t][i]) /\ frames[t][i].api = a
        BY <3>1, <3>2 DEF Borrowing
      <4>2. Held(t, a) = {i}  BY <2>0, <3>1, <4>1 DEF Borrowing, Held
      <4> QED  BY <3>2, <4>2, FS_Singleton
    <3>3. CASE ~ buffer[t][a].borrowed
      <4>1. Held(t, a) = {}  BY <2>0, <3>1, <3>3 DEF Borrowing, Held, HasBuffer
      <4> QED  BY <3>3, <4>1, FS_EmptySet
    <3> QED  BY <3>2, <3>3
  <2> QED  BY <2>1, <2>2 DEF BorrowsMatchFrames
<1> QED  BY <1>1, Invariance, PTL

(* What the invariant says of the calls a property looks at.                *)
LEMMA CallsAreSound ==
    ASSUME IInv, NEW t \in Thread, NEW f \in Calls(t)
    PROVE  Whole(f) /\ Together(t, f) /\ (f.record # None => f.record = f.ids)
<1>0. /\ ThreadInv(t) /\ DOMAIN frames[t] = Places(frames[t])
  <2>1. frames[t] \in Seq(Frame)  BY DEF IInv, Stacks
  <2> QED  BY <2>1, LenProperties DEF IInv, Places
<1>1. CASE f = done[t] /\ done[t] # None  BY <1>0, <1>1 DEF ThreadInv, Over
<1>2. CASE \E i \in Places(frames[t]) : f = frames[t][i]
  BY <1>0, <1>2 DEF ThreadInv, Going, Nested, WellPlaced
<1> QED  BY <1>0, <1>1, <1>2 DEF Calls

(* A line is the text of its own call, whole and alone, however calls nest  *)
(* in user code and wherever one of them panics (emit, emit_direct).        *)
THEOREM LinesAlwaysWhole == Spec => []LinesAreWhole
<1>1. IInv => LinesAreWhole  BY CallsAreSound DEF LinesAreWhole, Whole
<1> QED  BY <1>1, Invariance, PTL

(* A call that no init overlaps obeys the last one (writer.rs: three        *)
(* atomics, read one at a time).                                            *)
THEOREM ConfigAlwaysRespected == Spec => []ConfigRespected
<1>1. IInv => ConfigRespected
  BY DEF IInv, Initializing, ThreadInv, Over, AsConfigured, ConfigRespected
<1> QED  BY <1>1, Invariance, PTL

(* A context of one span gives a line and a record of one span, although    *)
(* the trace source may change between the look-ups (trace.rs, schema.rs).  *)
THEOREM IdsAlwaysTogether == Spec => []IdsStayTogether
<1>1. IInv => IdsStayTogether  BY CallsAreSound DEF IdsStayTogether, Together, Given, Carries
<1> QED  BY <1>1, Invariance, PTL

(* The line and the record of a call name the same trace and span, and both *)
(* those the context brings along; emit_direct, whose from_direct looks the *)
(* identifiers up a second time, may take them from different tracers, but  *)
(* only in a call that an init overlaps.                                    *)
THEOREM TextAndRecordAlwaysAgree == Spec => []TextAndRecordAgree
<1>1. IInv => TextAndRecordAgree
  BY DEF IInv, ThreadInv, Over, Together, Given, Carries, TextAndRecordAgree
<1> QED  BY <1>1, Invariance, PTL

(* Whatever identifiers a record has, well-formed or not, the OTLP record   *)
(* keeps each of them in one place, and no span without its trace           *)
(* (mapper.rs).                                                             *)
THEOREM NoIdEverLost == Spec => []NoIdLost
<1>1. NoIdLost  BY DEF NoIdLost, Mapped, decode_hex_id
<1> QED  BY <1>1, PTL
=============================================================================
