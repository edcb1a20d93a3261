----------------------------- MODULE LanesProofs -----------------------------
(***************************************************************************)
(* Theorems about the producer lanes, for any finite sets of threads and   *)
(* records and any quantum: no record is lost, repeated or reordered on    *)
(* its way to the inbox, no thread starves another, no lane is forgotten,  *)
(* the pointers to lanes stay valid and the metric counts the lanes.       *)
(***************************************************************************)
EXTENDS Lanes, SequenceFacts, SequenceTheorems, FiniteSetTheorems

Distinct(s) == \A i, j \in DOMAIN s : s[i] = s[j] => i = j
Counting == {t \in Thread : tpc[t] = "count"}

(* A thread's lane is registered from its first submission until it is      *)
(* retired, closed and empty, or all lanes are cleared.                     *)
LanesRegistered ==
    /\ Distinct(registry)
    /\ wpc = "cleared" => registry = <<>> /\ ProducersClosed
    /\ \A t \in Thread :
          /\ tpc[t] = "new" => t \notin ToSet(registry) /\ pushed[t] = EmptyLane
          /\ closed[t] <=> tpc[t] \in {"exit_wake", "gone"}
          /\ wpc # "cleared" /\ tpc[t] \in {"ready"} \cup InCallback => t \in ToSet(registry)
          /\ t \notin ToSet(registry) => queues[t] = EmptyLane

(* A drain takes registered lanes, each once, and what it took of a lane    *)
(* are that thread's records.                                               *)
DrainsEachOnce ==
    /\ wpc # "take" => ordered = <<>> /\ taken = <<>>
    /\ Distinct(ordered) /\ ToSet(ordered) \subseteq ToSet(registry)
    /\ Len(taken) <= Len(ordered)
Owned(lane, t) == \A q \in Queue : \A k \in DOMAIN lane[q] : By[lane[q][k]] = t
RecordsOwned ==
    /\ \A t \in Thread : Owned(queues[t], t)
    /\ \A i \in DOMAIN taken : Owned(taken[i], ordered[i])
PushedOnce == \A t \in Thread, q \in Queue : Distinct(pushed[t][q])

(* Whoever pushed into a lane that was empty has woken the worker, or will; *)
(* or the worker has not come to the lane yet.                              *)
ToTake == {ordered[i] : i \in Len(taken) + 1 .. Len(ordered)}
WakesAreDue ==
    \A t \in ToSet(registry) : ~IsEmpty(queues[t]) =>
        \/ permit \/ \E u \in Thread : tpc[u] = "wake"
        \/ wpc = "busy"
        \/ wpc = "take" /\ t \in ToTake

IInv == LaneGaugeExact /\ LanesRegistered /\ DrainsEachOnce /\ RecordsOwned /\ PushedOnce
        /\ LanesKeepOrder /\ WakesAreDue
-----------------------------------------------------------------------------
(* Sequences.                                                               *)

Chosen(s, S) == [i \in DOMAIN s |-> IF s[i] \in S THEN <<s[i]>> ELSE <<>>]

(* The parts that Only joins, by recursion on the end of a sequence.        *)
LEMMA ChosenAppend ==
  ASSUME NEW E, NEW S, NEW s \in Seq(E), NEW x \in E
  PROVE  /\ Chosen(s, S) \in Seq(Seq(E))
         /\ Chosen(Append(s, x), S) = Append(Chosen(s, S), IF x \in S THEN <<x>> ELSE <<>>)
<1> DEFINE u == Append(s, x)
           c == Chosen(s, S)
           d == Chosen(u, S)
           y == IF x \in S THEN <<x>> ELSE <<>>
<1>1. ASSUME NEW v \in Seq(E) PROVE Chosen(v, S) \in Seq(Seq(E)) /\ Len(Chosen(v, S)) = Len(v)
  <2>1. \A i \in DOMAIN v : v[i] \in E
    OBVIOUS
  <2>2. \A i \in DOMAIN v : (IF v[i] \in S THEN <<v[i]>> ELSE <<>>) \in Seq(E)
    BY <2>1
  <2>3. Chosen(v, S) \in [1 .. Len(v) -> Seq(E)] /\ Len(v) \in Nat
    BY <2>2 DEF Chosen
  <2> QED BY <2>3
<1>2. /\ Len(s) \in Nat /\ DOMAIN s = 1 .. Len(s) /\ DOMAIN u = 1 .. Len(s) + 1
      /\ u \in Seq(E) /\ Len(u) = Len(s) + 1
      /\ u[Len(s) + 1] = x /\ \A i \in 1 .. Len(s) : u[i] = s[i]
  OBVIOUS
<1> HIDE DEF u
<1>3. \A i \in 1 .. Len(s) : c[i] = IF s[i] \in S THEN <<s[i]>> ELSE <<>>
  BY <1>2 DEF Chosen
<1>4. \A i \in 1 .. Len(s) + 1 : d[i] = IF u[i] \in S THEN <<u[i]>> ELSE <<>>
  BY <1>2 DEF Chosen
<1>5. c \in Seq(Seq(E)) /\ Len(c) = Len(s)
  BY <1>1
<1>6. d \in Seq(Seq(E)) /\ Len(d) = Len(s) + 1
  BY <1>1, <1>2
<1>7. y \in Seq(E)
  OBVIOUS
<1>8. d[Len(s) + 1] = y /\ \A i \in 1 .. Len(s) : d[i] = c[i]
  <2> HIDE DEF c, d
  <2>1. Len(s) + 1 \in 1 .. Len(s) + 1 /\ 1 .. Len(s) \subseteq 1 .. Len(s) + 1
    BY <1>2
  <2>2. d[Len(s) + 1] = y
    BY <1>2, <1>4, <2>1
  <2>3. \A i \in 1 .. Len(s) : d[i] = c[i]
    BY <1>2, <1>3, <1>4, <2>1
  <2> QED BY <2>2, <2>3
<1> HIDE DEF c, d, y
<1>9. d = Append(c, y)
  BY <1>2, <1>5, <1>6, <1>7, <1>8
<1> QED BY <1>5, <1>9 DEF u, c, d, y

(* Nothing is left of nothing.                                              *)
LEMMA OnlyEmpty ==
  ASSUME NEW S
  PROVE  Only(<<>>, S) = <<>>
<1>1. Chosen(<<>>, S) = <<>>
  BY DEF Chosen
<1>2. FlattenSeq(<<>>) = <<>>
  BY FlattenAppend
<1> QED BY <1>1, <1>2 DEF Only, Chosen

(* What is left is of the same elements.                                    *)
LEMMA OnlyType ==
  ASSUME NEW E, NEW S, NEW s \in Seq(E)
  PROVE  Only(s, S) \in Seq(E)
<1>1. Only(s, S) = FlattenSeq(Chosen(s, S))
  BY DEF Only, Chosen
<1>2. ASSUME NEW x \in E PROVE Chosen(s, S) \in Seq(Seq(E))
  BY ChosenAppend
<1>3. CASE E = {}
  <2>1. s = <<>> /\ <<>> \in Seq(E)
    BY <1>3
  <2> QED BY <2>1, OnlyEmpty
<1>4. CASE E # {}
  <2>1. <<>> \in Seq(E)
    OBVIOUS
  <2> QED BY <1>1, <1>2, <1>4, <2>1, FlattenAppend
<1> QED BY <1>3, <1>4

(* Only by recursion on the end of a sequence.                              *)
LEMMA OnlyAppend ==
  ASSUME NEW E, NEW S, NEW s \in Seq(E), NEW x \in E
  PROVE  Only(Append(s, x), S) = IF x \in S THEN Append(Only(s, S), x) ELSE Only(s, S)
<1> DEFINE y == IF x \in S THEN <<x>> ELSE <<>>
           c == Chosen(s, S)
           o == Only(s, S)
<1>1. y \in Seq(E)
  OBVIOUS
<1>2. c \in Seq(Seq(E)) /\ Chosen(Append(s, x), S) = Append(c, y)
  BY ChosenAppend
<1>3. o = FlattenSeq(c) /\ Only(Append(s, x), S) = FlattenSeq(Chosen(Append(s, x), S))
  BY DEF Only, Chosen
<1>4. o \in Seq(E)
  BY OnlyType
<1> HIDE DEF y, c, o
<1>5. FlattenSeq(Append(c, y)) = FlattenSeq(c) \o y
  BY <1>1, <1>2, FlattenAppend
<1>6. Only(Append(s, x), S) = o \o y
  BY <1>2, <1>3, <1>5
<1>7. o \o <<x>> = Append(o, x) /\ o \o <<>> = o
  BY <1>4
<1> QED BY <1>6, <1>7 DEF y, o

(* Only distributes over concatenation.                                     *)
LEMMA OnlyConcat ==
  ASSUME NEW E, NEW S, NEW a \in Seq(E), NEW b \in Seq(E)
  PROVE  Only(a \o b, S) = Only(a, S) \o Only(b, S)
<1> DEFINE T == {s \in Seq(E) : Only(a \o s, S) = Only(a, S) \o Only(s, S)}
<1>0. Only(<<>>, S) = <<>> /\ \A s \in Seq(E) : Only(s, S) \in Seq(E)
  BY OnlyEmpty, OnlyType
<1>1. <<>> \in T
  <2> DEFINE o == Only(a, S)
  <2>1. o \in Seq(E)
    BY <1>0
  <2> HIDE DEF o
  <2>2. o \o <<>> = o /\ a \o <<>> = a /\ <<>> \in Seq(E)
    BY <2>1
  <2> QED BY <1>0, <2>2 DEF o
<1>2. ASSUME NEW s \in Seq(E), NEW x \in E, s \in T PROVE Append(s, x) \in T
  <2> DEFINE o == Only(a, S)
             p == Only(s, S)
             y == IF x \in S THEN <<x>> ELSE <<>>
  <2>1. a \o Append(s, x) = Append(a \o s, x) /\ a \o s \in Seq(E) /\ Append(s, x) \in Seq(E)
    OBVIOUS
  <2>2. o \in Seq(E) /\ p \in Seq(E) /\ Only(a \o s, S) = o \o p
    BY <1>0, <1>2
  <2>3. Only(a \o Append(s, x), S) = IF x \in S THEN Append(o \o p, x) ELSE o \o p
    <3> DEFINE e == a \o s
    <3>1. e \in Seq(E)
      BY <2>1
    <3> HIDE DEF e
    <3>2. Only(Append(e, x), S) = IF x \in S THEN Append(Only(e, S), x) ELSE Only(e, S)
      BY <3>1, OnlyAppend
    <3> HIDE DEF o, p
    <3> QED BY <2>1, <2>2, <3>2 DEF e
  <2>4. Only(Append(s, x), S) = IF x \in S THEN Append(p, x) ELSE p
    BY OnlyAppend
  <2> HIDE DEF o, p
  <2>5. o \o Append(p, x) = Append(o \o p, x)
    BY <2>2
  <2> QED BY <2>1, <2>3, <2>4, <2>5 DEF o
<1>3. Seq(E) \subseteq T
  <2> HIDE DEF T
  <2> QED BY <1>1, <1>2, SequenceInduction
<1> QED BY <1>3

(* Only keeps a sequence of members, and nothing of one without any.        *)
LEMMA OnlyAllOrNone ==
  ASSUME NEW E, NEW S, NEW s \in Seq(E)
  PROVE  /\ (\A i \in DOMAIN s : s[i] \in S) => Only(s, S) = s
         /\ (\A i \in DOMAIN s : s[i] \notin S) => Only(s, S) = <<>>
<1> DEFINE All(u) == (\A i \in DOMAIN u : u[i] \in S) => Only(u, S) = u
           Nothing(u) == (\A i \in DOMAIN u : u[i] \notin S) => Only(u, S) = <<>>
           T == {u \in Seq(E) : All(u) /\ Nothing(u)}
<1>1. <<>> \in T
  <2>1. <<>> \in Seq(E) /\ Only(<<>>, S) = <<>>
    BY OnlyEmpty
  <2> QED BY <2>1
<1>2. ASSUME NEW u \in Seq(E), NEW x \in E, u \in T PROVE Append(u, x) \in T
  <2> DEFINE v == Append(u, x)
  <2>1. /\ v \in Seq(E) /\ DOMAIN v = 1 .. Len(u) + 1 /\ v[Len(u) + 1] = x
        /\ \A i \in DOMAIN u : i \in DOMAIN v /\ v[i] = u[i]
        /\ Len(u) + 1 \in DOMAIN v
    OBVIOUS
  <2>2. Only(v, S) = IF x \in S THEN Append(Only(u, S), x) ELSE Only(u, S)
    BY OnlyAppend
  <2> HIDE DEF v
  <2>3. All(v)
    <3> SUFFICES ASSUME \A i \in DOMAIN v : v[i] \in S PROVE Only(v, S) = v
      OBVIOUS
    <3>1. x \in S /\ \A i \in DOMAIN u : u[i] \in S
      BY <2>1
    <3>2. Only(u, S) = u
      BY <1>2, <3>1
    <3> QED BY <2>2, <3>1, <3>2 DEF v
  <2>4. Nothing(v)
    <3> SUFFICES ASSUME \A i \in DOMAIN v : v[i] \notin S PROVE Only(v, S) = <<>>
      OBVIOUS
    <3>1. x \notin S /\ \A i \in DOMAIN u : u[i] \notin S
      BY <2>1
    <3>2. Only(u, S) = <<>>
      BY <1>2, <3>1
    <3> QED BY <2>2, <3>1, <3>2
  <2> QED BY <2>1, <2>3, <2>4 DEF v
<1>3. Seq(E) \subseteq T
  <2> HIDE DEF T
  <2> QED BY <1>1, <1>2, SequenceInduction
<1> QED BY <1>3

(* Only of a sequence without repetition has none, and loses no member.     *)
LEMMA OnlyDistinct ==
  ASSUME NEW E, NEW S, NEW s \in Seq(E), Distinct(s)
  PROVE  /\ Distinct(Only(s, S)) /\ Len(Only(s, S)) \in 0 .. Len(s)
         /\ ToSet(Only(s, S)) = ToSet(s) \cap S
<1> DEFINE Good(u) == /\ Distinct(Only(u, S)) /\ Len(Only(u, S)) \in 0 .. Len(u)
                      /\ ToSet(Only(u, S)) = ToSet(u) \cap S
           T == {u \in Seq(E) : Distinct(u) => Good(u)}
<1>0. \A u \in Seq(E) : Only(u, S) \in Seq(E)
  BY OnlyType
<1>1. <<>> \in T
  <2>1. <<>> \in Seq(E) /\ Only(<<>>, S) = <<>>
    BY OnlyEmpty
  <2>2. Good(<<>>)
    BY <2>1 DEF Distinct, ToSet
  <2> QED BY <2>1, <2>2
<1>2. ASSUME NEW u \in Seq(E), NEW x \in E, u \in T PROVE Append(u, x) \in T
  <2> DEFINE v == Append(u, x)
             o == Only(u, S)
  <2>1. /\ v \in Seq(E) /\ DOMAIN v = 1 .. Len(u) + 1 /\ v[Len(u) + 1] = x
        /\ \A i \in DOMAIN u : i \in DOMAIN v /\ v[i] = u[i]
        /\ Len(u) + 1 \in DOMAIN v /\ DOMAIN u = 1 .. Len(u) /\ Len(u) \in Nat /\ Len(v) = Len(u) + 1
    OBVIOUS
  <2>2. Only(v, S) = IF x \in S THEN Append(o, x) ELSE o
    BY OnlyAppend
  <2>3. o \in Seq(E)
    BY <1>0
  <2> HIDE DEF v
  <2> SUFFICES ASSUME Distinct(v) PROVE Good(v)
    BY <2>1 DEF v
  <2>4. Distinct(u) /\ x \notin ToSet(u)
    BY <2>1 DEF Distinct, ToSet
  <2>5. Distinct(o) /\ Len(o) \in 0 .. Len(u) /\ ToSet(o) = ToSet(u) \cap S
    BY <1>2, <2>4
  <2>6. ToSet(v) = ToSet(u) \cup {x}
    BY <2>1 DEF ToSet
  <2> HIDE DEF o
  <2>7. CASE x \in S
    <3> DEFINE w == Append(o, x)
    <3>1. /\ DOMAIN w = 1 .. Len(o) + 1 /\ w[Len(o) + 1] = x /\ Len(w) = Len(o) + 1
          /\ \A i \in DOMAIN o : i \in DOMAIN w /\ w[i] = o[i]
          /\ Len(o) + 1 \in DOMAIN w /\ DOMAIN o = 1 .. Len(o) /\ Len(o) \in Nat
      BY <2>3
    <3> HIDE DEF w
    <3>2. Distinct(w)
      <4>1. \A i \in DOMAIN o : o[i] # x
        BY <2>4, <2>5 DEF ToSet
      <4> QED BY <3>1, <2>5, <4>1 DEF Distinct
    <3>3. ToSet(w) = ToSet(o) \cup {x}
      BY <3>1 DEF ToSet
    <3>4. ToSet(w) = ToSet(v) \cap S
      BY <3>3, <2>5, <2>6, <2>7
    <3>5. Len(w) \in 0 .. Len(v)
      BY <2>1, <2>5, <3>1
    <3>6. Only(v, S) = w
      BY <2>2, <2>7 DEF w
    <3> QED BY <3>2, <3>4, <3>5, <3>6
  <2>8. CASE x \notin S
    <3>1. Len(o) \in 0 .. Len(v)
      BY <2>1, <2>5
    <3> QED BY <2>2, <2>5, <2>6, <2>8, <3>1
  <2> QED BY <2>7, <2>8
<1>3. Seq(E) \subseteq T
  <2> HIDE DEF T
  <2> QED BY <1>1, <1>2, SequenceInduction
<1>4. Good(s)
  <2> HIDE DEF Good
  <2> QED BY <1>3
<1> QED BY <1>4

(* A sequence that another one and an element more make.                    *)
LEMMA IsAppend ==
  ASSUME NEW E, NEW a \in Seq(E), NEW y \in E, NEW b \in Seq(E), Len(b) = Len(a) + 1,
         b[Len(a) + 1] = y, \A i \in 1 .. Len(a) : b[i] = a[i]
  PROVE  b = Append(a, y)
<1> DEFINE c == Append(a, y)
<1>1. /\ c \in Seq(E) /\ Len(c) = Len(a) + 1 /\ c[Len(a) + 1] = y /\ Len(a) \in Nat
      /\ \A i \in 1 .. Len(a) : c[i] = a[i]
  OBVIOUS
<1> HIDE DEF c
<1>2. \A i \in 1 .. Len(a) + 1 : i \in 1 .. Len(a) \/ i = Len(a) + 1
  BY <1>1
<1>3. \A i \in 1 .. Len(b) : b[i] = c[i]
  BY <1>1, <1>2
<1>4. b = c
  BY <1>1, <1>3, SeqEqual
<1> QED BY <1>4 DEF c

(* Flattening empty sequences gives an empty one.                           *)
LEMMA NoneFlat ==
  ASSUME NEW E, NEW seqs \in Seq(Seq(E)), \A i \in DOMAIN seqs : seqs[i] = <<>>
  PROVE  FlattenSeq(seqs) = <<>>
<1> DEFINE T == {u \in Seq(Seq(E)) : (\A i \in DOMAIN u : u[i] = <<>>) => FlattenSeq(u) = <<>>}
<1>1. <<>> \in T
  <2>1. <<>> \in Seq(Seq(E)) /\ FlattenSeq(<<>>) = <<>>
    BY FlattenAppend
  <2> QED BY <2>1
<1>2. ASSUME NEW u \in Seq(Seq(E)), NEW x \in Seq(E), u \in T PROVE Append(u, x) \in T
  <2> DEFINE v == Append(u, x)
  <2>1. /\ v \in Seq(Seq(E)) /\ v[Len(u) + 1] = x /\ Len(u) + 1 \in DOMAIN v
        /\ \A i \in DOMAIN u : i \in DOMAIN v /\ v[i] = u[i]
    OBVIOUS
  <2>2. FlattenSeq(v) = FlattenSeq(u) \o x
    BY FlattenAppend
  <2>3. <<>> \o <<>> = <<>>
    OBVIOUS
  <2> HIDE DEF v
  <2>4. ASSUME \A i \in DOMAIN v : v[i] = <<>> PROVE FlattenSeq(v) = <<>>
    <3>1. x = <<>> /\ \A i \in DOMAIN u : u[i] = <<>>
      BY <2>1, <2>4
    <3>2. FlattenSeq(u) = <<>>
      BY <1>2, <3>1
    <3> QED BY <2>2, <2>3, <3>1, <3>2
  <2>5. v \in T
    BY <2>1, <2>4
  <2> HIDE DEF T
  <2> QED BY <2>5 DEF v
<1>3. Seq(Seq(E)) \subseteq T
  <2> HIDE DEF T
  <2> QED BY <1>1, <1>2, SequenceInduction
<1> QED BY <1>3

(* Flattening sequences of which one is not empty gives that one.           *)
LEMMA OneFlat ==
  ASSUME NEW E, NEW seqs \in Seq(Seq(E)), NEW j \in DOMAIN seqs,
         \A i \in DOMAIN seqs : i # j => seqs[i] = <<>>
  PROVE  FlattenSeq(seqs) = seqs[j]
<1> DEFINE Alone(u, k) == \A i \in DOMAIN u : i # k => u[i] = <<>>
           T == {u \in Seq(Seq(E)) : \A k \in DOMAIN u : Alone(u, k) => FlattenSeq(u) = u[k]}
<1>1. <<>> \in T
  <2>1. <<>> \in Seq(Seq(E)) /\ DOMAIN <<>> = {}
    OBVIOUS
  <2> QED BY <2>1
<1>2. ASSUME NEW u \in Seq(Seq(E)), NEW x \in Seq(E), u \in T PROVE Append(u, x) \in T
  <2> DEFINE v == Append(u, x)
  <2>1. /\ v \in Seq(Seq(E)) /\ v[Len(u) + 1] = x /\ Len(u) + 1 \in DOMAIN v
        /\ \A i \in DOMAIN u : i \in DOMAIN v /\ v[i] = u[i] /\ i # Len(u) + 1
        /\ \A i \in DOMAIN v : i \in DOMAIN u \/ i = Len(u) + 1
    BY SMTT(40)
  <2>2. FlattenSeq(v) = FlattenSeq(u) \o x
    BY FlattenAppend
  <2>3. <<>> \o x = x
    OBVIOUS
  <2> HIDE DEF v
  <2>4. ASSUME NEW k \in DOMAIN v, Alone(v, k) PROVE FlattenSeq(v) = v[k]
    <3>1. CASE k = Len(u) + 1
      <4>1. \A i \in DOMAIN u : u[i] = <<>>
        BY <2>1, <2>4, <3>1
      <4>2. FlattenSeq(u) = <<>>
        BY <4>1, NoneFlat
      <4> QED BY <2>1, <2>2, <2>3, <3>1, <4>2
    <3>2. CASE k \in DOMAIN u
      <4>1. Alone(u, k) /\ x = <<>>
        BY <2>1, <2>4, <3>2
      <4>2. FlattenSeq(u) = u[k]
        BY <1>2, <3>2, <4>1
      <4> DEFINE y == u[k]
      <4>3. y \in Seq(E)
        BY <3>2
      <4> HIDE DEF y
      <4>4. y \o <<>> = y
        BY <4>3
      <4> QED BY <2>1, <2>2, <3>2, <4>1, <4>2, <4>4 DEF y
    <3> QED BY <2>1, <3>1, <3>2
  <2>5. v \in T
    BY <2>1, <2>4
  <2> HIDE DEF T
  <2> QED BY <2>5 DEF v
<1>3. Seq(Seq(E)) \subseteq T
  <2> HIDE DEF T
  <2> QED BY <1>1, <1>2, SequenceInduction
<1> QED BY <1>3

(* Only of the parts of a flattened sequence.                               *)
OnlyOf(seqs, S) == [i \in DOMAIN seqs |-> Only(seqs[i], S)]
LEMMA OnlyFlatten ==
  ASSUME NEW E, NEW S, NEW seqs \in Seq(Seq(E))
  PROVE  Only(FlattenSeq(seqs), S) = FlattenSeq(OnlyOf(seqs, S))
<1> DEFINE T == {u \in Seq(Seq(E)) : Only(FlattenSeq(u), S) = FlattenSeq(OnlyOf(u, S))}
<1>0. ASSUME NEW u \in Seq(Seq(E)) PROVE OnlyOf(u, S) \in Seq(Seq(E)) /\ Len(OnlyOf(u, S)) = Len(u)
  <2>1. \A i \in DOMAIN u : Only(u[i], S) \in Seq(E)
    <3>1. \A i \in DOMAIN u : u[i] \in Seq(E)
      OBVIOUS
    <3> QED BY <3>1, OnlyType
  <2>2. PICK n \in Nat : n = Len(u) /\ DOMAIN u = 1 .. n
    OBVIOUS
  <2>3. OnlyOf(u, S) \in [1 .. n -> Seq(E)]
    BY <2>1, <2>2 DEF OnlyOf
  <2> QED BY <2>2, <2>3
<1>1. <<>> \in T
  <2>1. <<>> \in Seq(Seq(E)) /\ FlattenSeq(<<>>) = <<>> /\ OnlyOf(<<>>, S) = <<>>
    BY FlattenAppend DEF OnlyOf
  <2> QED BY <2>1, OnlyEmpty
<1>2. ASSUME NEW u \in Seq(Seq(E)), NEW x \in Seq(E), u \in T PROVE Append(u, x) \in T
  <2> DEFINE v == Append(u, x)
             a == OnlyOf(u, S)
             b == OnlyOf(v, S)
             y == Only(x, S)
             f == FlattenSeq(u)
  <2>1. /\ v \in Seq(Seq(E)) /\ v[Len(u) + 1] = x /\ Len(v) = Len(u) + 1 /\ Len(u) \in Nat
        /\ \A i \in 1 .. Len(u) : v[i] = u[i]
    OBVIOUS
  <2>2. FlattenSeq(v) = f \o x /\ f \in Seq(E)
    BY FlattenAppend
  <2>3. Only(f \o x, S) = Only(f, S) \o y
    <3> HIDE DEF f
    <3> QED BY <2>2, OnlyConcat
  <2>4. y \in Seq(E)
    BY OnlyType
  <2> HIDE DEF v
  <2>5. a \in Seq(Seq(E)) /\ Len(a) = Len(u) /\ b \in Seq(Seq(E)) /\ Len(b) = Len(u) + 1
    BY <1>0, <2>1
  <2>6. /\ \A i \in 1 .. Len(u) : a[i] = Only(u[i], S)
        /\ \A i \in 1 .. Len(u) + 1 : b[i] = Only(v[i], S)
    BY <2>1 DEF OnlyOf
  <2>7. b[Len(u) + 1] = y /\ \A i \in 1 .. Len(u) : b[i] = a[i]
    <3> HIDE DEF a, b
    <3>1. Len(u) + 1 \in 1 .. Len(u) + 1 /\ 1 .. Len(u) \subseteq 1 .. Len(u) + 1
      BY <2>1
    <3>2. b[Len(u) + 1] = y
      BY <2>1, <2>6, <3>1
    <3>3. \A i \in 1 .. Len(u) : b[i] = a[i]
      BY <2>1, <2>6, <3>1
    <3> QED BY <3>2, <3>3
  <2> HIDE DEF a, b, y, f
  <2>8. b = Append(a, y)
    BY <2>1, <2>4, <2>5, <2>7, SMTT(40)
  <2>9. FlattenSeq(b) = FlattenSeq(a) \o y
    BY <2>4, <2>5, <2>8, FlattenAppend
  <2>10. Only(f, S) = FlattenSeq(a)
    BY <1>2 DEF f, a
  <2>11. v \in T
    BY <2>1, <2>2, <2>3, <2>9, <2>10 DEF b
  <2> HIDE DEF T
  <2> QED BY <2>11 DEF v
<1>3. Seq(Seq(E)) \subseteq T
  <2> HIDE DEF T
  <2> QED BY <1>1, <1>2, SequenceInduction
<1> QED BY <1>3

(* The slices of a sequence, joined, are the sequence.                      *)
Slices(s, passes) == [pass \in 1 .. passes |-> Slice(s, pass)]
(* A slice is of the same elements.                                         *)
LEMMA SliceType ==
  ASSUME NEW E, NEW s \in Seq(E), NEW p \in Nat \ {0}
  PROVE  Slice(s, p) \in Seq(E)
<1> DEFINE m == (p - 1) * Quantum + 1
           n == IF p * Quantum < Len(s) THEN p * Quantum ELSE Len(s)
<1>1. m \in Nat \ {0} /\ n \in Nat /\ n <= Len(s) /\ Len(s) \in Nat
  <2>1. (p - 1) * Quantum \in Nat /\ p * Quantum \in Nat
    BY LanesAssumption
  <2> QED BY <2>1
<1>2. Slice(s, p) = SubSeq(s, m, n)
  BY DEF Slice
<1> HIDE DEF m, n
<1>3. \A i \in m .. n : s[i] \in E
  BY <1>1
<1> QED BY <1>1, <1>2, <1>3, SubSeqProperties

LEMMA SlicesFlat ==
  ASSUME NEW E, NEW s \in Seq(E), NEW passes \in Nat
  PROVE  /\ FlattenSeq(Slices(s, passes)) \in Seq(E)
         /\ Len(FlattenSeq(Slices(s, passes))) = IF passes * Quantum < Len(s) THEN passes * Quantum ELSE Len(s)
         /\ Len(s) <= passes * Quantum => FlattenSeq(Slices(s, passes)) = s
<1> DEFINE End(n) == IF n * Quantum < Len(s) THEN n * Quantum ELSE Len(s)
           T == {n \in Nat : FlattenSeq(Slices(s, n)) = SubSeq(s, 1, End(n))}
<1>0. Quantum \in Nat \ {0} /\ Len(s) \in Nat
  BY LanesAssumption
<1>1. ASSUME NEW n \in Nat PROVE Slices(s, n) \in Seq(Seq(E)) /\ Len(Slices(s, n)) = n
  <2>1. \A p \in 1 .. n : Slice(s, p) \in Seq(E)
    BY SliceType
  <2>2. Slices(s, n) \in [1 .. n -> Seq(E)]
    BY <2>1 DEF Slices
  <2> QED BY <2>2
<1>2. 0 \in T
  <2>1. Slices(s, 0) = <<>> /\ FlattenSeq(<<>>) = <<>>
    BY FlattenAppend DEF Slices
  <2>2. End(0) = 0
    <3>1. 0 * Quantum = 0
      BY <1>0
    <3> QED BY <3>1, <1>0
  <2>3. SubSeq(s, 1, 0) = <<>>
    BY SubSeqEmpty
  <2> QED BY <2>1, <2>2, <2>3
<1>3. ASSUME NEW n \in Nat, n \in T PROVE n + 1 \in T
  <2> DEFINE a == Slices(s, n)
             b == Slices(s, n + 1)
             y == Slice(s, n + 1)
             k == n * Quantum
  <2>1. k \in Nat /\ (n + 1) * Quantum = k + Quantum /\ (n + 1) - 1 = n
    BY <1>0
  <2>2. a \in Seq(Seq(E)) /\ Len(a) = n /\ b \in Seq(Seq(E)) /\ Len(b) = n + 1
    BY <1>1
  <2>3. y \in Seq(E)
    BY SliceType
  <2>4. b[n + 1] = y /\ \A i \in 1 .. n : b[i] = a[i]
    BY DEF Slices
  <2> HIDE DEF a, b
  <2>5. b = Append(a, y)
    <3> HIDE DEF y, k
    <3> QED BY <2>2, <2>3, <2>4, IsAppend
  <2>6. FlattenSeq(b) = FlattenSeq(a) \o y
    <3> HIDE DEF y
    <3> QED BY <2>2, <2>3, <2>5, FlattenAppend
  <2>7. y = SubSeq(s, k + 1, End(n + 1))
    BY <2>1 DEF Slice
  <2>8. FlattenSeq(a) = SubSeq(s, 1, End(n))
    BY <1>3 DEF a
  <2> HIDE DEF y
  <2>9. SubSeq(s, 1, End(n)) \o y = SubSeq(s, 1, End(n + 1))
    <3>1. CASE k < Len(s)
      <4> DEFINE e == End(n + 1)
      <4>1. End(n) = k /\ e \in k .. Len(s) /\ k \in 0 .. Len(s)
        BY <3>1, <2>1, <1>0
      <4> HIDE DEF e
      <4>2. 1 \in 1 .. Len(s) + 1 /\ k \in 1 - 1 .. Len(s)
        BY <4>1, <1>0
      <4>3. SubSeq(s, 1, k) \o SubSeq(s, k + 1, e) = SubSeq(s, 1, e)
        BY <4>1, <4>2, ConcatAdjacentSubSeq
      <4> QED BY <4>1, <4>3, <2>7 DEF e
    <3>2. CASE ~(k < Len(s))
      <4>1. End(n) = Len(s) /\ End(n + 1) = Len(s) /\ Len(s) < k + 1
        BY <3>2, <2>1, <1>0
      <4>2. y = <<>>
        <5>1. y = SubSeq(s, k + 1, Len(s))
          BY <4>1, <2>7
        <5> HIDE DEF k
        <5> QED BY <4>1, <2>1, <5>1, <1>0, SubSeqEmpty
      <4>3. SubSeq(s, 1, Len(s)) = s
        BY SubSeqFull
      <4>4. s \o <<>> = s
        OBVIOUS
      <4> QED BY <4>1, <4>2, <4>3, <4>4
    <3> QED BY <3>1, <3>2
  <2>10. n + 1 \in Nat /\ FlattenSeq(Slices(s, n + 1)) = SubSeq(s, 1, End(n + 1))
    <3> HIDE DEF End, T
    <3>1. FlattenSeq(b) = SubSeq(s, 1, End(n + 1))
      BY <2>6, <2>8, <2>9
    <3> QED BY <3>1 DEF b
  <2> HIDE DEF End
  <2> QED BY <2>10
<1>4. Nat \subseteq T
  <2> HIDE DEF T
  <2> QED BY <1>2, <1>3, SetInduction
<1>5. FlattenSeq(Slices(s, passes)) = SubSeq(s, 1, End(passes))
  BY <1>4
<1>6. passes * Quantum \in Nat
  BY <1>0
<1> DEFINE e == End(passes)
<1>7. e \in 0 .. Len(s)
  BY <1>0, <1>6
<1>8. e = IF passes * Quantum < Len(s) THEN passes * Quantum ELSE Len(s)
  OBVIOUS
<1>9. FlattenSeq(Slices(s, passes)) = SubSeq(s, 1, e)
  BY <1>5
<1> HIDE DEF e
<1>10. SubSeq(s, 1, e) \in Seq(E) /\ Len(SubSeq(s, 1, e)) = e
  <2>1. \A i \in 1 .. e : s[i] \in E
    BY <1>0, <1>7
  <2>2. 1 \in Int /\ e \in Int
    BY <1>7, <1>0
  <2>3. /\ SubSeq(s, 1, e) \in Seq(E)
        /\ Len(SubSeq(s, 1, e)) = IF 1 <= e THEN e - 1 + 1 ELSE 0
    BY <2>1, <2>2, SubSeqProperties
  <2> QED BY <2>3, <1>7, <1>0
<1>11. Len(s) <= passes * Quantum => e = Len(s)
  BY <1>0, <1>6, <1>8
<1> QED BY <1>8, <1>9, <1>10, <1>11, SubSeqFull

(* A rotation of the registry has its lanes, each as often as it.           *)
LEMMA RotatedFacts ==
  ASSUME NEW s \in Seq(Thread), NEW start \in Nat, start < Len(s), Distinct(s)
  PROVE  /\ Rotated(s, start) \in Seq(Thread) /\ Len(Rotated(s, start)) = Len(s)
         /\ Distinct(Rotated(s, start)) /\ ToSet(Rotated(s, start)) = ToSet(s)
<1> DEFINE r == Rotated(s, start)
           At(i) == IF start + i <= Len(s) THEN start + i ELSE start + i - Len(s)
<1>0. PICK n \in Nat \ {0} : n = Len(s) /\ DOMAIN s = 1 .. n
  <2>1. Len(s) \in Nat /\ DOMAIN s = 1 .. Len(s)
    OBVIOUS
  <2>2. Len(s) \in Nat \ {0}
    BY <2>1
  <2> QED BY <2>1, <2>2
<1>1. ASSUME NEW i \in 1 .. n PROVE r[i] = s[At(i)] /\ At(i) \in 1 .. n
  <2>1. r[i] = s[((start + i - 1) % n) + 1]
    BY <1>0 DEF Rotated
  <2>2. start < n
    BY <1>0
  <2>3. PICK a \in Nat : a = start + i - 1 /\ a < 2 * n
    BY <2>2, <1>0
  <2>4. a % n = IF a < n THEN a ELSE a - n
    BY <2>3, <1>0
  <2>5. ((start + i - 1) % n) + 1 = At(i)
    BY <2>3, <2>4, <1>0
  <2> QED BY <2>1, <2>2, <2>5, <1>0
<1>2. DOMAIN r = 1 .. n
  BY <1>0 DEF Rotated
<1>3. \A i \in 1 .. n : s[i] \in Thread
  BY <1>0
<1>4. r \in Seq(Thread) /\ Len(r) = n
  <2>1. \A i \in 1 .. n : r[i] \in Thread
    <3> HIDE DEF At
    <3> QED BY <1>1, <1>3
  <2>2. r = [i \in 1 .. n |-> r[i]]
    BY <1>0 DEF Rotated
  <2> HIDE DEF r
  <2>3. r \in [1 .. n -> Thread]
    BY <2>1, <2>2
  <2> QED BY <2>3
<1> HIDE DEF r
<1>5. Distinct(r)
  <2> SUFFICES ASSUME NEW i \in 1 .. n, NEW j \in 1 .. n, r[i] = r[j] PROVE i = j
    BY <1>2 DEF Distinct
  <2>1. s[At(i)] = s[At(j)] /\ At(i) \in 1 .. n /\ At(j) \in 1 .. n
    BY <1>1
  <2>2. At(i) = At(j)
    <3> HIDE DEF At
    <3> QED BY <2>1, <1>0 DEF Distinct
  <2> QED BY <2>2, <1>0
<1>6. ToSet(r) = ToSet(s)
  <2>1. ToSet(r) \subseteq ToSet(s)
    <3> HIDE DEF At
    <3> QED BY <1>0, <1>1, <1>2 DEF ToSet
  <2>2. ASSUME NEW j \in 1 .. n PROVE s[j] \in ToSet(r)
    <3> DEFINE i == IF j > start THEN j - start ELSE j - start + n
    <3>1. i \in 1 .. n /\ At(i) = j
      BY <1>0
    <3> HIDE DEF i, At
    <3>2. r[i] = s[j]
      BY <3>1, <1>1
    <3> QED BY <3>1, <3>2, <1>2 DEF ToSet
  <2> QED BY <2>1, <2>2, <1>0 DEF ToSet
<1> QED BY <1>0, <1>4, <1>5, <1>6 DEF r

(* A sequence without repetition is no longer than the set it is from.      *)
LEMMA DistinctBounded ==
  ASSUME NEW E, IsFiniteSet(E), NEW s \in Seq(E), Distinct(s)
  PROVE  Len(s) <= Cardinality(E)
<1>1. s \in [1 .. Len(s) -> E] /\ Len(s) \in Nat
  OBVIOUS
<1>2. IsInjective(s)
  BY DEF Distinct, IsInjective
<1>3. s \in Injection(1 .. Len(s), E)
  BY <1>1, <1>2 DEF Injection
<1>4. Cardinality(1 .. Len(s)) <= Cardinality(E)
  BY <1>3, FS_Injection
<1>5. PICK n \in Nat : n = Len(s)
  BY <1>1
<1>6. 1 \in Int /\ n \in Int /\ n >= 0
  BY <1>5
<1>7. Cardinality(1 .. n) = IF 1 > n THEN 0 ELSE n - 1 + 1
  BY <1>6, FS_Interval
<1>8. Cardinality(1 .. n) = n
  BY <1>6, <1>7
<1> QED BY <1>4, <1>5, <1>8

-----------------------------------------------------------------------------
(* What a drain delivers of one thread is what it took of its lane.         *)

OfThread(t) == {r \in Log : By[r] = t}

(* The parts of Held.                                                       *)
HeldParts(t, q) == [i \in DOMAIN taken |-> IF ordered[i] = t THEN taken[i][q] ELSE <<>>]
LEMMA HeldFacts ==
  ASSUME TypeOK, DrainsEachOnce, NEW t, NEW q \in Queue
  PROVE  /\ HeldParts(t, q) \in Seq(Seq(Log)) /\ Held(t, q) \in Seq(Log)
         /\ \A i \in DOMAIN taken : ordered[i] = t => Held(t, q) = taken[i][q]
         /\ (\A i \in DOMAIN taken : ordered[i] # t) => Held(t, q) = <<>>
<1> DEFINE h == HeldParts(t, q)
<1>0. PICK n \in Nat : n = Len(taken) /\ DOMAIN taken = 1 .. n /\ 1 .. n \subseteq DOMAIN ordered
  <2>1. taken \in Seq([Queue -> Seq(Log)]) /\ ordered \in Seq(Thread) /\ Len(taken) <= Len(ordered)
    BY DEF TypeOK, DrainsEachOnce
  <2> QED BY <2>1
<1>1. \A i \in 1 .. n : taken[i][q] \in Seq(Log)
  <2>1. taken \in Seq([Queue -> Seq(Log)])
    BY DEF TypeOK
  <2>2. \A i \in 1 .. n : taken[i] \in [Queue -> Seq(Log)]
    BY <1>0, <2>1
  <2> QED BY <2>2
<1>2. DOMAIN h = 1 .. n /\ \A i \in 1 .. n : h[i] = IF ordered[i] = t THEN taken[i][q] ELSE <<>>
  BY <1>0 DEF HeldParts
<1>3. h \in Seq(Seq(Log))
  <2>1. \A i \in 1 .. n : h[i] \in Seq(Log)
    <3>1. <<>> \in Seq(Log)
      OBVIOUS
    <3> HIDE DEF h
    <3> QED BY <1>1, <1>2, <3>1
  <2>2. h = [i \in 1 .. n |-> h[i]]
    BY <1>0 DEF HeldParts
  <2> HIDE DEF h
  <2>3. h \in [1 .. n -> Seq(Log)]
    BY <2>1, <2>2
  <2> QED BY <2>3
<1>4. Held(t, q) = FlattenSeq(h)
  BY DEF Held, HeldParts
<1> HIDE DEF h
<1>5. Held(t, q) \in Seq(Log)
  <2>1. <<>> \in Seq(Log)
    OBVIOUS
  <2> QED BY <1>3, <1>4, <2>1, FlattenAppend
<1>6. ASSUME NEW i \in 1 .. n, ordered[i] = t PROVE Held(t, q) = taken[i][q]
  <2>1. \A j \in 1 .. n : j # i => h[j] = <<>>
    <3>1. \A j \in 1 .. n : j # i => ordered[j] # t
      BY <1>0, <1>6 DEF DrainsEachOnce, Distinct
    <3> QED BY <1>2, <3>1
  <2>2. FlattenSeq(h) = h[i]
    BY <1>2, <1>3, <2>1, OneFlat
  <2> QED BY <1>2, <1>4, <1>6, <2>2
<1>7. ASSUME \A i \in 1 .. n : ordered[i] # t PROVE Held(t, q) = <<>>
  <2>1. \A j \in DOMAIN h : h[j] = <<>>
    BY <1>2, <1>7
  <2> QED BY <1>3, <1>4, <2>1, NoneFlat
<1> QED BY <1>0, <1>3, <1>5, <1>6, <1>7 DEF h

(* What is taken of a lane was pushed by its thread, so a drain of as many  *)
(* passes as there are records takes all of it.                             *)
LEMMA TakenBounded ==
  ASSUME TypeOK, DrainsEachOnce, PushedOnce, LanesKeepOrder, wpc = "take",
         NEW q \in Queue, NEW i \in DOMAIN taken
  PROVE  Len(taken[i][q]) <= Cardinality(Log) * Quantum
<1> DEFINE t == ordered[i]
           a == Only(inbox[q], OfThread(t))
           c == IF t \in ToSet(registry) THEN queues[t][q] ELSE <<>>
           m == taken[i][q]
           p == pushed[t][q]
<1>1. t \in Thread /\ m \in Seq(Log)
  <2>1. taken \in Seq([Queue -> Seq(Log)]) /\ ordered \in Seq(Thread) /\ Len(taken) <= Len(ordered)
    BY DEF TypeOK, DrainsEachOnce
  <2>2. t \in Thread /\ taken[i] \in [Queue -> Seq(Log)]
    BY <2>1
  <2> QED BY <2>2
<1>2. a \in Seq(Log)
  <2>1. inbox[q] \in Seq(Log)
    BY DEF TypeOK
  <2> QED BY <2>1, OnlyType
<1>3. c \in Seq(Log) /\ p \in Seq(Log) /\ Distinct(p)
  <2>1. queues[t][q] \in Seq(Log) /\ <<>> \in Seq(Log) /\ p \in Seq(Log)
    BY <1>1 DEF TypeOK
  <2>2. Distinct(p)
    BY <1>1 DEF PushedOnce
  <2> QED BY <2>1, <2>2
<1>4. p = a \o m \o c
  <2>1. Held(t, q) = m
    BY HeldFacts
  <2> QED BY <1>1, <2>1 DEF LanesKeepOrder, OfThread
<1> HIDE DEF a, c, m, p
<1>5. Len(m) <= Len(p) /\ Len(m) \in Nat /\ Len(p) \in Nat
  BY <1>1, <1>2, <1>3, <1>4
<1>6. Len(p) <= Cardinality(Log)
  BY <1>3, DistinctBounded, LanesAssumption
<1>7. Cardinality(Log) \in Nat /\ Cardinality(Log) <= Cardinality(Log) * Quantum
  <2>1. PICK k \in Nat : k = Cardinality(Log)
    BY FS_CardinalityType, LanesAssumption
  <2>2. PICK j \in Nat : Quantum = j + 1
    <3>1. Quantum - 1 \in Nat
      BY LanesAssumption
    <3> QED BY <3>1, LanesAssumption
  <2>3. k * (j + 1) = k * j + k /\ k * j \in Nat
    OBVIOUS
  <2> QED BY <2>1, <2>2, <2>3
<1>8. Len(m) <= Cardinality(Log) * Quantum
  <2>1. PICK k \in Nat : k = Cardinality(Log)
    BY <1>7
  <2>2. k * Quantum \in Nat
    BY LanesAssumption
  <2> QED BY <2>1, <2>2, <1>5, <1>6, <1>7
<1> QED BY <1>8 DEF m

(* The slices a pass delivers, and what of them is a thread's.              *)
PassParts(q, pass) == [i \in DOMAIN taken |-> Slice(taken[i][q], pass)]
Passes(q) == [pass \in 1 .. Cardinality(Log) |-> FlattenSeq(PassParts(q, pass))]

(* What a drain merges are records.                                         *)
LEMMA MergedType ==
  ASSUME TypeOK, NEW q \in Queue
  PROVE  /\ \A pass \in 1 .. Cardinality(Log) : PassParts(q, pass) \in Seq(Seq(Log))
         /\ Passes(q) \in Seq(Seq(Log)) /\ Merged(q) \in Seq(Log)
         /\ Merged(q) = FlattenSeq(Passes(q))
<1>1. PICK n \in Nat : n = Len(taken) /\ DOMAIN taken = 1 .. n
  <2>1. taken \in Seq([Queue -> Seq(Log)])
    BY DEF TypeOK
  <2> QED BY <2>1
<1>2. PICK k \in Nat : k = Cardinality(Log)
  BY FS_CardinalityType, LanesAssumption
<1>3. \A i \in 1 .. n : taken[i][q] \in Seq(Log)
  <2>1. taken \in Seq([Queue -> Seq(Log)])
    BY DEF TypeOK
  <2>2. \A i \in 1 .. n : taken[i] \in [Queue -> Seq(Log)]
    BY <1>1, <2>1
  <2> QED BY <2>2
<1>4. ASSUME NEW pass \in 1 .. k PROVE PassParts(q, pass) \in Seq(Seq(Log))
  <2>1. pass \in Nat \ {0}
    OBVIOUS
  <2>2. \A i \in 1 .. n : Slice(taken[i][q], pass) \in Seq(Log)
    BY <1>3, <2>1, SliceType
  <2>3. PassParts(q, pass) \in [1 .. n -> Seq(Log)]
    BY <1>1, <2>2 DEF PassParts
  <2> QED BY <2>3
<1>5. Passes(q) \in Seq(Seq(Log))
  <2>1. \A pass \in 1 .. k : FlattenSeq(PassParts(q, pass)) \in Seq(Log)
    <3>1. <<>> \in Seq(Log)
      OBVIOUS
    <3> QED BY <1>4, <3>1, FlattenAppend
  <2>2. Passes(q) \in [1 .. k -> Seq(Log)]
    BY <1>2, <2>1 DEF Passes
  <2> QED BY <2>2
<1>6. Merged(q) = FlattenSeq(Passes(q))
  BY DEF Merged, Passes, PassParts
<1>7. Merged(q) \in Seq(Log)
  <2>1. <<>> \in Seq(Log)
    OBVIOUS
  <2> QED BY <1>5, <1>6, <2>1, FlattenAppend
<1> QED BY <1>2, <1>4, <1>5, <1>6, <1>7

(* The members of a slice are members of the sequence.                      *)
LEMMA SliceMembers ==
  ASSUME NEW E, NEW s \in Seq(E), NEW p \in Nat \ {0}, NEW S
  PROVE  /\ (\A k \in DOMAIN s : s[k] \in S) => Only(Slice(s, p), S) = Slice(s, p)
         /\ (\A k \in DOMAIN s : s[k] \notin S) => Only(Slice(s, p), S) = <<>>
<1> DEFINE m == (p - 1) * Quantum + 1
           n == IF p * Quantum < Len(s) THEN p * Quantum ELSE Len(s)
           u == Slice(s, p)
<1>1. m \in Nat \ {0} /\ n \in Nat /\ n <= Len(s) /\ Len(s) \in Nat
  <2>1. (p - 1) * Quantum \in Nat /\ p * Quantum \in Nat
    BY LanesAssumption
  <2> QED BY <2>1
<1>2. u = SubSeq(s, m, n)
  BY DEF Slice
<1>3. u \in Seq(E)
  BY SliceType
<1> HIDE DEF m, n, u
<1>4. \A i \in m .. n : s[i] \in E
  BY <1>1
<1>5. Len(u) = (IF m <= n THEN n - m + 1 ELSE 0) /\ \A i \in 1 .. n - m + 1 : u[i] = s[m + i - 1]
  BY <1>1, <1>2, <1>4, SubSeqProperties
<1>6. ASSUME NEW i \in DOMAIN u PROVE \E k \in DOMAIN s : u[i] = s[k]
  <2>1. i \in 1 .. n - m + 1
    BY <1>1, <1>3, <1>5
  <2>2. m + i - 1 \in DOMAIN s
    BY <2>1, <1>1
  <2> QED BY <1>5, <2>1, <2>2
<1>7. (\A k \in DOMAIN s : s[k] \in S) => Only(u, S) = u
  BY <1>3, <1>6, OnlyAllOrNone
<1>8. (\A k \in DOMAIN s : s[k] \notin S) => Only(u, S) = <<>>
  BY <1>3, <1>6, OnlyAllOrNone
<1> QED BY <1>7, <1>8 DEF u

(* What passes of a drain deliver of one thread are the slices of its lane. *)
FirstPasses(q, passes) == [pass \in 1 .. passes |-> FlattenSeq(PassParts(q, pass))]

LEMMA PassDelivers ==
  ASSUME TypeOK, DrainsEachOnce, RecordsOwned, NEW t \in Thread, NEW q \in Queue,
         NEW p \in 1 .. Cardinality(Log)
  PROVE  Only(FlattenSeq(PassParts(q, p)), OfThread(t)) = Slice(Held(t, q), p)
<1> DEFINE S == OfThread(t)
           part == OnlyOf(PassParts(q, p), S)
<1>1. PICK n \in Nat : n = Len(taken) /\ DOMAIN taken = 1 .. n /\ 1 .. n \subseteq DOMAIN ordered
  <2>1. taken \in Seq([Queue -> Seq(Log)]) /\ ordered \in Seq(Thread) /\ Len(taken) <= Len(ordered)
    BY DEF TypeOK, DrainsEachOnce
  <2> QED BY <2>1
<1>2. p \in Nat \ {0}
  BY FS_CardinalityType, LanesAssumption
<1>3. ASSUME NEW i \in 1 .. n
      PROVE  /\ taken[i][q] \in Seq(Log) /\ ordered[i] \in Thread
             /\ \A j \in DOMAIN taken[i][q] : By[taken[i][q][j]] = ordered[i] /\ taken[i][q][j] \in Log
  <2>1. taken \in Seq([Queue -> Seq(Log)]) /\ ordered \in Seq(Thread)
    BY DEF TypeOK
  <2>2. taken[i] \in [Queue -> Seq(Log)] /\ ordered[i] \in Thread
    <3>1. i \in DOMAIN taken /\ i \in DOMAIN ordered
      BY <1>1
    <3> QED BY <2>1, <3>1
  <2>3. \A j \in DOMAIN taken[i][q] : By[taken[i][q][j]] = ordered[i]
    BY <1>1 DEF RecordsOwned, Owned
  <2> QED BY <2>2, <2>3
<1>4. ASSUME NEW i \in 1 .. n
      PROVE  part[i] = IF ordered[i] = t THEN Slice(taken[i][q], p) ELSE <<>>
  <2> DEFINE s == taken[i][q]
  <2>1. part[i] = Only(Slice(s, p), S)
    BY <1>1 DEF OnlyOf, PassParts
  <2>2. s \in Seq(Log) /\ \A j \in DOMAIN s : By[s[j]] = ordered[i] /\ s[j] \in Log
    BY <1>3
  <2> HIDE DEF s, part
  <2>3. CASE ordered[i] = t
    <3>1. \A j \in DOMAIN s : s[j] \in S
      BY <2>2, <2>3 DEF OfThread
    <3> HIDE DEF S
    <3>2. Only(Slice(s, p), S) = Slice(s, p)
      BY <1>2, <2>2, <3>1, SliceMembers
    <3> QED BY <2>1, <2>3, <3>2 DEF s
  <2>4. CASE ordered[i] # t
    <3>1. \A j \in DOMAIN s : s[j] \notin S
      BY <2>2, <2>4 DEF OfThread
    <3> HIDE DEF S
    <3>2. Only(Slice(s, p), S) = <<>>
      BY <1>2, <2>2, <3>1, SliceMembers
    <3> QED BY <2>1, <2>4, <3>2
  <2> QED BY <2>3, <2>4
<1> HIDE DEF S
<1>5. PassParts(q, p) \in Seq(Seq(Log)) /\ DOMAIN PassParts(q, p) = 1 .. n
  BY <1>1, MergedType DEF PassParts
<1>6. part \in Seq(Seq(Log)) /\ DOMAIN part = 1 .. n
  <2>1. DOMAIN part = 1 .. n /\ \A i \in 1 .. n : part[i] = Only(PassParts(q, p)[i], S)
    BY <1>5 DEF OnlyOf
  <2>2. part = [i \in 1 .. n |-> part[i]]
    BY <1>5 DEF OnlyOf
  <2> HIDE DEF part
  <2>3. \A i \in 1 .. n : PassParts(q, p)[i] \in Seq(Log)
    BY <1>5
  <2>4. \A i \in 1 .. n : part[i] \in Seq(Log)
    BY <2>1, <2>3, OnlyType
  <2>5. part \in [1 .. n -> Seq(Log)]
    BY <2>2, <2>4
  <2>6. part \in Seq(Seq(Log))
    BY <2>5
  <2> QED BY <2>1, <2>6
<1>7. Only(FlattenSeq(PassParts(q, p)), S) = FlattenSeq(part)
  BY <1>5, OnlyFlatten
<1> HIDE DEF part
<1>8. CASE \E i \in 1 .. n : ordered[i] = t
  <2>1. PICK i \in 1 .. n : ordered[i] = t
    BY <1>8
  <2>2. Held(t, q) = taken[i][q]
    BY <1>1, <2>1, HeldFacts
  <2>3. \A j \in 1 .. n : j # i => ordered[j] # t
    BY <1>1, <2>1 DEF DrainsEachOnce, Distinct
  <2>4. part[i] = Slice(taken[i][q], p) /\ \A j \in DOMAIN part : j # i => part[j] = <<>>
    BY <1>4, <1>6, <2>1, <2>3
  <2>5. FlattenSeq(part) = part[i]
    BY <1>6, <2>1, <2>4, OneFlat
  <2> QED BY <1>7, <2>2, <2>4, <2>5 DEF S
<1>9. CASE \A i \in 1 .. n : ordered[i] # t
  <2>1. Held(t, q) = <<>>
    BY <1>1, <1>9, HeldFacts
  <2>2. \A j \in DOMAIN part : part[j] = <<>>
    BY <1>4, <1>6, <1>9
  <2>3. FlattenSeq(part) = <<>>
    BY <1>6, <2>2, NoneFlat
  <2>4. Slice(<<>>, p) = <<>>
    <3> DEFINE m == (p - 1) * Quantum + 1
               n0 == IF p * Quantum < Len(<<>>) THEN p * Quantum ELSE Len(<<>>)
    <3>1. Slice(<<>>, p) = SubSeq(<<>>, m, n0)
      BY DEF Slice
    <3>2. m \in Int /\ n0 \in Int /\ n0 < m
      <4>1. (p - 1) * Quantum \in Nat /\ p * Quantum \in Nat /\ Len(<<>>) = 0
        BY <1>2, LanesAssumption
      <4> QED BY <4>1
    <3> HIDE DEF m, n0
    <3> QED BY <3>1, <3>2, SubSeqEmpty
  <2> QED BY <1>7, <2>1, <2>3, <2>4 DEF S
<1> QED BY <1>8, <1>9

(* So do several passes.                                                    *)
LEMMA PassesDeliver ==
  ASSUME TypeOK, DrainsEachOnce, RecordsOwned, NEW t \in Thread, NEW q \in Queue,
         NEW passes \in 0 .. Cardinality(Log)
  PROVE  /\ FirstPasses(q, passes) \in Seq(Seq(Log)) /\ FlattenSeq(FirstPasses(q, passes)) \in Seq(Log)
         /\ Only(FlattenSeq(FirstPasses(q, passes)), OfThread(t)) = FlattenSeq(Slices(Held(t, q), passes))
<1> DEFINE S == OfThread(t)
           first == FirstPasses(q, passes)
           all == OnlyOf(first, S)
<1>1. passes \in Nat /\ passes <= Cardinality(Log) /\ Cardinality(Log) \in Nat
  BY FS_CardinalityType, LanesAssumption
<1>2. DOMAIN first = 1 .. passes /\ \A p \in 1 .. passes : first[p] = FlattenSeq(PassParts(q, p))
  BY DEF FirstPasses
<1>3. first \in Seq(Seq(Log))
  <2>1. \A p \in 1 .. passes : PassParts(q, p) \in Seq(Seq(Log))
    BY <1>1, MergedType
  <2>2. \A p \in 1 .. passes : FlattenSeq(PassParts(q, p)) \in Seq(Log)
    <3>1. <<>> \in Seq(Log)
      OBVIOUS
    <3> QED BY <2>1, <3>1, FlattenAppend
  <2>3. first \in [1 .. passes -> Seq(Log)]
    BY <2>2 DEF FirstPasses
  <2> QED BY <1>1, <2>3
<1> HIDE DEF first, S
<1>4. all = [p \in 1 .. passes |-> Only(first[p], S)]
  BY <1>2 DEF OnlyOf
<1>5. \A p \in 1 .. passes : Only(first[p], S) = Slice(Held(t, q), p)
  <2>1. \A p \in 1 .. passes : p \in 1 .. Cardinality(Log)
    BY <1>1
  <2> QED BY <1>2, <2>1, PassDelivers DEF S
<1>6. all = Slices(Held(t, q), passes)
  BY <1>4, <1>5 DEF Slices
<1>7. Only(FlattenSeq(first), S) = FlattenSeq(all)
  BY <1>3, OnlyFlatten
<1>8. FlattenSeq(first) \in Seq(Log)
  <2>1. <<>> \in Seq(Log)
    OBVIOUS
  <2> QED BY <1>3, <2>1, FlattenAppend
<1> QED BY <1>3, <1>6, <1>7, <1>8 DEF first, S

(* All passes of a drain deliver all that was taken of a lane.              *)
LEMMA DrainDelivers ==
  ASSUME TypeOK, DrainsEachOnce, RecordsOwned, PushedOnce, LanesKeepOrder, wpc = "take",
         NEW t \in Thread, NEW q \in Queue
  PROVE  Only(Merged(q), OfThread(t)) = Held(t, q)
<1> DEFINE h == Held(t, q)
           k == Cardinality(Log)
<1>1. k \in Nat /\ k \in 0 .. k
  BY FS_CardinalityType, LanesAssumption
<1>2. Merged(q) = FlattenSeq(FirstPasses(q, k))
  BY DEF Merged, FirstPasses, PassParts
<1>3. h \in Seq(Log)
  BY HeldFacts
<1>4. Len(h) <= k * Quantum
  <2>1. CASE \E i \in DOMAIN taken : ordered[i] = t
    BY <2>1, HeldFacts, TakenBounded
  <2>2. CASE \A i \in DOMAIN taken : ordered[i] # t
    <3>1. h = <<>>
      BY <2>2, HeldFacts
    <3>2. k * Quantum \in Nat
      BY <1>1, LanesAssumption
    <3> QED BY <3>1, <3>2
  <2> QED BY <2>1, <2>2
<1> HIDE DEF h, k
<1>5. FlattenSeq(Slices(h, k)) = h
  BY <1>1, <1>3, <1>4, SlicesFlat
<1> QED BY <1>1, <1>2, <1>5, PassesDeliver DEF h, k

-----------------------------------------------------------------------------
(* The steps.                                                               *)

(* The initial state.                                                       *)
LEMMA InitHolds == Init => IInv
<1> SUFFICES ASSUME Init PROVE IInv
  OBVIOUS
<1> USE DEF Init
<1>1. EmptyLane \in [Queue -> Seq(Log)]
  BY DEF EmptyLane
<1>2. TypeOK
  <2>1. <<>> \in Seq(Thread) /\ <<>> \in Seq([Queue -> Seq(Log)])
    OBVIOUS
  <2>2. [t \in Thread |-> EmptyLane] \in [Thread -> [Queue -> Seq(Log)]]
    BY <1>1
  <2>3. [t \in Thread |-> FALSE] \in [Thread -> BOOLEAN]
    OBVIOUS
  <2>4. [t \in Thread |-> "new"] \in [Thread -> {"new", "ready", "exit_wake", "gone"} \cup InCallback]
    OBVIOUS
  <2> QED BY <1>1, <2>1, <2>2, <2>3, <2>4 DEF TypeOK
<1>3. LaneGaugeExact
  <2>1. {t \in Thread : tpc[t] = "count"} = {}
    OBVIOUS
  <2> QED BY <1>2, <2>1, FS_EmptySet DEF LaneGaugeExact
<1>4. LanesRegistered /\ DrainsEachOnce
  BY DEF LanesRegistered, DrainsEachOnce, Distinct, ToSet, InCallback
<1>5. RecordsOwned /\ PushedOnce
  BY DEF RecordsOwned, PushedOnce, Owned, Distinct, EmptyLane
<1>6. LanesKeepOrder
  <2> SUFFICES ASSUME NEW t \in Thread, NEW q \in Queue
               PROVE  pushed[t][q] = Only(inbox[q], {r \in Log : By[r] = t}) \o Held(t, q)
                                     \o (IF t \in ToSet(registry) THEN queues[t][q] ELSE <<>>)
    BY DEF LanesKeepOrder
  <2>1. pushed[t][q] = <<>> /\ inbox[q] = <<>> /\ queues[t][q] = <<>>
    BY DEF EmptyLane
  <2>2. Only(<<>>, {r \in Log : By[r] = t}) = <<>>
    BY OnlyEmpty
  <2>3. Held(t, q) = <<>>
    BY FlattenAppend DEF Held
  <2>4. <<>> \o <<>> \o <<>> = <<>>
    OBVIOUS
  <2> QED BY <2>1, <2>2, <2>3, <2>4
<1>7. WakesAreDue
  BY DEF WakesAreDue, ToSet
<1> QED BY <1>3, <1>4, <1>5, <1>6, <1>7 DEF IInv

(* Steps that touch no record and no list of lanes.                         *)
Still == UNCHANGED <<registry, queues, pushed, ordered, taken, inbox>>

LEMMA StillKeepsRecords ==
  ASSUME IInv, Still, wpc' = "cleared" <=> wpc = "cleared"
  PROVE  RecordsOwned' /\ PushedOnce' /\ LanesKeepOrder'
<1>1. RecordsOwned'
  BY DEF IInv, Still, RecordsOwned, Owned
<1>2. PushedOnce'
  BY DEF IInv, Still, PushedOnce, Distinct
<1>3. LanesKeepOrder'
  BY DEF IInv, Still, LanesKeepOrder, Held
<1> QED BY <1>1, <1>2, <1>3

(* A step of a thread that is neither registering nor counting its lane.    *)
LEMMA SameCounting ==
  ASSUME TypeOK, NEW t \in Thread, NEW place, Goto(t, place), tpc[t] # "count", place # "count"
  PROVE  {u \in Thread : tpc'[u] = "count"} = {u \in Thread : tpc[u] = "count"}
BY DEF TypeOK, Goto

(* A thread moves on, the others stay.                                      *)
LEMMA GotoType ==
  ASSUME TypeOK, NEW t \in Thread, NEW place \in {"new", "ready", "exit_wake", "gone"} \cup InCallback,
         Goto(t, place)
  PROVE  /\ tpc' \in [Thread -> {"new", "ready", "exit_wake", "gone"} \cup InCallback]
         /\ tpc'[t] = place /\ \A u \in Thread : u # t => tpc'[u] = tpc[u]
BY DEF TypeOK, Goto

(* A thread submits a record through the lane it has.                       *)
LEMMA SubmitStep ==
  ASSUME IInv, NEW t \in Thread, Submit(t) PROVE IInv'
<1> USE DEF Submit, laneVars, workerVars
<1>1. TypeOK /\ LanesRegistered /\ DrainsEachOnce /\ WakesAreDue /\ LaneGaugeExact
  BY DEF IInv, LaneGaugeExact
<1>2. /\ tpc' \in [Thread -> {"new", "ready", "exit_wake", "gone"} \cup InCallback]
      /\ tpc'[t] = "submit" /\ \A u \in Thread : u # t => tpc'[u] = tpc[u]
  BY <1>1, GotoType DEF InCallback
<1>3. RecordsOwned' /\ PushedOnce' /\ LanesKeepOrder'
  BY StillKeepsRecords DEF Still
<1>4. TypeOK'
  BY <1>1, <1>2 DEF TypeOK
<1>5. LaneGaugeExact'
  <2>1. {u \in Thread : tpc'[u] = "count"} = {u \in Thread : tpc[u] = "count"}
    BY <1>1, SameCounting
  <2> QED BY <1>1, <1>4, <2>1 DEF LaneGaugeExact
<1>6. LanesRegistered'
  BY <1>1, <1>2 DEF LanesRegistered, InCallback, ProducersClosed, ToSet, Distinct
<1>7. DrainsEachOnce'
  BY <1>1 DEF DrainsEachOnce, ToSet, Distinct
<1>8. WakesAreDue'
  BY <1>1, <1>2 DEF WakesAreDue, ToSet, ToTake, IsEmpty
<1> QED BY <1>3, <1>5, <1>6, <1>7, <1>8 DEF IInv

(* A notification is stored.                                                *)
LEMMA WakeStep ==
  ASSUME IInv, NEW t \in Thread, Wake(t) PROVE IInv'
<1> USE DEF Wake, laneVars, workerVars
<1>1. TypeOK /\ LanesRegistered /\ DrainsEachOnce /\ WakesAreDue /\ LaneGaugeExact
  BY DEF IInv, LaneGaugeExact
<1>2. /\ tpc' \in [Thread -> {"new", "ready", "exit_wake", "gone"} \cup InCallback]
      /\ tpc'[t] = "ready" /\ \A u \in Thread : u # t => tpc'[u] = tpc[u]
  BY <1>1, GotoType
<1>3. RecordsOwned' /\ PushedOnce' /\ LanesKeepOrder'
  BY StillKeepsRecords DEF Still
<1>4. TypeOK'
  BY <1>1, <1>2 DEF TypeOK
<1>5. LaneGaugeExact'
  <2>1. {u \in Thread : tpc'[u] = "count"} = {u \in Thread : tpc[u] = "count"}
    BY <1>1, SameCounting
  <2> QED BY <1>1, <1>4, <2>1 DEF LaneGaugeExact
<1>6. LanesRegistered'
  BY <1>1, <1>2 DEF LanesRegistered, InCallback, ProducersClosed, ToSet, Distinct
<1>7. DrainsEachOnce'
  BY <1>1, SMTT(40) DEF DrainsEachOnce, ToSet, Distinct
<1>8. WakesAreDue'
  BY DEF WakesAreDue
<1> QED BY <1>3, <1>5, <1>6, <1>7, <1>8 DEF IInv

(* A thread ends and closes its lane.                                       *)
LEMMA ExitStep ==
  ASSUME IInv, NEW t \in Thread, Exit(t) PROVE IInv'
<1> USE DEF Exit, laneVars, workerVars
<1>1. TypeOK /\ LanesRegistered /\ DrainsEachOnce /\ WakesAreDue /\ LaneGaugeExact
  BY DEF IInv, LaneGaugeExact
<1>2. /\ tpc' \in [Thread -> {"new", "ready", "exit_wake", "gone"} \cup InCallback]
      /\ tpc'[t] = "exit_wake" /\ \A u \in Thread : u # t => tpc'[u] = tpc[u]
  BY <1>1, GotoType
<1>3. RecordsOwned' /\ PushedOnce' /\ LanesKeepOrder'
  BY StillKeepsRecords DEF Still
<1>4. /\ closed' \in [Thread -> BOOLEAN]
      /\ closed'[t] = TRUE /\ \A u \in Thread : u # t => closed'[u] = closed[u]
  <2>1. closed \in [Thread -> BOOLEAN]
    BY <1>1 DEF TypeOK
  <2>2. closed' = [closed EXCEPT ![t] = TRUE]
    OBVIOUS
  <2> QED BY <2>1, <2>2, Zenon
<1>5. TypeOK'
  BY <1>1, <1>2, <1>4 DEF TypeOK
<1>6. LaneGaugeExact'
  <2>1. {u \in Thread : tpc'[u] = "count"} = {u \in Thread : tpc[u] = "count"}
    BY <1>1, SameCounting
  <2> QED BY <1>1, <1>5, <2>1 DEF LaneGaugeExact
<1>7. LanesRegistered'
  <2> SUFFICES ASSUME NEW u \in Thread
               PROVE  /\ Distinct(registry') /\ (wpc' = "cleared" => registry' = <<>> /\ ProducersClosed')
                      /\ tpc'[u] = "new" => u \notin ToSet(registry') /\ pushed'[u] = EmptyLane
                      /\ closed'[u] <=> tpc'[u] \in {"exit_wake", "gone"}
                      /\ wpc' # "cleared" /\ tpc'[u] \in {"ready"} \cup InCallback => u \in ToSet(registry')
                      /\ u \notin ToSet(registry') => queues'[u] = EmptyLane
    <3>1. Distinct(registry') /\ (wpc' = "cleared" => registry' = <<>> /\ ProducersClosed')
      BY <1>1, <1>2 DEF LanesRegistered, ProducersClosed, InCallback
    <3> QED BY <3>1 DEF LanesRegistered
  <2>1. Distinct(registry') /\ (wpc' = "cleared" => registry' = <<>> /\ ProducersClosed')
    BY <1>1, <1>2 DEF LanesRegistered, ProducersClosed, InCallback
  <2>2. closed'[u] <=> tpc'[u] \in {"exit_wake", "gone"}
    <3>1. CASE u = t
      BY <3>1, <1>2, <1>4
    <3>2. CASE u # t
      BY <3>2, <1>1, <1>2, <1>4 DEF LanesRegistered
    <3> QED BY <3>1, <3>2
  <2>3. /\ tpc'[u] = "new" => u \notin ToSet(registry') /\ pushed'[u] = EmptyLane
        /\ wpc' # "cleared" /\ tpc'[u] \in {"ready"} \cup InCallback => u \in ToSet(registry')
        /\ u \notin ToSet(registry') => queues'[u] = EmptyLane
    BY <1>1, <1>2 DEF LanesRegistered, InCallback
  <2> QED BY <2>1, <2>2, <2>3
<1>8. DrainsEachOnce'
  BY <1>1 DEF DrainsEachOnce, ToSet, Distinct
<1>9. WakesAreDue'
  BY <1>1, <1>2 DEF WakesAreDue, ToSet, ToTake, IsEmpty
<1> QED BY <1>3, <1>6, <1>7, <1>8, <1>9 DEF IInv

(* The notification of a thread that ends.                                  *)
LEMMA ExitWakesStep ==
  ASSUME IInv, NEW t \in Thread, ExitWakes(t) PROVE IInv'
<1> USE DEF ExitWakes, laneVars, workerVars
<1>1. TypeOK /\ LanesRegistered /\ DrainsEachOnce /\ WakesAreDue /\ LaneGaugeExact
  BY DEF IInv, LaneGaugeExact
<1>2. /\ tpc' \in [Thread -> {"new", "ready", "exit_wake", "gone"} \cup InCallback]
      /\ tpc'[t] = "gone" /\ \A u \in Thread : u # t => tpc'[u] = tpc[u]
  BY <1>1, GotoType
<1>3. RecordsOwned' /\ PushedOnce' /\ LanesKeepOrder'
  BY StillKeepsRecords DEF Still
<1>4. TypeOK'
  BY <1>1, <1>2 DEF TypeOK
<1>5. LaneGaugeExact'
  <2>1. {u \in Thread : tpc'[u] = "count"} = {u \in Thread : tpc[u] = "count"}
    BY <1>1, SameCounting
  <2> QED BY <1>1, <1>4, <2>1 DEF LaneGaugeExact
<1>6. LanesRegistered'
  BY <1>1, <1>2 DEF LanesRegistered, InCallback, ProducersClosed, ToSet, Distinct
<1>7. DrainsEachOnce'
  BY <1>1 DEF DrainsEachOnce, ToSet, Distinct
<1>8. WakesAreDue'
  BY DEF WakesAreDue
<1> QED BY <1>3, <1>5, <1>6, <1>7, <1>8 DEF IInv

(* The metric catches up with the registry.                                 *)
LEMMA CountLaneStep ==
  ASSUME IInv, NEW t \in Thread, CountLane(t) PROVE IInv'
<1> USE DEF CountLane, laneVars, workerVars
<1>1. TypeOK /\ LanesRegistered /\ DrainsEachOnce /\ WakesAreDue /\ LaneGaugeExact
  BY DEF IInv, LaneGaugeExact
<1>2. /\ tpc' \in [Thread -> {"new", "ready", "exit_wake", "gone"} \cup InCallback]
      /\ tpc'[t] = "submit" /\ \A u \in Thread : u # t => tpc'[u] = tpc[u]
  BY <1>1, GotoType DEF InCallback
<1>3. RecordsOwned' /\ PushedOnce' /\ LanesKeepOrder'
  BY StillKeepsRecords DEF Still
<1>4. TypeOK'
  BY <1>1, <1>2 DEF TypeOK
<1>5. LaneGaugeExact'
  <2> DEFINE A == {u \in Thread : tpc[u] = "count"}
             B == {u \in Thread : tpc'[u] = "count"}
  <2>1. B = A \ {t} /\ t \in A
    BY <1>2
  <2>2. IsFiniteSet(A)
    <3>1. A \subseteq Thread
      OBVIOUS
    <3> QED BY <3>1, FS_Subset, LanesAssumption
  <2>3. Len(registry) \in Nat /\ producer_lanes \in Nat /\ producer_lanes + Cardinality(A) = Len(registry)
    BY <1>1 DEF LaneGaugeExact, TypeOK
  <2> HIDE DEF A, B
  <2>4. Cardinality(A) \in Nat /\ Cardinality(B) = Cardinality(A) - 1
    BY <2>1, <2>2, FS_CardinalityType, FS_RemoveElement
  <2>5. producer_lanes' + Cardinality(B) = Len(registry)
    BY <2>3, <2>4
  <2> QED BY <1>4, <2>5 DEF LaneGaugeExact, B
<1>6. LanesRegistered'
  BY <1>1, <1>2 DEF LanesRegistered, InCallback, ProducersClosed, ToSet, Distinct
<1>7. DrainsEachOnce'
  BY <1>1, ZenonT(40) DEF DrainsEachOnce, ToSet, Distinct
<1>8. WakesAreDue'
  BY <1>1, <1>2 DEF WakesAreDue, ToSet, ToTake, IsEmpty
<1> QED BY <1>3, <1>5, <1>6, <1>7, <1>8 DEF IInv

(* The worker consumes the permit.                                          *)
LEMMA AwakenStep ==
  ASSUME IInv, Awaken PROVE IInv'
<1> USE DEF Awaken, laneVars, threadVars
<1>1. TypeOK /\ LanesRegistered /\ DrainsEachOnce /\ LaneGaugeExact
  BY DEF IInv, LaneGaugeExact
<1>2. RecordsOwned' /\ PushedOnce' /\ LanesKeepOrder'
  BY StillKeepsRecords DEF Still
<1>3. LaneGaugeExact'
  BY <1>1 DEF LaneGaugeExact, TypeOK
<1>4. LanesRegistered'
  BY <1>1 DEF LanesRegistered, ToSet, Distinct
<1>5. DrainsEachOnce'
  BY <1>1 DEF DrainsEachOnce, ToSet, Distinct
<1>6. WakesAreDue'
  BY DEF WakesAreDue
<1> QED BY <1>2, <1>3, <1>4, <1>5, <1>6 DEF IInv

(* The sink is released.                                                    *)
LEMMA ReleaseSinkStep ==
  ASSUME IInv, ReleaseSink PROVE IInv'
<1> USE DEF ReleaseSink, laneVars, threadVars, workerVars
<1>1. TypeOK /\ LanesRegistered /\ DrainsEachOnce /\ WakesAreDue /\ LaneGaugeExact
  BY DEF IInv, LaneGaugeExact
<1>2. RecordsOwned' /\ PushedOnce' /\ LanesKeepOrder'
  BY StillKeepsRecords DEF Still
<1>3. LaneGaugeExact'
  BY <1>1 DEF LaneGaugeExact, TypeOK
<1>4. LanesRegistered'
  BY <1>1 DEF LanesRegistered, ToSet, Distinct, ProducersClosed
<1>5. DrainsEachOnce'
  BY <1>1 DEF DrainsEachOnce, ToSet, Distinct
<1>6. WakesAreDue'
  BY <1>1 DEF WakesAreDue, ToSet, ToTake, IsEmpty
<1> QED BY <1>2, <1>3, <1>4, <1>5, <1>6 DEF IInv

(* Nothing changes.                                                         *)
LEMMA StutterStep ==
  ASSUME IInv, UNCHANGED vars PROVE IInv'
<1> USE DEF vars, laneVars, threadVars, workerVars
<1>1. TypeOK /\ LanesRegistered /\ DrainsEachOnce /\ WakesAreDue /\ LaneGaugeExact
  BY DEF IInv, LaneGaugeExact
<1>2. RecordsOwned' /\ PushedOnce' /\ LanesKeepOrder'
  BY StillKeepsRecords DEF Still
<1>3. LaneGaugeExact'
  BY <1>1 DEF LaneGaugeExact, TypeOK
<1>4. LanesRegistered'
  BY <1>1 DEF LanesRegistered, ToSet, Distinct, ProducersClosed
<1>5. DrainsEachOnce'
  BY <1>1 DEF DrainsEachOnce, ToSet, Distinct
<1>6. WakesAreDue'
  BY <1>1 DEF WakesAreDue, ToSet, ToTake, IsEmpty
<1> QED BY <1>2, <1>3, <1>4, <1>5, <1>6 DEF IInv

(* A failed worker clears the lanes.                                        *)
LEMMA ClearStep ==
  ASSUME IInv, Clear PROVE IInv'
<1> USE DEF Clear
<1>1. TypeOK /\ LanesRegistered /\ DrainsEachOnce /\ LaneGaugeExact /\ RecordsOwned /\ PushedOnce
  BY DEF IInv, LaneGaugeExact
<1>2. EmptyLane \in [Queue -> Seq(Log)]
  BY DEF EmptyLane
<1>3. TypeOK'
  <2>1. queues' \in [Thread -> [Queue -> Seq(Log)]] /\ registry' \in Seq(Thread)
    BY <1>2
  <2> QED BY <1>1, <2>1 DEF TypeOK
<1>4. LaneGaugeExact'
  <2>1. {u \in Thread : tpc'[u] = "count"} = {}
    BY DEF ProducersClosed, InCallback
  <2>2. Cardinality({}) = 0 /\ Len(registry') = 0 /\ producer_lanes' = 0
    BY FS_EmptySet
  <2>3. 0 + 0 = 0
    OBVIOUS
  <2>4. producer_lanes' + Cardinality({u \in Thread : tpc'[u] = "count"}) = Len(registry')
    BY <2>1, <2>2, <2>3, Zenon
  <2> QED BY <1>3, <2>4, Zenon DEF LaneGaugeExact
<1>5. LanesRegistered'
  <2>1. Distinct(registry') /\ ToSet(registry') = {}
    BY DEF Distinct, ToSet
  <2>2. ProducersClosed'
    BY DEF ProducersClosed
  <2>3. \A t \in Thread : queues'[t] = EmptyLane
    OBVIOUS
  <2> QED BY <1>1, <2>1, <2>2, <2>3 DEF LanesRegistered
<1>6. DrainsEachOnce'
  BY <1>1 DEF DrainsEachOnce, ToSet, Distinct
<1>7. RecordsOwned'
  <2>1. \A t \in Thread : Owned(EmptyLane, t)
    BY DEF Owned, EmptyLane
  <2> QED BY <1>1, <2>1 DEF RecordsOwned, DrainsEachOnce, Owned
<1>8. PushedOnce'
  BY <1>1 DEF PushedOnce, Distinct
<1>9. LanesKeepOrder'
  BY DEF LanesKeepOrder
<1>10. WakesAreDue'
  BY DEF WakesAreDue, ToSet
<1> QED BY <1>4, <1>5, <1>6, <1>7, <1>8, <1>9, <1>10 DEF IInv

(* A lane more at the end of the registry.                                  *)
LEMMA RegisterStep ==
  ASSUME IInv, NEW t \in Thread, Register(t) PROVE IInv'
<1> USE DEF Register, workerVars
<1>1. TypeOK /\ LanesRegistered /\ DrainsEachOnce /\ WakesAreDue /\ LaneGaugeExact /\ LanesKeepOrder
      /\ RecordsOwned /\ PushedOnce
  BY DEF IInv, LaneGaugeExact
<1>2. /\ tpc' \in [Thread -> {"new", "ready", "exit_wake", "gone"} \cup InCallback]
      /\ tpc'[t] = "count" /\ \A u \in Thread : u # t => tpc'[u] = tpc[u]
  BY <1>1, GotoType DEF InCallback
<1>3. registry \in Seq(Thread) /\ registry' \in Seq(Thread) /\ Len(registry') = Len(registry) + 1
  BY <1>1 DEF TypeOK
<1>4. ToSet(registry') = ToSet(registry) \cup {t}
  <2>1. \A i \in DOMAIN registry : i \in DOMAIN registry' /\ registry'[i] = registry[i]
    BY <1>3
  <2>2. Len(registry) + 1 \in DOMAIN registry' /\ registry'[Len(registry) + 1] = t
    BY <1>3
  <2>3. \A i \in DOMAIN registry' : i \in DOMAIN registry \/ i = Len(registry) + 1
    BY <1>3
  <2> QED BY <2>1, <2>2, <2>3 DEF ToSet
<1>5. t \notin ToSet(registry) /\ pushed[t] = EmptyLane /\ queues[t] = EmptyLane /\ wpc # "cleared"
  BY <1>1 DEF LanesRegistered, ProducersClosed
<1>6. TypeOK'
  BY <1>1, <1>2, <1>3 DEF TypeOK
<1>7. LaneGaugeExact'
  <2> DEFINE A == {u \in Thread : tpc[u] = "count"}
             B == {u \in Thread : tpc'[u] = "count"}
  <2>1. B = A \cup {t} /\ t \notin A
    BY <1>2
  <2>2. IsFiniteSet(A)
    <3>1. A \subseteq Thread
      OBVIOUS
    <3> QED BY <3>1, FS_Subset, LanesAssumption
  <2>3. Len(registry) \in Nat /\ producer_lanes \in Nat /\ producer_lanes + Cardinality(A) = Len(registry)
    BY <1>1 DEF LaneGaugeExact, TypeOK
  <2> HIDE DEF A, B
  <2>4. Cardinality(A) \in Nat /\ Cardinality(B) = Cardinality(A) + 1
    BY <2>1, <2>2, FS_CardinalityType, FS_AddElement
  <2>5. producer_lanes' + Cardinality(B) = Len(registry')
    <3>1. producer_lanes' = producer_lanes
      OBVIOUS
    <3> QED BY <2>3, <2>4, <1>3, <3>1
  <2> QED BY <1>6, <2>5 DEF LaneGaugeExact, B
<1>8. LanesRegistered'
  <2>1. Distinct(registry')
    <3>1. Distinct(registry) /\ \A i \in DOMAIN registry : registry[i] # t
      BY <1>1, <1>5 DEF LanesRegistered, ToSet
    <3> QED BY <3>1, <1>3 DEF Distinct
  <2>2. \A u \in Thread : u # t => (u \in ToSet(registry') <=> u \in ToSet(registry))
    BY <1>4
  <2>3. t \in ToSet(registry')
    BY <1>4
  <2>4. \A u \in Thread : u # t =>
          /\ tpc'[u] = "new" => u \notin ToSet(registry') /\ pushed'[u] = EmptyLane
          /\ closed'[u] <=> tpc'[u] \in {"exit_wake", "gone"}
          /\ wpc' # "cleared" /\ tpc'[u] \in {"ready"} \cup InCallback => u \in ToSet(registry')
          /\ u \notin ToSet(registry') => queues'[u] = EmptyLane
    BY <1>1, <1>2, <2>2 DEF LanesRegistered
  <2>5. ~closed[t]
    BY <1>1 DEF LanesRegistered
  <2> QED BY <1>2, <1>5, <2>1, <2>3, <2>4, <2>5 DEF LanesRegistered
<1>9. DrainsEachOnce'
  BY <1>1, <1>4 DEF DrainsEachOnce
<1>10. RecordsOwned' /\ PushedOnce'
  BY <1>1 DEF RecordsOwned, PushedOnce, Owned, Distinct
<1>11. LanesKeepOrder'
  <2> SUFFICES ASSUME NEW u \in Thread, NEW q \in Queue
               PROVE  pushed'[u][q] = Only(inbox'[q], {r \in Log : By[r] = u}) \o Held(u, q)'
                                      \o (IF u \in ToSet(registry') THEN queues'[u][q] ELSE <<>>)
    BY DEF LanesKeepOrder
  <2>1. (IF u \in ToSet(registry') THEN queues[u][q] ELSE <<>>)
        = (IF u \in ToSet(registry) THEN queues[u][q] ELSE <<>>)
    BY <1>4, <1>5 DEF EmptyLane
  <2>2. pushed[u][q] = Only(inbox[q], {r \in Log : By[r] = u}) \o Held(u, q)
                       \o (IF u \in ToSet(registry) THEN queues[u][q] ELSE <<>>)
    BY <1>1, <1>5 DEF LanesKeepOrder
  <2>3. Held(u, q)' = Held(u, q)
    BY DEF Held
  <2>4. pushed' = pushed /\ inbox' = inbox /\ queues' = queues
    OBVIOUS
  <2> QED BY <2>1, <2>2, <2>3, <2>4, Zenon
<1>12. WakesAreDue'
  <2> SUFFICES ASSUME NEW u \in ToSet(registry'), ~IsEmpty(queues'[u])
               PROVE  \/ permit' \/ \E w \in Thread : tpc'[w] = "wake"
                      \/ wpc' = "busy"
                      \/ wpc' = "take" /\ u \in ToTake'
    BY DEF WakesAreDue
  <2>1. u # t
    BY <1>5 DEF IsEmpty, EmptyLane
  <2>2. u \in ToSet(registry)
    BY <1>4, <2>1
  <2> QED BY <1>1, <1>2, <2>2 DEF WakesAreDue, ToTake
<1> QED BY <1>7, <1>8, <1>9, <1>10, <1>11, <1>12 DEF IInv

(* A push that is admitted.                                                 *)
LEMMA AppendsStep ==
  ASSUME IInv, NEW t \in Thread, NEW r \in Unpushed, NEW q \in Queue, tpc[t] = "submit", Appends(t, r, q),
         Goto(t, IF IsEmpty(queues[t]) THEN "wake" ELSE "ready"),
         UNCHANGED <<laneVars, closed, permit, released, workerVars>>
  PROVE  IInv'
<1> USE DEF laneVars, workerVars
<1> DEFINE place == IF IsEmpty(queues[t]) THEN "wake" ELSE "ready"
<1>1. TypeOK /\ LanesRegistered /\ DrainsEachOnce /\ WakesAreDue /\ LaneGaugeExact /\ LanesKeepOrder
      /\ RecordsOwned /\ PushedOnce
  BY DEF IInv, LaneGaugeExact
<1>2. /\ tpc' \in [Thread -> {"new", "ready", "exit_wake", "gone"} \cup InCallback]
      /\ tpc'[t] = place /\ \A u \in Thread : u # t => tpc'[u] = tpc[u]
  <2>1. place \in {"new", "ready", "exit_wake", "gone"} \cup InCallback
    BY DEF InCallback
  <2> HIDE DEF place
  <2>2. Goto(t, place)
    BY DEF place
  <2> QED BY <1>1, <2>1, <2>2, GotoType
<1>3. r \in Log /\ By[r] = t /\ wpc # "cleared" /\ t \in ToSet(registry) /\ ~closed[t]
  BY <1>1 DEF Unpushed, Appends, LanesRegistered, ProducersClosed, InCallback
<1>4. r \notin ToSet(pushed[t][q])
  BY <1>3 DEF Unpushed
<1> DEFINE a == queues[t][q]
           p == pushed[t][q]
<1>5. /\ a \in Seq(Log) /\ p \in Seq(Log)
      /\ queues \in [Thread -> [Queue -> Seq(Log)]] /\ pushed \in [Thread -> [Queue -> Seq(Log)]]
  BY <1>1 DEF TypeOK
<1>6. /\ queues'[t][q] = Append(a, r)
      /\ \A u \in Thread, k \in Queue : ~(u = t /\ k = q) => queues'[u][k] = queues[u][k]
  BY <1>5 DEF Appends
<1>7. /\ pushed'[t][q] = Append(p, r)
      /\ \A u \in Thread, k \in Queue : ~(u = t /\ k = q) => pushed'[u][k] = pushed[u][k]
  BY <1>5 DEF Appends
<1>8. /\ \A u \in Thread : u # t => queues'[u] = queues[u] /\ pushed'[u] = pushed[u]
  BY <1>5 DEF Appends
<1>9. queues' \in [Thread -> [Queue -> Seq(Log)]] /\ pushed' \in [Thread -> [Queue -> Seq(Log)]]
  <2>1. Append(a, r) \in Seq(Log) /\ Append(p, r) \in Seq(Log)
    BY <1>3, <1>5
  <2> HIDE DEF a, p
  <2>2. queues' = [queues EXCEPT ![t][q] = Append(a, r)] /\ pushed' = [pushed EXCEPT ![t][q] = Append(p, r)]
    BY DEF Appends, a, p
  <2> QED BY <1>5, <2>1, <2>2
<1> HIDE DEF a, p
<1>10. TypeOK'
  BY <1>1, <1>2, <1>9 DEF TypeOK
<1>11. LaneGaugeExact'
  <2>1. place # "count"
    OBVIOUS
  <2> HIDE DEF place
  <2>2. Goto(t, place) /\ tpc[t] # "count"
    BY DEF place
  <2>3. {u \in Thread : tpc'[u] = "count"} = {u \in Thread : tpc[u] = "count"}
    BY <1>1, <2>1, <2>2, SameCounting
  <2> QED BY <1>1, <1>10, <2>3 DEF LaneGaugeExact
<1>12. LanesRegistered'
  <2>1. Distinct(registry')
    BY <1>1 DEF LanesRegistered, Distinct
  <2>2. \A u \in Thread : u # t =>
          /\ tpc'[u] = "new" => u \notin ToSet(registry') /\ pushed'[u] = EmptyLane
          /\ closed'[u] <=> tpc'[u] \in {"exit_wake", "gone"}
          /\ wpc' # "cleared" /\ tpc'[u] \in {"ready"} \cup InCallback => u \in ToSet(registry')
          /\ u \notin ToSet(registry') => queues'[u] = EmptyLane
    BY <1>1, <1>2, <1>8 DEF LanesRegistered
  <2>3. tpc'[t] \in {"wake", "ready"}
    BY <1>2
  <2> QED BY <1>3, <2>1, <2>2, <2>3 DEF LanesRegistered
<1>13. DrainsEachOnce'
  BY <1>1 DEF DrainsEachOnce, ToSet, Distinct
<1>14. RecordsOwned'
  <2>1. \A i \in DOMAIN taken : Owned(taken[i], ordered[i])
    BY <1>1 DEF RecordsOwned
  <2>2. \A u \in Thread : u # t => Owned(queues'[u], u)
    BY <1>1, <1>8 DEF RecordsOwned
  <2>3. Owned(queues'[t], t)
    <3> SUFFICES ASSUME NEW k \in Queue, NEW j \in DOMAIN queues'[t][k] PROVE By[queues'[t][k][j]] = t
      BY DEF Owned
    <3>1. \A i \in DOMAIN queues[t][k] : By[queues[t][k][i]] = t
      BY <1>1 DEF RecordsOwned, Owned
    <3>2. CASE k = q
      <4>1. j \in DOMAIN Append(a, r) /\ \A i \in DOMAIN a : By[a[i]] = t
        BY <1>6, <3>1, <3>2 DEF a
      <4>2. By[Append(a, r)[j]] = t
        BY <1>3, <1>5, <4>1
      <4> QED BY <1>6, <3>2, <4>2
    <3>3. CASE k # q
      BY <1>6, <3>1, <3>3
    <3> QED BY <3>2, <3>3
  <2> QED BY <2>1, <2>2, <2>3 DEF RecordsOwned
<1>15. PushedOnce'
  <2>1. Distinct(p) /\ \A i \in DOMAIN p : p[i] # r
    BY <1>1, <1>4 DEF PushedOnce, ToSet, p
  <2>2. Distinct(Append(p, r))
    BY <1>3, <1>5, <2>1 DEF Distinct
  <2> QED BY <1>1, <1>7, <2>2 DEF PushedOnce
<1>16. LanesKeepOrder'
  <2> SUFFICES ASSUME NEW u \in Thread, NEW k \in Queue
               PROVE  pushed'[u][k] = Only(inbox'[k], {l \in Log : By[l] = u}) \o Held(u, k)'
                                      \o (IF u \in ToSet(registry') THEN queues'[u][k] ELSE <<>>)
    BY DEF LanesKeepOrder
  <2>0. Held(u, k)' = Held(u, k) /\ inbox' = inbox /\ registry' = registry
    BY DEF Held
  <2> DEFINE o == Only(inbox[k], {l \in Log : By[l] = u})
             h == Held(u, k)
  <2>1. pushed[u][k] = o \o h \o (IF u \in ToSet(registry) THEN queues[u][k] ELSE <<>>)
    BY <1>1, <1>3 DEF LanesKeepOrder
  <2>2. o \in Seq(Log) /\ h \in Seq(Log)
    <3>1. inbox[k] \in Seq(Log)
      BY <1>1 DEF TypeOK
    <3> QED BY <1>1, <3>1, OnlyType, HeldFacts
  <2>3. CASE u = t /\ k = q
    <3>1. p = o \o h \o a
      BY <1>3, <2>1, <2>3 DEF p, a
    <3> HIDE DEF o, h
    <3> DEFINE e == o \o h
    <3>2. e \in Seq(Log) /\ a \in Seq(Log) /\ p = e \o a
      BY <1>5, <2>2, <3>1
    <3> HIDE DEF e
    <3>3. Append(p, r) = e \o Append(a, r)
      <4>1. r \in Log /\ e \in Seq(Log) /\ a \in Seq(Log)
        BY <1>3, <3>2
      <4>2. Append(e \o a, r) = e \o Append(a, r)
        BY <4>1
      <4> QED BY <3>2, <4>2
    <3>4. t \in ToSet(registry) /\ queues'[t][q] = Append(a, r) /\ pushed'[t][q] = Append(p, r)
      BY <1>3, <1>6, <1>7
    <3> QED BY <2>0, <2>3, <3>3, <3>4 DEF o, h, e
  <2>4. CASE ~(u = t /\ k = q)
    <3>1. pushed'[u][k] = pushed[u][k] /\ queues'[u][k] = queues[u][k]
      BY <1>6, <1>7, <2>4
    <3> QED BY <2>0, <2>1, <3>1
  <2> QED BY <2>3, <2>4
<1>17. WakesAreDue'
  <2> SUFFICES ASSUME NEW u \in ToSet(registry), ~IsEmpty(queues'[u]),
                      ~permit, \A w \in Thread : tpc'[w] # "wake", wpc # "busy"
               PROVE  wpc = "take" /\ u \in ToTake
    BY DEF WakesAreDue, ToTake
  <2>1. u \in Thread
    BY <1>1 DEF TypeOK, ToSet
  <2>2. \A w \in Thread : tpc[w] # "wake"
    BY <1>2
  <2>3. ~IsEmpty(queues[u])
    <3>1. CASE u = t
      BY <1>2, <3>1
    <3>2. CASE u # t
      BY <1>8, <2>1, <3>2
    <3> QED BY <3>1, <3>2
  <2> QED BY <1>1, <2>2, <2>3 DEF WakesAreDue
<1> QED BY <1>11, <1>12, <1>13, <1>14, <1>15, <1>16, <1>17 DEF IInv

(* A push, admitted or refused.                                             *)
LEMMA PushStep ==
  ASSUME IInv, NEW t \in Thread, Push(t) PROVE IInv'
<1>1. CASE \E r \in Unpushed : \E q \in Applicable(r) :
             Appends(t, r, q) /\ Goto(t, IF IsEmpty(queues[t]) THEN "wake" ELSE "ready")
  <2>0. PICK r \in Unpushed : \E q \in Applicable(r) :
             Appends(t, r, q) /\ Goto(t, IF IsEmpty(queues[t]) THEN "wake" ELSE "ready")
    BY <1>1
  <2>1. PICK q \in Applicable(r) :
             Appends(t, r, q) /\ Goto(t, IF IsEmpty(queues[t]) THEN "wake" ELSE "ready")
    BY <2>0
  <2>2. q \in Queue
    BY DEF Applicable, Queue
  <2>3. tpc[t] = "submit" /\ UNCHANGED <<laneVars, closed, permit, released, workerVars>>
    BY DEF Push
  <2> QED BY <2>1, <2>2, <2>3, AppendsStep
<1>2. CASE Goto(t, "ready") /\ UNCHANGED <<queues, pushed>>
  <2> USE <1>2 DEF Push, laneVars, workerVars
  <2>1. TypeOK /\ LanesRegistered /\ DrainsEachOnce /\ WakesAreDue /\ LaneGaugeExact
    BY DEF IInv, LaneGaugeExact
  <2>2. /\ tpc' \in [Thread -> {"new", "ready", "exit_wake", "gone"} \cup InCallback]
        /\ tpc'[t] = "ready" /\ \A u \in Thread : u # t => tpc'[u] = tpc[u]
    BY <2>1, GotoType
  <2>3. RecordsOwned' /\ PushedOnce' /\ LanesKeepOrder'
    BY StillKeepsRecords DEF Still
  <2>4. TypeOK'
    BY <2>1, <2>2 DEF TypeOK
  <2>5. LaneGaugeExact'
    <3>1. {u \in Thread : tpc'[u] = "count"} = {u \in Thread : tpc[u] = "count"}
      BY <2>1, SameCounting
    <3> QED BY <2>1, <2>4, <3>1 DEF LaneGaugeExact
  <2>6. LanesRegistered'
    BY <2>1, <2>2 DEF LanesRegistered, InCallback, ProducersClosed, ToSet, Distinct
  <2>7. DrainsEachOnce'
    BY <2>1 DEF DrainsEachOnce, ToSet, Distinct
  <2>8. WakesAreDue'
    BY <2>1, <2>2 DEF WakesAreDue, ToSet, ToTake, IsEmpty
  <2> QED BY <2>3, <2>5, <2>6, <2>7, <2>8 DEF IInv
<1> QED BY <1>1, <1>2 DEF Push

(* What a drain retires has ended, and holds nothing.                       *)
Kept == Only(registry, {t \in Thread : ~Retired(t)})
LEMMA KeptFacts ==
  ASSUME TypeOK, LanesRegistered
  PROVE  /\ Kept \in Seq(Thread) /\ Len(Kept) \in 0 .. Len(registry)
         /\ Distinct(Kept) /\ ToSet(Kept) = {t \in ToSet(registry) : ~Retired(t)}
<1> DEFINE S == {t \in Thread : ~Retired(t)}
<1>1. registry \in Seq(Thread) /\ Distinct(registry) /\ Kept = Only(registry, S)
  BY DEF TypeOK, LanesRegistered, Kept
<1> HIDE DEF S
<1>2. /\ Distinct(Kept) /\ Len(Kept) \in 0 .. Len(registry)
      /\ ToSet(Kept) = ToSet(registry) \cap S
  BY <1>1, OnlyDistinct
<1>3. Kept \in Seq(Thread)
  BY <1>1, OnlyType
<1>4. ToSet(registry) \subseteq Thread
  BY <1>1 DEF ToSet
<1> QED BY <1>2, <1>3, <1>4 DEF S

(* A sequence has no more members than places.                              *)
LEMMA ToSetBounded ==
  ASSUME NEW E, NEW s \in Seq(E)
  PROVE  IsFiniteSet(ToSet(s)) /\ Cardinality(ToSet(s)) <= Len(s)
<1>1. PICK n \in Nat : n = Len(s) /\ DOMAIN s = 1 .. n
  <2>1. Len(s) \in Nat /\ DOMAIN s = 1 .. Len(s)
    OBVIOUS
  <2> QED BY <2>1
<1>2. s \in [1 .. n -> ToSet(s)] /\ \A x \in ToSet(s) : \E i \in 1 .. n : s[i] = x
  BY <1>1 DEF ToSet
<1>3. s \in Surjection(1 .. n, ToSet(s))
  BY <1>2 DEF Surjection
<1>4. IsFiniteSet(1 .. n) /\ Cardinality(1 .. n) = n
  <2>1. 1 \in Int /\ n \in Int /\ n >= 0
    BY <1>1
  <2>2. IsFiniteSet(1 .. n) /\ Cardinality(1 .. n) = IF 1 > n THEN 0 ELSE n - 1 + 1
    BY <2>1, FS_Interval
  <2> QED BY <2>1, <2>2
<1>5. IsFiniteSet(ToSet(s)) /\ Cardinality(ToSet(s)) <= Cardinality(1 .. n)
  BY <1>3, <1>4, FS_Surjection
<1> QED BY <1>1, <1>4, <1>5

(* A drain begins: lanes are retired, the others are rotated.               *)
LEMMA StartDrainStep ==
  ASSUME IInv, StartDrain PROVE IInv'
<1> USE DEF threadVars
<1>1. TypeOK /\ LanesRegistered /\ DrainsEachOnce /\ WakesAreDue /\ LaneGaugeExact /\ LanesKeepOrder
      /\ RecordsOwned /\ PushedOnce
  BY DEF IInv, LaneGaugeExact
<1>2. /\ Kept \in Seq(Thread) /\ Len(Kept) \in 0 .. Len(registry)
      /\ Distinct(Kept) /\ ToSet(Kept) = {t \in ToSet(registry) : ~Retired(t)}
  BY <1>1, KeptFacts
<1>3. /\ wpc = "busy" /\ registry' = Kept
      /\ producer_lanes' = producer_lanes - (Len(registry) - Len(Kept))
      /\ UNCHANGED <<queues, closed, tpc, pushed, permit, released, taken, inbox>>
  BY DEF StartDrain, Kept
<1>4. ordered = <<>> /\ taken = <<>>
  BY <1>1, <1>3 DEF DrainsEachOnce
<1>5. /\ cursor' \in Nat /\ wpc' \in {"wait", "take"}
      /\ ordered' \in Seq(Thread) /\ Distinct(ordered')
      /\ wpc' = "wait" => Kept = <<>> /\ ordered' = <<>>
      /\ wpc' = "take" => ToSet(ordered') = ToSet(Kept)
  <2>1. CASE Kept = <<>>
    <3>1. cursor' = 0 /\ wpc' = "wait" /\ ordered' = ordered
      BY <2>1 DEF StartDrain, Kept
    <3> QED BY <2>1, <3>1, <1>4 DEF Distinct
  <2>2. CASE Kept # <<>>
    <3> DEFINE start == cursor % Len(Kept)
    <3>1. ordered' = Rotated(Kept, start) /\ cursor' = (start + 1) % Len(Kept) /\ wpc' = "take"
      BY <2>2 DEF StartDrain, Kept
    <3>2. PICK n \in Nat \ {0} : n = Len(Kept)
      BY <1>2, <2>2
    <3>3. start \in Nat /\ start < Len(Kept)
      <4>1. cursor \in Nat
        BY <1>1 DEF TypeOK
      <4> QED BY <3>2, <4>1
    <3>4. cursor' \in Nat
      <4> HIDE DEF start
      <4> QED BY <3>1, <3>2, <3>3
    <3> HIDE DEF start
    <3>5. Rotated(Kept, start) \in Seq(Thread) /\ Distinct(Rotated(Kept, start))
          /\ ToSet(Rotated(Kept, start)) = ToSet(Kept)
      BY <1>2, <3>3, RotatedFacts
    <3> QED BY <3>1, <3>4, <3>5
  <2> QED BY <2>1, <2>2
<1>6. \A t \in ToSet(registry) : t \notin ToSet(Kept) => closed[t] /\ IsEmpty(queues[t])
  BY <1>2 DEF Retired
<1>7. producer_lanes' \in Nat /\ producer_lanes' + Cardinality({u \in Thread : tpc'[u] = "count"}) = Len(Kept)
  <2> DEFINE A == {u \in Thread : tpc[u] = "count"}
  <2>1. producer_lanes \in Nat /\ producer_lanes + Cardinality(A) = Len(registry)
    BY <1>1 DEF LaneGaugeExact, TypeOK
  <2>2. A \subseteq ToSet(Kept)
    BY <1>1, <1>3, <1>6 DEF LanesRegistered, InCallback
  <2>3. IsFiniteSet(ToSet(Kept)) /\ Cardinality(ToSet(Kept)) <= Len(Kept)
    BY <1>2, ToSetBounded
  <2>4. {u \in Thread : tpc'[u] = "count"} = A
    BY <1>3
  <2> HIDE DEF A
  <2>5. Cardinality(A) \in Nat /\ Cardinality(A) <= Cardinality(ToSet(Kept)) /\ Cardinality(ToSet(Kept)) \in Nat
    BY <2>2, <2>3, FS_Subset, FS_CardinalityType
  <2>6. Len(Kept) \in Nat /\ Len(registry) \in Nat
    <3>1. registry \in Seq(Thread)
      BY <1>1 DEF TypeOK
    <3> QED BY <1>2, <3>1
  <2>7. producer_lanes' = producer_lanes - (Len(registry) - Len(Kept))
    BY <1>3
  <2>8. producer_lanes' \in Nat /\ producer_lanes' + Cardinality(A) = Len(Kept)
    BY <2>1, <2>3, <2>5, <2>6, <2>7
  <2> QED BY <2>4, <2>8
<1>8. TypeOK'
  BY <1>1, <1>2, <1>3, <1>5, <1>7 DEF TypeOK
<1>9. LaneGaugeExact'
  BY <1>3, <1>7, <1>8 DEF LaneGaugeExact
<1>10. LanesRegistered'
  <2>1. Distinct(registry') /\ wpc' # "cleared"
    BY <1>2, <1>3, <1>5
  <2> SUFFICES ASSUME NEW t \in Thread
               PROVE  /\ tpc[t] = "new" => t \notin ToSet(Kept) /\ pushed[t] = EmptyLane
                      /\ closed[t] <=> tpc[t] \in {"exit_wake", "gone"}
                      /\ tpc[t] \in {"ready"} \cup InCallback => t \in ToSet(Kept)
                      /\ t \notin ToSet(Kept) => queues[t] = EmptyLane
    BY <1>3, <2>1 DEF LanesRegistered
  <2>2. /\ tpc[t] = "new" => t \notin ToSet(Kept) /\ pushed[t] = EmptyLane
        /\ closed[t] <=> tpc[t] \in {"exit_wake", "gone"}
    BY <1>1, <1>2 DEF LanesRegistered
  <2>3. tpc[t] \in {"ready"} \cup InCallback => t \in ToSet(Kept)
    BY <1>1, <1>3, <1>6, <2>2 DEF LanesRegistered, InCallback
  <2>4. t \notin ToSet(Kept) => queues[t] = EmptyLane
    <3>1. queues[t] \in [Queue -> Seq(Log)]
      BY <1>1 DEF TypeOK
    <3>2. IsEmpty(queues[t]) => queues[t] = EmptyLane
      BY <3>1 DEF IsEmpty, EmptyLane
    <3>3. t \notin ToSet(registry) => queues[t] = EmptyLane
      BY <1>1 DEF LanesRegistered
    <3> QED BY <1>6, <3>2, <3>3
  <2> QED BY <2>2, <2>3, <2>4
<1>11. DrainsEachOnce'
  <2>1. Distinct(ordered') /\ ToSet(ordered') \subseteq ToSet(registry')
    <3>1. ToSet(<<>>) = {}
      BY DEF ToSet
    <3> QED BY <1>3, <1>5, <3>1
  <2>2. taken' = <<>> /\ Len(taken') <= Len(ordered') /\ (wpc' # "take" => ordered' = <<>>)
    BY <1>3, <1>4, <1>5
  <2> QED BY <2>1, <2>2 DEF DrainsEachOnce
<1>12. RecordsOwned'
  BY <1>1, <1>3, <1>4 DEF RecordsOwned, Owned
<1>13. PushedOnce'
  BY <1>1, <1>3 DEF PushedOnce, Distinct
<1>14. LanesKeepOrder'
  <2> SUFFICES ASSUME NEW u \in Thread, NEW q \in Queue
               PROVE  pushed'[u][q] = Only(inbox'[q], {l \in Log : By[l] = u}) \o Held(u, q)'
                                      \o (IF u \in ToSet(registry') THEN queues'[u][q] ELSE <<>>)
    BY DEF LanesKeepOrder
  <2>1. pushed[u][q] = Only(inbox[q], {l \in Log : By[l] = u}) \o Held(u, q)
                       \o (IF u \in ToSet(registry) THEN queues[u][q] ELSE <<>>)
    BY <1>1, <1>3 DEF LanesKeepOrder
  <2>2. Held(u, q)' = Held(u, q)
    BY <1>3, <1>4 DEF Held
  <2>3. (IF u \in ToSet(Kept) THEN queues[u][q] ELSE <<>>) = (IF u \in ToSet(registry) THEN queues[u][q] ELSE <<>>)
    BY <1>2, <1>6 DEF IsEmpty
  <2> QED BY <1>3, <2>1, <2>2, <2>3
<1>15. WakesAreDue'
  <2> SUFFICES ASSUME NEW u \in ToSet(Kept) PROVE wpc' = "take" /\ u \in ToTake'
    BY <1>3 DEF WakesAreDue
  <2>1. Kept # <<>>
    BY DEF ToSet
  <2>2. wpc' = "take" /\ u \in ToSet(ordered')
    BY <1>5, <2>1
  <2>3. taken' = <<>>
    BY <1>3, <1>4
  <2>4. ToTake' = {ordered'[i] : i \in 1 .. Len(ordered')}
    BY <2>3 DEF ToTake
  <2>5. DOMAIN ordered' = 1 .. Len(ordered')
    BY <1>5
  <2> QED BY <2>2, <2>4, <2>5 DEF ToSet
<1> QED BY <1>9, <1>10, <1>11, <1>12, <1>13, <1>14, <1>15 DEF IInv

(* A lane is taken.                                                         *)
LEMMA TakeStep ==
  ASSUME IInv, Take PROVE IInv'
<1> USE DEF laneVars
<1>1. TypeOK /\ LanesRegistered /\ DrainsEachOnce /\ WakesAreDue /\ LaneGaugeExact /\ LanesKeepOrder
      /\ RecordsOwned /\ PushedOnce
  BY DEF IInv, LaneGaugeExact
<1> DEFINE t == ordered[Len(taken) + 1]
           lane == queues[t]
<1>2. /\ wpc = "take" /\ Len(taken) < Len(ordered)
      /\ taken' = Append(taken, lane)
      /\ queues' = [queues EXCEPT ![t] = EmptyLane]
      /\ UNCHANGED <<laneVars, closed, tpc, pushed, permit, released, wpc, ordered, inbox>>
  BY DEF Take
<1>3. PICK n \in Nat : n = Len(taken) /\ DOMAIN taken = 1 .. n /\ n + 1 \in DOMAIN ordered /\ t = ordered[n + 1]
  <2>1. taken \in Seq([Queue -> Seq(Log)]) /\ ordered \in Seq(Thread)
    BY <1>1 DEF TypeOK
  <2> QED BY <1>2, <2>1
<1>4. t \in Thread /\ t \in ToSet(registry)
  <2>1. ordered \in Seq(Thread) /\ ToSet(ordered) \subseteq ToSet(registry)
    BY <1>1 DEF TypeOK, DrainsEachOnce
  <2> HIDE DEF t
  <2>2. t \in Thread
    BY <1>3, <2>1
  <2>3. t \in ToSet(ordered)
    BY <1>3 DEF ToSet
  <2> QED BY <2>1, <2>2, <2>3
<1> HIDE DEF t
<1>5. lane \in [Queue -> Seq(Log)] /\ EmptyLane \in [Queue -> Seq(Log)]
  BY <1>1, <1>4 DEF TypeOK, EmptyLane
<1>6. queues' \in [Thread -> [Queue -> Seq(Log)]] /\ queues'[t] = EmptyLane
      /\ \A u \in Thread : u # t => queues'[u] = queues[u]
  BY <1>1, <1>2, <1>4, <1>5 DEF TypeOK
<1> HIDE DEF lane
<1>7. /\ taken' \in Seq([Queue -> Seq(Log)]) /\ Len(taken') = n + 1 /\ DOMAIN taken' = 1 .. n + 1
      /\ taken'[n + 1] = lane /\ \A i \in 1 .. n : taken'[i] = taken[i]
  <2>1. taken \in Seq([Queue -> Seq(Log)])
    BY <1>1 DEF TypeOK
  <2> QED BY <1>2, <1>3, <1>5, <2>1
<1>8. TypeOK'
  BY <1>1, <1>2, <1>6, <1>7 DEF TypeOK
<1>9. LaneGaugeExact'
  BY <1>1, <1>2, <1>8 DEF LaneGaugeExact
<1>10. LanesRegistered'
  <2> SUFFICES ASSUME NEW u \in Thread, u \notin ToSet(registry) PROVE queues'[u] = EmptyLane
    BY <1>1, <1>2 DEF LanesRegistered, ProducersClosed
  <2> QED BY <1>1, <1>4, <1>6 DEF LanesRegistered
<1>11. DrainsEachOnce'
  <2>1. Len(taken') <= Len(ordered')
    <3>1. Len(ordered) \in Nat
      BY <1>1 DEF TypeOK
    <3> QED BY <1>2, <1>3, <1>7, <3>1
  <2> QED BY <1>1, <1>2, <2>1 DEF DrainsEachOnce
<1>12. RecordsOwned'
  <2>1. Owned(EmptyLane, t)
    BY DEF Owned, EmptyLane
  <2>2. \A u \in Thread : Owned(queues'[u], u)
    BY <1>1, <1>6, <2>1 DEF RecordsOwned
  <2>3. \A i \in 1 .. n + 1 : Owned(taken'[i], ordered[i])
    <3>1. Owned(lane, ordered[n + 1])
      BY <1>1, <1>3, <1>4 DEF RecordsOwned, lane
    <3>2. \A i \in 1 .. n : Owned(taken[i], ordered[i])
      BY <1>1, <1>3 DEF RecordsOwned
    <3> QED BY <1>7, <3>1, <3>2
  <2> QED BY <1>2, <1>7, <2>2, <2>3 DEF RecordsOwned
<1>13. PushedOnce'
  BY <1>1, <1>2 DEF PushedOnce, Distinct
<1>14. LanesKeepOrder'
  <2> SUFFICES ASSUME NEW u \in Thread, NEW q \in Queue
               PROVE  pushed'[u][q] = Only(inbox'[q], {l \in Log : By[l] = u}) \o Held(u, q)'
                                      \o (IF u \in ToSet(registry') THEN queues'[u][q] ELSE <<>>)
    BY DEF LanesKeepOrder
  <2> DEFINE o == Only(inbox[q], {l \in Log : By[l] = u})
             h == Held(u, q)
             c == IF u \in ToSet(registry) THEN queues[u][q] ELSE <<>>
             y == IF t = u THEN lane[q] ELSE <<>>
             a == HeldParts(u, q)
             b == HeldParts(u, q)'
  <2>1. pushed[u][q] = o \o h \o c
    BY <1>1, <1>2 DEF LanesKeepOrder
  <2>2. o \in Seq(Log) /\ h \in Seq(Log) /\ c \in Seq(Log) /\ y \in Seq(Log)
    <3>1. inbox[q] \in Seq(Log) /\ queues[u][q] \in Seq(Log) /\ lane[q] \in Seq(Log) /\ <<>> \in Seq(Log)
      BY <1>1, <1>5 DEF TypeOK
    <3>2. o \in Seq(Log) /\ h \in Seq(Log)
      BY <1>1, <3>1, OnlyType, HeldFacts
    <3>3. c \in Seq(Log) /\ y \in Seq(Log)
      BY <3>1
    <3> QED BY <3>2, <3>3
  <2>3. a \in Seq(Seq(Log)) /\ b \in Seq(Seq(Log))
    <3>1. a \in Seq(Seq(Log))
      BY <1>1, HeldFacts
    <3>2. b \in Seq(Seq(Log))
      <4>1. \A i \in 1 .. n + 1 : taken'[i][q] \in Seq(Log)
        <5>1. \A i \in 1 .. n + 1 : taken'[i] \in [Queue -> Seq(Log)]
          BY <1>7
        <5> QED BY <5>1
      <4>2. <<>> \in Seq(Log)
        OBVIOUS
      <4>3. b = [i \in 1 .. n + 1 |-> IF ordered[i] = u THEN taken'[i][q] ELSE <<>>]
        BY <1>2, <1>7 DEF HeldParts
      <4> HIDE DEF b
      <4>4. b \in [1 .. n + 1 -> Seq(Log)]
        BY <4>1, <4>2, <4>3
      <4> QED BY <4>4
    <3> QED BY <3>1, <3>2
  <2>4. DOMAIN a = 1 .. n /\ \A i \in 1 .. n : a[i] = IF ordered[i] = u THEN taken[i][q] ELSE <<>>
    BY <1>3 DEF HeldParts
  <2>5. DOMAIN b = 1 .. n + 1 /\ \A i \in 1 .. n + 1 : b[i] = IF ordered[i] = u THEN taken'[i][q] ELSE <<>>
    BY <1>2, <1>7 DEF HeldParts
  <2> HIDE DEF a, b
  <2>6. b[n + 1] = y
    <3>1. n + 1 \in 1 .. n + 1
      OBVIOUS
    <3> QED BY <1>3, <1>7, <2>5, <3>1
  <2>7. \A i \in 1 .. n : b[i] = a[i]
    <3>1. \A i \in 1 .. n : i \in 1 .. n + 1
      OBVIOUS
    <3> QED BY <1>7, <2>4, <2>5, <3>1
  <2> HIDE DEF o, h, c, y
  <2>8. b = Append(a, y)
    <3>1. Len(a) = n /\ Len(b) = n + 1
      BY <2>3, <2>4, <2>5
    <3> QED BY <2>2, <2>3, <2>6, <2>7, <3>1, IsAppend
  <2>9. h = FlattenSeq(a) /\ Held(u, q)' = FlattenSeq(b)
    BY DEF Held, HeldParts, h, a, b
  <2>10. Held(u, q)' = h \o y
    BY <2>2, <2>3, <2>8, <2>9, FlattenAppend
  <2> DEFINE d == IF u \in ToSet(registry') THEN queues'[u][q] ELSE <<>>
  <2>11. CASE u = t
    <3>1. y = c
      BY <1>4, <2>11 DEF y, c, lane
    <3>2. d = <<>>
      BY <1>6, <2>11 DEF EmptyLane
    <3> HIDE DEF d
    <3>3. o \o h \o c = o \o (h \o c) \o <<>>
      BY <2>2
    <3>4. Held(u, q)' = h \o c /\ inbox' = inbox /\ pushed' = pushed
      BY <1>2, <2>10, <3>1
    <3> QED BY <2>1, <3>2, <3>3, <3>4 DEF d, o
  <2>12. CASE u # t
    <3>1. y = <<>>
      BY <2>12 DEF y
    <3>2. d = c
      BY <1>2, <1>6, <2>12 DEF c
    <3> HIDE DEF d
    <3>3. h \o <<>> = h
      BY <2>2
    <3>4. Held(u, q)' = h /\ inbox' = inbox /\ pushed' = pushed
      BY <1>2, <2>10, <3>1, <3>3
    <3> QED BY <2>1, <3>2, <3>4 DEF d, o
  <2> QED BY <2>11, <2>12
<1>15. WakesAreDue'
  <2> SUFFICES ASSUME NEW u \in ToSet(registry), ~IsEmpty(queues'[u]),
                      ~permit, \A w \in Thread : tpc[w] # "wake"
               PROVE  u \in ToTake'
    BY <1>2 DEF WakesAreDue
  <2>1. u \in Thread
    BY <1>1 DEF TypeOK, ToSet
  <2>2. u # t
    BY <1>6 DEF IsEmpty, EmptyLane
  <2>3. u \in ToTake
    BY <1>1, <1>2, <1>6, <2>1, <2>2 DEF WakesAreDue
  <2>4. PICK i \in n + 1 .. Len(ordered) : u = ordered[i]
    BY <1>3, <2>3 DEF ToTake
  <2>5. Len(ordered) \in Nat
    BY <1>1 DEF TypeOK
  <2>6. i \in (n + 1) + 1 .. Len(ordered)
    BY <1>3, <2>2, <2>4, <2>5
  <2> QED BY <1>2, <1>7, <2>4, <2>6 DEF ToTake
<1> QED BY <1>9, <1>10, <1>11, <1>12, <1>13, <1>14, <1>15 DEF IInv

(* The lanes taken are merged.                                              *)
LEMMA FinishDrainStep ==
  ASSUME IInv, FinishDrain PROVE IInv'
<1> USE DEF laneVars, threadVars
<1>1. TypeOK /\ LanesRegistered /\ DrainsEachOnce /\ WakesAreDue /\ LaneGaugeExact /\ LanesKeepOrder
      /\ RecordsOwned /\ PushedOnce
  BY DEF IInv, LaneGaugeExact
<1>2. /\ wpc = "take" /\ Len(taken) = Len(ordered)
      /\ inbox' = [q \in Queue |-> inbox[q] \o Merged(q)]
      /\ wpc' \in {"wait", "busy"}
      /\ ordered' = <<>> /\ taken' = <<>>
      /\ UNCHANGED <<laneVars, threadVars, permit, released>>
  BY DEF FinishDrain
<1>3. \A q \in Queue : inbox[q] \in Seq(Log) /\ Merged(q) \in Seq(Log)
  <2>1. \A q \in Queue : inbox[q] \in Seq(Log)
    BY <1>1 DEF TypeOK
  <2> QED BY <1>1, <2>1, MergedType
<1>4. TypeOK'
  <2>1. \A q \in Queue : inbox[q] \o Merged(q) \in Seq(Log)
    BY <1>3
  <2>2. inbox' \in [Queue -> Seq(Log)]
    BY <1>2, <2>1
  <2>3. <<>> \in Seq(Thread) /\ <<>> \in Seq([Queue -> Seq(Log)])
    OBVIOUS
  <2> QED BY <1>1, <1>2, <2>2, <2>3 DEF TypeOK
<1>5. LaneGaugeExact'
  BY <1>1, <1>2, <1>4 DEF LaneGaugeExact
<1>6. LanesRegistered'
  BY <1>1, <1>2 DEF LanesRegistered
<1>7. DrainsEachOnce'
  BY <1>2 DEF DrainsEachOnce, Distinct, ToSet
<1>8. RecordsOwned'
  BY <1>1, <1>2 DEF RecordsOwned, Owned
<1>9. PushedOnce'
  BY <1>1, <1>2 DEF PushedOnce, Distinct
<1>10. LanesKeepOrder'
  <2> SUFFICES ASSUME NEW u \in Thread, NEW q \in Queue
               PROVE  pushed'[u][q] = Only(inbox'[q], {l \in Log : By[l] = u}) \o Held(u, q)'
                                      \o (IF u \in ToSet(registry') THEN queues'[u][q] ELSE <<>>)
    BY DEF LanesKeepOrder
  <2> DEFINE S == {l \in Log : By[l] = u}
             i == inbox[q]
             m == Merged(q)
             o == Only(i, S)
             h == Held(u, q)
             c == IF u \in ToSet(registry) THEN queues[u][q] ELSE <<>>
  <2>1. pushed[u][q] = o \o h \o c
    BY <1>1, <1>2 DEF LanesKeepOrder
  <2>2. Only(m, S) = h
    BY <1>1, <1>2, DrainDelivers DEF OfThread
  <2>3. i \in Seq(Log) /\ m \in Seq(Log) /\ inbox'[q] = i \o m
    BY <1>2, <1>3
  <2>4. o \in Seq(Log) /\ h \in Seq(Log) /\ c \in Seq(Log)
    <3>1. o \in Seq(Log)
      BY <2>3, OnlyType
    <3>2. h \in Seq(Log)
      BY <1>1, HeldFacts
    <3>3. c \in Seq(Log)
      <4>1. queues[u][q] \in Seq(Log) /\ <<>> \in Seq(Log)
        BY <1>1 DEF TypeOK
      <4> QED BY <4>1
    <3> QED BY <3>1, <3>2, <3>3
  <2> HIDE DEF S, i, m
  <2>5. Only(i \o m, S) = o \o Only(m, S)
    BY <2>3, OnlyConcat
  <2>6. Held(u, q)' = <<>>
    <3>1. [j \in DOMAIN <<>> |-> IF ordered'[j] = u THEN taken'[j][q] ELSE <<>>] = <<>>
      OBVIOUS
    <3> QED BY <1>2, <3>1, FlattenAppend DEF Held
  <2> HIDE DEF o, h, c
  <2>7. o \o h \o c = (o \o h) \o <<>> \o c
    BY <2>4
  <2>8. Only(inbox'[q], S) = o \o h
    BY <2>2, <2>3, <2>5
  <2>9. c = (IF u \in ToSet(registry') THEN queues'[u][q] ELSE <<>>) /\ pushed' = pushed
    BY <1>2 DEF c
  <2> QED BY <2>1, <2>6, <2>7, <2>8, <2>9 DEF S
<1>11. WakesAreDue'
  <2>1. ToTake = {}
    <3>1. Len(ordered) \in Nat
      BY <1>1 DEF TypeOK
    <3> QED BY <1>2, <3>1 DEF ToTake
  <2> QED BY <1>1, <1>2, <2>1 DEF WakesAreDue
<1> QED BY <1>5, <1>6, <1>7, <1>8, <1>9, <1>10, <1>11 DEF IInv

(* Every step preserves the invariant.                                      *)
LEMMA StepPreserves == IInv /\ [Next]_vars => IInv'
<1> SUFFICES ASSUME IInv, [Next]_vars PROVE IInv'
  OBVIOUS
<1>1. ASSUME NEW t \in Thread, Register(t) \/ Submit(t) \/ Return(t) \/ Exit(t) PROVE IInv'
  <2>1. CASE Return(t)
    BY <2>1, CountLaneStep, PushStep, WakeStep, ExitWakesStep DEF Return
  <2> QED BY <1>1, <2>1, RegisterStep, SubmitStep, ExitStep
<1>2. CASE Drain
  BY <1>2, AwakenStep, StartDrainStep, TakeStep, FinishDrainStep DEF Drain
<1>3. CASE ReleaseSink \/ Clear
  BY <1>3, ReleaseSinkStep, ClearStep
<1>4. CASE UNCHANGED vars
  BY <1>4, StutterStep
<1> QED BY <1>1, <1>2, <1>3, <1>4 DEF Next

(* The inductive invariant: lanes are registered once each, from their      *)
(* first submission until they are closed and drained; a drain works        *)
(* through registered lanes; a record is pushed once, by the thread whose   *)
(* lane holds it; and whoever fills an empty lane has the worker woken.     *)
THEOREM LanesInvariant == Spec => []IInv
<1> QED BY InitHolds, StepPreserves, PTL DEF Spec

(* The metric is the length of the registry, but for the threads between    *)
(* registering their lane and counting it: retain, register and the clear   *)
(* of a failed worker keep the two together.                                *)
THEOREM GaugeCountsLanes == Spec => []LaneGaugeExact
<1>1. IInv => LaneGaugeExact
  BY DEF IInv
<1> QED BY <1>1, LanesInvariant, PTL

(* Lanes, the swap in take, the merge by quanta and the retirement of lanes *)
(* neither lose, repeat nor reorder what a thread pushed, for any number of *)
(* threads and records and any quantum.                                     *)
THEOREM LanesDeliverInOrder == Spec => []LanesKeepOrder
<1>1. IInv => LanesKeepOrder
  BY DEF IInv
<1> QED BY <1>1, LanesInvariant, PTL

(* The raw pointer of LocalProducer is dereferenced only while the registry *)
(* owns the lane.                                                           *)
THEOREM NoDanglingLane == Spec => []PointersStayValid
<1>1. IInv => PointersStayValid
  <2> SUFFICES ASSUME IInv, NEW t \in Thread, tpc[t] \in {"submit", "wake"} PROVE t \in ToSet(registry)
    BY DEF PointersStayValid
  <2>1. wpc # "cleared"
    BY DEF IInv, LanesRegistered, ProducersClosed, InCallback
  <2> QED BY <2>1 DEF IInv, LanesRegistered, InCallback
<1> QED BY <1>1, LanesInvariant, PTL

(* No record waits in a lane without a wake that is stored or about to be.  *)
THEOREM NoRecordForgotten == Spec => []WokenWhenRecordsWait
<1>1. IInv => WokenWhenRecordsWait
  BY DEF IInv, WakesAreDue, WokenWhenRecordsWait
<1> QED BY <1>1, LanesInvariant, PTL

-----------------------------------------------------------------------------
(* Fairness of a drain.                                                     *)

(* Counting the records of a thread is measuring what is only its.          *)
LEMMA CountIsOnly ==
  ASSUME NEW t, NEW s \in Seq(Log)
  PROVE  Count(s, t, Len(s)) = Len(Only(s, OfThread(t)))
<1> DEFINE S == OfThread(t)
           At(u, n) == {i \in 1 .. n : By[u[i]] = t}
           T == {u \in Seq(Log) : IsFiniteSet(At(u, Len(u))) /\ Cardinality(At(u, Len(u))) = Len(Only(u, S))}
<1>1. <<>> \in T
  <2>1. At(<<>>, Len(<<>>)) = {} /\ <<>> \in Seq(Log)
    OBVIOUS
  <2>2. Only(<<>>, S) = <<>> /\ Len(<<>>) = 0
    BY OnlyEmpty
  <2> HIDE DEF At
  <2> QED BY <2>1, <2>2, FS_EmptySet
<1>2. ASSUME NEW u \in Seq(Log), NEW x \in Log, u \in T PROVE Append(u, x) \in T
  <2> DEFINE v == Append(u, x)
             A == At(u, Len(u))
             B == At(v, Len(v))
             o == Only(u, S)
  <2>1. /\ v \in Seq(Log) /\ Len(v) = Len(u) + 1 /\ Len(u) \in Nat /\ v[Len(u) + 1] = x
        /\ \A i \in 1 .. Len(u) : v[i] = u[i]
    OBVIOUS
  <2>2. Only(v, S) = IF x \in S THEN Append(o, x) ELSE o
    BY OnlyAppend
  <2>3. o \in Seq(Log)
    BY OnlyType
  <2>4. IsFiniteSet(A) /\ Cardinality(A) = Len(o)
    BY <1>2
  <2> HIDE DEF v
  <2>5. \A i \in 1 .. Len(v) : i \in 1 .. Len(u) \/ i = Len(u) + 1
    BY <2>1
  <2>6. Len(u) + 1 \notin A /\ (x \in S <=> By[x] = t)
    BY <2>1 DEF OfThread
  <2>7. B = IF x \in S THEN A \cup {Len(u) + 1} ELSE A
    BY <2>1, <2>5, <2>6
  <2> HIDE DEF A, B, S, o
  <2>8. IsFiniteSet(B) /\ Cardinality(B) = Len(Only(v, S))
    <3>1. CASE x \in S
      <4>1. IsFiniteSet(B) /\ Cardinality(B) = Cardinality(A) + 1
        BY <2>4, <2>6, <2>7, <3>1, FS_AddElement
      <4>2. Len(Append(o, x)) = Len(o) + 1
        BY <2>3
      <4> QED BY <2>2, <2>4, <3>1, <4>1, <4>2
    <3>2. CASE x \notin S
      BY <2>2, <2>4, <2>7, <3>2
    <3> QED BY <3>1, <3>2
  <2>9. v \in T
    BY <2>1, <2>8 DEF B
  <2> HIDE DEF T
  <2> QED BY <2>9 DEF v
<1>3. Seq(Log) \subseteq T
  <2> HIDE DEF T
  <2> QED BY <1>1, <1>2, SequenceInduction
<1> QED BY <1>3 DEF Count

(* A sequence begins with its part and goes on with the rest.               *)
LEMMA PrefixType ==
  ASSUME NEW E, NEW s \in Seq(E), NEW n \in Nat, n <= Len(s)
  PROVE  /\ SubSeq(s, 1, n) \in Seq(E) /\ Len(SubSeq(s, 1, n)) = n
         /\ \A i \in 1 .. n : SubSeq(s, 1, n)[i] = s[i]
         /\ \E r \in Seq(E) : s = SubSeq(s, 1, n) \o r /\ r = SubSeq(s, n + 1, Len(s))
<1>0. Len(s) \in Nat
  OBVIOUS
<1>1. \A i \in 1 .. n : s[i] \in E
  BY <1>0
<1>2. 1 \in Int /\ n \in Int
  OBVIOUS
<1>3. /\ SubSeq(s, 1, n) \in Seq(E)
      /\ Len(SubSeq(s, 1, n)) = IF 1 <= n THEN n - 1 + 1 ELSE 0
      /\ \A i \in 1 .. n - 1 + 1 : SubSeq(s, 1, n)[i] = s[1 + i - 1]
  BY <1>1, <1>2, SubSeqProperties
<1>4. Len(SubSeq(s, 1, n)) = n /\ \A i \in 1 .. n : SubSeq(s, 1, n)[i] = s[i]
  BY <1>3
<1> DEFINE r == SubSeq(s, n + 1, Len(s))
<1>5. r \in Seq(E)
  <2>1. \A i \in n + 1 .. Len(s) : s[i] \in E
    BY <1>0
  <2>2. n + 1 \in Int /\ Len(s) \in Int
    BY <1>0
  <2> QED BY <2>1, <2>2, SubSeqProperties
<1>6. SubSeq(s, 1, n) \o r = SubSeq(s, 1, Len(s))
  <2>1. 1 \in 1 .. Len(s) + 1 /\ n \in 1 - 1 .. Len(s) /\ Len(s) \in n .. Len(s)
    BY <1>0
  <2> QED BY <2>1, ConcatAdjacentSubSeq
<1>7. SubSeq(s, 1, Len(s)) = s
  BY SubSeqFull
<1> QED BY <1>3, <1>4, <1>5, <1>6, <1>7

(* A part of a flattened sequence from its start: whole sequences, and a    *)
(* part of the next one.                                                    *)
Whole(seqs, j) == [i \in 1 .. j |-> seqs[i]]
LEMMA PrefixSplits ==
  ASSUME NEW E, NEW seqs \in Seq(Seq(E)), NEW n \in Nat, n < Len(FlattenSeq(seqs))
  PROVE  \E j \in DOMAIN seqs : \E k \in Nat :
            /\ k <= Len(seqs[j])
            /\ SubSeq(FlattenSeq(seqs), 1, n) = FlattenSeq(Whole(seqs, j - 1)) \o SubSeq(seqs[j], 1, k)
<1> DEFINE Split(u, m) == \E j \in DOMAIN u : \E k \in Nat :
              /\ k <= Len(u[j])
              /\ SubSeq(FlattenSeq(u), 1, m) = FlattenSeq(Whole(u, j - 1)) \o SubSeq(u[j], 1, k)
           T == {u \in Seq(Seq(E)) : \A m \in Nat : m < Len(FlattenSeq(u)) => Split(u, m)}
<1>1. <<>> \in T
  <2>1. FlattenSeq(<<>>) = <<>> /\ Len(<<>>) = 0 /\ <<>> \in Seq(Seq(E))
    BY FlattenAppend
  <2> HIDE DEF Split
  <2>2. \A m \in Nat : ~(m < Len(FlattenSeq(<<>>)))
    BY <2>1
  <2> QED BY <2>1, <2>2
<1>2. ASSUME NEW u \in Seq(Seq(E)), NEW x \in Seq(E), u \in T PROVE Append(u, x) \in T
  <2> DEFINE v == Append(u, x)
             f == FlattenSeq(u)
  <2>1. /\ v \in Seq(Seq(E)) /\ Len(v) = Len(u) + 1 /\ Len(u) \in Nat /\ v[Len(u) + 1] = x
        /\ \A i \in 1 .. Len(u) : v[i] = u[i]
        /\ DOMAIN u = 1 .. Len(u) /\ DOMAIN v = 1 .. Len(u) + 1
    OBVIOUS
  <2>2. FlattenSeq(v) = f \o x /\ f \in Seq(E)
    BY FlattenAppend
  <2> HIDE DEF v, f
  <2>3. ASSUME NEW m \in Nat, m < Len(FlattenSeq(v)) PROVE Split(v, m)
    <3>0. f \o x \in Seq(E) /\ Len(f \o x) = Len(f) + Len(x) /\ Len(f) \in Nat /\ Len(x) \in Nat
      BY <2>2
    <3> DEFINE p == SubSeq(FlattenSeq(v), 1, m)
    <3>1. p \in Seq(E) /\ Len(p) = m /\ \A i \in 1 .. m : p[i] = (f \o x)[i]
      <4>1. m <= Len(f \o x)
        BY <2>2, <2>3, <3>0
      <4> QED BY <2>2, <3>0, <4>1, PrefixType
    <3>2. CASE m < Len(f)
      <4>1. Split(u, m)
        BY <1>2, <3>2 DEF f
      <4>2. PICK j \in DOMAIN u : \E k \in Nat :
               /\ k <= Len(u[j])
               /\ SubSeq(f, 1, m) = FlattenSeq(Whole(u, j - 1)) \o SubSeq(u[j], 1, k)
        BY <4>1 DEF f
      <4>3. PICK k \in Nat :
               /\ k <= Len(u[j])
               /\ SubSeq(f, 1, m) = FlattenSeq(Whole(u, j - 1)) \o SubSeq(u[j], 1, k)
        BY <4>2
      <4>4. v[j] = u[j] /\ j \in DOMAIN v
        BY <2>1
      <4>5. Whole(v, j - 1) = Whole(u, j - 1)
        <5>1. \A i \in 1 .. j - 1 : v[i] = u[i]
          BY <2>1
        <5> QED BY <5>1 DEF Whole
      <4>6. SubSeq(f, 1, m) \in Seq(E) /\ Len(SubSeq(f, 1, m)) = m /\ \A i \in 1 .. m : SubSeq(f, 1, m)[i] = f[i]
        <5>1. m <= Len(f)
          BY <3>0, <3>2
        <5> QED BY <2>2, <5>1, PrefixType
      <4>7. p = SubSeq(f, 1, m)
        <5>1. \A i \in 1 .. m : (f \o x)[i] = f[i]
          BY <2>2, <3>0, <3>2
        <5> HIDE DEF p
        <5>2. \A i \in 1 .. Len(p) : p[i] = SubSeq(f, 1, m)[i]
          BY <3>1, <4>6, <5>1
        <5> QED BY <3>1, <4>6, <5>2, SeqEqual
      <4> QED BY <4>3, <4>4, <4>5, <4>7
    <3>3. CASE ~(m < Len(f))
      <4> DEFINE k == m - Len(f)
                 z == SubSeq(x, 1, k)
      <4>1. k \in Nat /\ k <= Len(x)
        BY <2>2, <2>3, <3>0, <3>3
      <4>2. z \in Seq(E) /\ Len(z) = k /\ \A i \in 1 .. k : z[i] = x[i]
        <5> HIDE DEF k
        <5> QED BY <4>1, PrefixType
      <4>3. p = f \o z
        <5> HIDE DEF p, z
        <5>1. f \o z \in Seq(E) /\ Len(f \o z) = m
          BY <2>2, <3>0, <4>1, <4>2
        <5>2. \A i \in 1 .. m : (f \o x)[i] = (f \o z)[i]
          <6>1. /\ \A i \in 1 .. Len(f) : (f \o x)[i] = f[i] /\ (f \o z)[i] = f[i]
                /\ \A i \in Len(f) + 1 .. m : (f \o x)[i] = x[i - Len(f)] /\ (f \o z)[i] = z[i - Len(f)]
            BY <2>2, <3>0, <4>1, <4>2
          <6>2. \A i \in Len(f) + 1 .. m : i - Len(f) \in 1 .. k
            BY <3>0, <4>1
          <6>3. \A i \in 1 .. m : i \in 1 .. Len(f) \/ i \in Len(f) + 1 .. m
            BY <3>0
          <6> QED BY <4>2, <6>1, <6>2, <6>3
        <5>3. \A i \in 1 .. Len(p) : p[i] = (f \o z)[i]
          BY <3>1, <5>2
        <5> QED BY <3>1, <5>1, <5>3, SeqEqual
      <4>4. Whole(v, (Len(u) + 1) - 1) = u
        <5>1. (Len(u) + 1) - 1 = Len(u)
          BY <2>1
        <5>2. u = [i \in 1 .. Len(u) |-> u[i]]
          OBVIOUS
        <5> QED BY <2>1, <5>1, <5>2 DEF Whole
      <4>5. Len(u) + 1 \in DOMAIN v
        BY <2>1
      <4> HIDE DEF k
      <4>6. p = FlattenSeq(Whole(v, (Len(u) + 1) - 1)) \o SubSeq(v[Len(u) + 1], 1, k) /\ k <= Len(v[Len(u) + 1])
        BY <2>1, <4>1, <4>3, <4>4 DEF f
      <4> HIDE DEF p, z
      <4> QED BY <4>1, <4>5, <4>6 DEF p
    <3> QED BY <3>2, <3>3
  <2> HIDE DEF Split
  <2>4. v \in T
    BY <2>1, <2>3
  <2> HIDE DEF T
  <2> QED BY <2>4 DEF v
<1>3. Seq(Seq(E)) \subseteq T
  <2> HIDE DEF T
  <2> QED BY <1>1, <1>2, SequenceInduction
<1>4. Split(seqs, n)
  <2> HIDE DEF Split
  <2> QED BY <1>3
<1> QED BY <1>4

(* A pass takes no more than a quantum of a lane.                           *)
LEMMA SliceLength ==
  ASSUME NEW E, NEW s \in Seq(E), NEW p \in Nat \ {0}
  PROVE  Len(Slice(s, p)) <= Quantum /\ Len(Slice(s, p)) \in Nat
<1> DEFINE m == (p - 1) * Quantum + 1
           n == IF p * Quantum < Len(s) THEN p * Quantum ELSE Len(s)
<1>1. m \in Nat \ {0} /\ n \in Nat /\ n <= Len(s) /\ Len(s) \in Nat /\ n - m + 1 <= Quantum
  <2>1. PICK a \in Nat : a = (p - 1) * Quantum /\ p * Quantum = a + Quantum
    <3>1. (p - 1) * Quantum \in Nat /\ p * Quantum = (p - 1) * Quantum + Quantum
      BY LanesAssumption
    <3> QED BY <3>1
  <2> QED BY <2>1, LanesAssumption
<1>2. Slice(s, p) = SubSeq(s, m, n)
  BY DEF Slice
<1> HIDE DEF m, n
<1>3. \A i \in m .. n : s[i] \in E
  BY <1>1
<1>4. Len(SubSeq(s, m, n)) = IF m <= n THEN n - m + 1 ELSE 0
  BY <1>1, <1>3, SubSeqProperties
<1> QED BY <1>1, <1>2, <1>4, LanesAssumption

(* A part of a drain from its start delivers of each lane the slices of the *)
(* passes that are over, and at most a quantum of the pass that is not.     *)
LEMMA PrefixDelivers ==
  ASSUME TypeOK, DrainsEachOnce, RecordsOwned, NEW q \in Queue, NEW n \in Nat, n < Len(Merged(q))
  PROVE  \E a \in Nat : \A t \in Thread :
            LET l == Len(Held(t, q))
                c == Len(Only(SubSeq(Merged(q), 1, n), OfThread(t)))
            IN  c \in Nat /\ (a < l => a <= c) /\ (l <= a => l <= c) /\ c <= a + Quantum
<1> DEFINE k == Cardinality(Log)
           seqs == FirstPasses(q, k)
<1>0. k \in Nat /\ k \in 0 .. k
  BY FS_CardinalityType, LanesAssumption
<1>1. Merged(q) = FlattenSeq(seqs)
  BY DEF Merged, FirstPasses, PassParts
<1>2. seqs \in Seq(Seq(Log)) /\ DOMAIN seqs = 1 .. k /\ \A p \in 1 .. k : seqs[p] = FlattenSeq(PassParts(q, p))
  <2>1. \A p \in 1 .. k : PassParts(q, p) \in Seq(Seq(Log))
    BY MergedType
  <2>2. \A p \in 1 .. k : FlattenSeq(PassParts(q, p)) \in Seq(Log)
    <3>1. <<>> \in Seq(Log)
      OBVIOUS
    <3> QED BY <2>1, <3>1, FlattenAppend
  <2>3. seqs \in [1 .. k -> Seq(Log)]
    BY <2>2 DEF FirstPasses
  <2>4. seqs \in Seq(Seq(Log))
    <3> HIDE DEF k, seqs
    <3> QED BY <1>0, <2>3
  <2> QED BY <2>4 DEF FirstPasses
<1> HIDE DEF seqs
<1>3. PICK j \in 1 .. k : \E i \in Nat :
            /\ i <= Len(seqs[j])
            /\ SubSeq(Merged(q), 1, n) = FlattenSeq(Whole(seqs, j - 1)) \o SubSeq(seqs[j], 1, i)
  <2>1. n < Len(FlattenSeq(seqs))
    BY <1>1
  <2>2. \E j \in DOMAIN seqs : \E i \in Nat :
           /\ i <= Len(seqs[j])
           /\ SubSeq(FlattenSeq(seqs), 1, n) = FlattenSeq(Whole(seqs, j - 1)) \o SubSeq(seqs[j], 1, i)
    BY <1>2, <2>1, PrefixSplits
  <2> QED BY <1>1, <1>2, <2>2
<1>4. PICK i \in Nat :
            /\ i <= Len(seqs[j])
            /\ SubSeq(Merged(q), 1, n) = FlattenSeq(Whole(seqs, j - 1)) \o SubSeq(seqs[j], 1, i)
  BY <1>3
<1> DEFINE d == j - 1
<1>5. j \in Nat \ {0} /\ d \in 0 .. k /\ d \in Nat
  BY <1>0
<1> HIDE DEF k
<1>6. Whole(seqs, d) = FirstPasses(q, d)
  <2>1. \A p \in 1 .. d : seqs[p] = FlattenSeq(PassParts(q, p))
    <3>1. 1 .. d \subseteq 1 .. k
      BY <1>0, <1>5
    <3> QED BY <1>2, <3>1
  <2> HIDE DEF d
  <2> QED BY <2>1 DEF Whole, FirstPasses
<1> DEFINE a == d * Quantum
<1>7. a \in Nat
  <2> HIDE DEF d
  <2> QED BY <1>5, LanesAssumption
<1> SUFFICES ASSUME NEW t \in Thread
             PROVE  LET l == Len(Held(t, q))
                        c == Len(Only(SubSeq(Merged(q), 1, n), OfThread(t)))
                    IN  c \in Nat /\ (a < l => a <= c) /\ (l <= a => l <= c) /\ c <= a + Quantum
  <2> HIDE DEF a
  <2> QED BY <1>7
<1> DEFINE S == OfThread(t)
           h == Held(t, q)
           x == FlattenSeq(FirstPasses(q, d))
           y == SubSeq(seqs[j], 1, i)
           z == SubSeq(seqs[j], i + 1, Len(seqs[j]))
<1>8. h \in Seq(Log)
  BY HeldFacts
<1>9. x \in Seq(Log) /\ Only(x, S) = FlattenSeq(Slices(h, d))
  <2> HIDE DEF d
  <2> QED BY <1>5, PassesDeliver DEF k
<1>10. seqs[j] \in Seq(Log) /\ Only(seqs[j], S) = Slice(h, j)
  <2>1. seqs[j] \in Seq(Log) /\ seqs[j] = FlattenSeq(PassParts(q, j))
    <3>1. j \in DOMAIN seqs
      BY <1>2
    <3>2. seqs[j] \in Seq(Log)
      <4>1. seqs \in Seq(Seq(Log))
        BY <1>2
      <4> QED BY <3>1, <4>1
    <3>3. seqs[j] = FlattenSeq(PassParts(q, j))
      BY <1>2, <3>1, Zenon
    <3> QED BY <3>2, <3>3
  <2>2. Only(FlattenSeq(PassParts(q, j)), OfThread(t)) = Slice(Held(t, q), j)
    BY PassDelivers DEF k
  <2> QED BY <2>1, <2>2
<1>11. y \in Seq(Log) /\ z \in Seq(Log) /\ seqs[j] = y \o z
  <2> DEFINE s == seqs[j]
  <2>1. s \in Seq(Log) /\ i <= Len(s)
    BY <1>4, <1>10
  <2> HIDE DEF s
  <2>2. /\ SubSeq(s, 1, i) \in Seq(Log)
        /\ \E r \in Seq(Log) : s = SubSeq(s, 1, i) \o r /\ r = SubSeq(s, i + 1, Len(s))
    BY <2>1, PrefixType
  <2> QED BY <2>2 DEF s
<1> DEFINE o == Only(x, S)
           w == Only(y, S)
<1>12. SubSeq(Merged(q), 1, n) = x \o y
  BY <1>4, <1>6
<1> HIDE DEF x, y, z, h, S, d
<1>13. Only(SubSeq(Merged(q), 1, n), S) = o \o w
  BY <1>9, <1>11, <1>12, OnlyConcat
<1>14. o \in Seq(Log) /\ w \in Seq(Log) /\ Only(z, S) \in Seq(Log)
  BY <1>9, <1>11, OnlyType
<1>15. Slice(h, j) = w \o Only(z, S)
  BY <1>10, <1>11, OnlyConcat
<1> HIDE DEF o, w
<1>16. Len(w) <= Quantum /\ Len(w) \in Nat
  <2> DEFINE e == Only(z, S)
  <2>1. e \in Seq(Log) /\ Slice(h, j) = w \o e
    BY <1>14, <1>15
  <2> HIDE DEF e
  <2>2. Len(Slice(h, j)) = Len(w) + Len(e) /\ Len(w) \in Nat /\ Len(e) \in Nat
    BY <1>14, <2>1
  <2>3. Len(Slice(h, j)) <= Quantum
    BY <1>5, <1>8, SliceLength
  <2> QED BY <2>2, <2>3, LanesAssumption
<1>17. Len(o) = IF a < Len(h) THEN a ELSE Len(h)
  BY <1>5, <1>8, <1>9, SlicesFlat DEF o
<1>18. Len(o \o w) = Len(o) + Len(w) /\ Len(o) \in Nat /\ Len(h) \in Nat
  BY <1>8, <1>14
<1> HIDE DEF a
<1>19. /\ Len(o \o w) \in Nat /\ (a < Len(h) => a <= Len(o \o w))
       /\ (Len(h) <= a => Len(h) <= Len(o \o w)) /\ Len(o \o w) <= a + Quantum
  BY <1>7, <1>16, <1>17, <1>18, LanesAssumption
<1> QED BY <1>13, <1>19 DEF h, S

(* What a drain delivers is fair.                                           *)
LEMMA MergedIsEven ==
  ASSUME TypeOK, DrainsEachOnce, RecordsOwned, PushedOnce, LanesKeepOrder, wpc = "take", NEW q \in Queue
  PROVE  Even(Merged(q))
<1> DEFINE m == Merged(q)
<1>1. m \in Seq(Log)
  BY MergedType
<1> SUFFICES ASSUME NEW n \in 0 .. Len(m), NEW t \in Thread, NEW u \in Thread,
                    Count(m, u, n) < Count(m, u, Len(m))
             PROVE  Count(m, t, n) <= Count(m, u, n) + Quantum
  BY DEF Even
<1> HIDE DEF m
<1>2. Len(m) \in Nat /\ n \in Nat /\ n <= Len(m)
  BY <1>1
<1>3. \A v \in Thread : Count(m, v, Len(m)) = Len(Held(v, q)) /\ Len(Held(v, q)) \in Nat
  <2> SUFFICES ASSUME NEW v \in Thread PROVE Count(m, v, Len(m)) = Len(Held(v, q)) /\ Len(Held(v, q)) \in Nat
    OBVIOUS
  <2>1. Only(m, OfThread(v)) = Held(v, q)
    BY DrainDelivers DEF m
  <2>2. Held(v, q) \in Seq(Log)
    BY HeldFacts
  <2> QED BY <1>1, <2>1, <2>2, CountIsOnly
<1> DEFINE p == SubSeq(m, 1, n)
<1>4. p \in Seq(Log) /\ Len(p) = n /\ \A i \in 1 .. n : p[i] = m[i]
  BY <1>1, <1>2, PrefixType
<1> HIDE DEF p
<1>5. \A v \in Thread : Count(m, v, n) = Len(Only(p, OfThread(v)))
  <2> SUFFICES ASSUME NEW v \in Thread PROVE Count(m, v, n) = Len(Only(p, OfThread(v)))
    OBVIOUS
  <2>1. {i \in 1 .. n : By[m[i]] = v} = {i \in 1 .. n : By[p[i]] = v}
    BY <1>4
  <2>2. Count(m, v, n) = Count(p, v, Len(p))
    BY <1>4, <2>1 DEF Count
  <2> QED BY <1>4, <2>2, CountIsOnly
<1>6. n < Len(m)
  <2>1. n # Len(m)
    <3> SUFFICES ASSUME n = Len(m) PROVE FALSE
      OBVIOUS
    <3>1. Count(m, u, n) = Len(Held(u, q)) /\ Count(m, u, Len(m)) = Len(Held(u, q)) /\ Len(Held(u, q)) \in Nat
      BY <1>3
    <3> QED BY <3>1
  <2> QED BY <1>2, <2>1
<1>7. PICK a \in Nat : \A v \in Thread :
          LET l == Len(Held(v, q))
              c == Len(Only(p, OfThread(v)))
          IN  c \in Nat /\ (a < l => a <= c) /\ (l <= a => l <= c) /\ c <= a + Quantum
  BY <1>2, <1>6, PrefixDelivers DEF m, p
<1> DEFINE ct == Count(m, t, n)
           cu == Count(m, u, n)
           l == Len(Held(u, q))
<1>8. ct <= a + Quantum /\ ct \in Nat /\ cu \in Nat /\ (a < l => a <= cu) /\ (l <= a => l <= cu)
  BY <1>5, <1>7
<1>9. cu < l /\ l \in Nat
  BY <1>3
<1> HIDE DEF ct, cu, l
<1>10. ct <= cu + Quantum
  BY <1>8, <1>9, LanesAssumption
<1> QED BY <1>10 DEF ct, cu

(* The merge of a drain goes round the lanes, so that one producer, however *)
(* much it logs, is never more than a quantum ahead of another.             *)
THEOREM DrainStaysFair == Spec => DrainIsFair
<1>1. ASSUME IInv, [Next]_vars, NEW q \in Queue
      PROVE  Even(SubSeq(inbox'[q], Len(inbox[q]) + 1, Len(inbox'[q])))
  <2>0. TypeOK /\ DrainsEachOnce /\ RecordsOwned /\ PushedOnce /\ LanesKeepOrder
    BY <1>1 DEF IInv, LaneGaugeExact
  <2> DEFINE i == inbox[q]
             m == Merged(q)
  <2>1. i \in Seq(Log) /\ m \in Seq(Log) /\ Len(i) \in Nat /\ Len(m) \in Nat
    <3>1. i \in Seq(Log) /\ m \in Seq(Log)
      BY <2>0, MergedType DEF TypeOK
    <3> QED BY <3>1
  <2>2. CASE FinishDrain
    <3>1. wpc = "take" /\ inbox'[q] = i \o m
      BY <2>2 DEF FinishDrain
    <3>2. Even(m)
      BY <2>0, <3>1, MergedIsEven
    <3> HIDE DEF i, m
    <3>3. SubSeq(i \o m, Len(i) + 1, Len(i \o m)) = m
      <4>1. Len(i \o m) = Len(i) + Len(m) /\ \A k \in 1 .. Len(m) : (i \o m)[Len(i) + k] = m[k] /\ m[k] \in Log
        BY <2>1
      <4> DEFINE s == SubSeq(i \o m, Len(i) + 1, Len(i \o m))
      <4>2. \A k \in Len(i) + 1 .. Len(i) + Len(m) : (i \o m)[k] \in Log
        BY <2>1
      <4>3. /\ s \in Seq(Log)
            /\ Len(s) = IF Len(i) + 1 <= Len(i) + Len(m) THEN (Len(i) + Len(m)) - (Len(i) + 1) + 1 ELSE 0
            /\ \A k \in 1 .. (Len(i) + Len(m)) - (Len(i) + 1) + 1 : s[k] = (i \o m)[Len(i) + 1 + k - 1]
        <5>1. Len(i) + 1 \in Int /\ Len(i) + Len(m) \in Int
          BY <2>1
        <5> QED BY <4>1, <4>2, <5>1, SubSeqProperties
      <4> HIDE DEF s
      <4>4. Len(s) = Len(m) /\ \A k \in 1 .. Len(m) : s[k] = (i \o m)[Len(i) + k]
        <5>1. (Len(i) + Len(m)) - (Len(i) + 1) + 1 = Len(m)
          BY <2>1
        <5>2. Len(s) = Len(m)
          BY <2>1, <4>3, <5>1
        <5>3. \A k \in 1 .. Len(m) : s[k] = (i \o m)[Len(i) + 1 + k - 1]
          BY <4>3, <5>1
        <5>4. \A k \in 1 .. Len(m) : Len(i) + 1 + k - 1 = Len(i) + k
          BY <2>1
        <5> QED BY <5>2, <5>3, <5>4
      <4>5. s = m
        BY <2>1, <4>1, <4>3, <4>4, SeqEqual
      <4> QED BY <4>5 DEF s
    <3>4. Len(i) = Len(inbox[q])
      BY DEF i
    <3> QED BY <3>1, <3>2, <3>3, <3>4
  <2>3. CASE ~FinishDrain
    <3>1. inbox' = inbox
      BY <1>1, <2>3 DEF Next, Drain, Return, vars, workerVars, Register, CountLane, Submit, Push, Wake, Exit,
                        ExitWakes, Awaken, StartDrain, Take, ReleaseSink, Clear
    <3>2. SubSeq(inbox'[q], Len(inbox[q]) + 1, Len(inbox'[q])) = <<>>
      <4>1. inbox'[q] = i
        BY <3>1
      <4> HIDE DEF i
      <4>2. Len(i) + 1 \in Int /\ Len(i) \in Int /\ Len(i) < Len(i) + 1
        BY <2>1
      <4>3. SubSeq(i, Len(i) + 1, Len(i)) = <<>>
        BY <4>2, SubSeqEmpty
      <4>4. i = inbox[q]
        BY DEF i
      <4> QED BY <4>1, <4>3, <4>4
    <3>3. Even(<<>>)
      <4> SUFFICES ASSUME NEW n \in 0 .. Len(<<>>), NEW u \in Thread, Count(<<>>, u, n) < Count(<<>>, u, Len(<<>>))
                   PROVE FALSE
        BY DEF Even
      <4>1. n = Len(<<>>)
        OBVIOUS
      <4>2. <<>> \in Seq(Log)
        OBVIOUS
      <4>3. Count(<<>>, u, Len(<<>>)) = Len(Only(<<>>, OfThread(u)))
        BY <4>2, CountIsOnly
      <4>4. Len(Only(<<>>, OfThread(u))) = 0
        BY OnlyEmpty
      <4> QED BY <4>1, <4>3, <4>4
    <3> QED BY <3>2, <3>3
  <2> QED BY <2>2, <2>3
<1>2. IInv /\ [Next]_vars =>
        [\A q \in Queue : Even(SubSeq(inbox'[q], Len(inbox[q]) + 1, Len(inbox'[q])))]_vars
  BY <1>1
<1> QED BY <1>2, LanesInvariant, PTL DEF Spec, DrainIsFair
=============================================================================
