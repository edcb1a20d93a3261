--------------------------- MODULE ExporterProofs ---------------------------
(***************************************************************************)
(* Theorems about one exporter generation, for any finite sets of          *)
(* producers, records and flush callers, any capacities and any limits:    *)
(* the order and the place of every accepted record, the ticket watermark, *)
(* the promise of a drain, that the generation implements Delivery, what a *)
(* closing that gives up reports, that the requests it sends fit, and what *)
(* a client of force_flush may rely on.                                    *)
(***************************************************************************)
EXTENDS Exporter, SequenceFacts, FiniteSetTheorems

(* A record that is ahead of another is a different one and, if both come   *)
(* from one thread and one queue, the one accepted first.                   *)
Ahead(r, s) == r # s /\ (Thread[r] = Thread[s] /\ kind[r] = kind[s] => ticket[r] < ticket[s])
AllAhead(S, T) == \A r \in S, s \in T : Ahead(r, s)
Sorted(s) == \A i, j \in DOMAIN s : i < j => Ahead(s[i], s[j])

(* The records in each stage of the pipeline, from its end to its start.    *)
InGroups(st) == {r \in Log : \E g \in DOMAIN st : \E i \in DOMAIN st[g] : st[g][i] = r}
InPending(pe) == {r \in Log : \E i \in DOMAIN pe : pe[i] = r}
InInbox(in) == {r \in Log : \E q \in Queue : \E i \in DOMAIN in[q] : in[q][i] = r}
InLanes(la) == {r \in Log : \E p \in Producer, q \in Queue : \E i \in DOMAIN la[p][q] : la[p][q][i] = r}

LanesOK(la) ==
    /\ la \in [Producer -> [Queue -> Seq(Log)]]
    /\ \A p \in Producer, q \in Queue :
          /\ \A i \in DOMAIN la[p][q] : Thread[la[p][q][i]] = p /\ kind[la[p][q][i]] = q
          /\ Sorted(la[p][q])
InboxOK(in) ==
    /\ in \in [Queue -> Seq(Log)]
    /\ \A q \in Queue : Sorted(in[q]) /\ \A i \in DOMAIN in[q] : kind[in[q][i]] = q
PendingOK(pe) == pe \in Seq(Log) /\ Len(pe) \in 0 .. 1
GroupsOK(st) ==
    /\ st \in Seq(Seq(Log))
    /\ \A g \in DOMAIN st : st[g] # <<>> /\ Sorted(st[g])
    /\ \A g, k \in DOMAIN st : g < k =>
          \A i \in DOMAIN st[g], j \in DOMAIN st[k] : Ahead(st[g][i], st[k][j])

(* Every accepted record is in one stage, behind those that went before.    *)
Chain(S, P, I, L, C, out) ==
    /\ \A r \in S \cup P \cup I \cup L \cup C : out[r] = "accepted"
    /\ \A r \in Log : out[r] = "accepted" => r \in S \cup P \cup I \cup L \cup C
    /\ AllAhead(S, P \cup I \cup L \cup C)
    /\ AllAhead(P, I \cup L \cup C)
    /\ AllAhead(I, L \cup C)
    /\ AllAhead(L, C)

Pipeline(la, in, pe, st, out) ==
    /\ LanesOK(la) /\ InboxOK(in) /\ PendingOK(pe) /\ GroupsOK(st)
    /\ Chain(InGroups(st), InPending(pe), InInbox(in), InLanes(la), Pushing, out)

(* What holds a slot of a queue.                                            *)
Waiting(q, pe, st, out) ==
    {r \in Log : kind[r] = q /\ out[r] = "accepted" /\ r \notin InPending(pe) \cup InGroups(st)}
DepthExact(dp, pe, st, out) == \A q \in Queue : dp[q] = Cardinality(Waiting(q, pe, st, out))

(* Producers and their records.                                             *)
RecordInv ==
    /\ \A p \in Producer : /\ ppc[p] = "idle" => current[p] = None
                           /\ ppc[p] # "idle" => current[p] \in Log /\ Thread[current[p]] = p
                           /\ ppc[p] \in {"loaded", "claim"} => outcome[current[p]] = "none"
    /\ \A r \in Log : ticket[r] <= next_ticket /\ (ticket[r] > 0 <=> r \in AcceptedRecords)
    /\ \A r, s \in Log : ticket[r] = ticket[s] /\ ticket[r] > 0 => r = s
    /\ \A i \in 1 .. next_ticket : \E r \in Log : ticket[r] = i

Filling == {"fill", "gather", "batched"}
Exporting == {"send", "backoff", "terminal", "term_shutdown", "term_fence", "term_records"}
WorkerInv ==
    /\ wpc \in Filling => Len(stack) = 1
    /\ wpc \in Exporting => stack # <<>>
    /\ wpc \notin Filling \cup Exporting \cup Ended => stack = <<>>
    /\ wpc \in {"gather", "receive", "drained", "await_records"} => pending = <<>>

PipelineInv ==
    wpc \notin Ended => Pipeline(lane, input, pending, stack, outcome) /\ DepthExact(depth, pending, stack, outcome)

TrackerInv ==
    /\ completed_ticket <= next_ticket
    /\ out_of_order \subseteq (completed_ticket + 2) .. next_ticket
    /\ \A r \in Log : outcome[r] \in Resolved <=> ticket[r] \in (1 .. completed_ticket) \cup out_of_order

PromiseInv ==
    /\ hpc = "open" => /\ promised = {} /\ ~permit.shutdown /\ ~shutting_down
                       /\ report.by = "worker" => report.remaining > 0
    /\ promised \subseteq AcceptedRecords \ Pushing
    /\ wpc = "drained" => hpc # "open" /\ \A r \in promised : outcome[r] \in Resolved

IInv == TypeOK /\ RecordInv /\ WorkerInv /\ PipelineInv /\ TrackerInv /\ LaneOrderKept /\ PromiseInv /\ DrainKeepsPromise
-----------------------------------------------------------------------------
(* Sequences in order.                                                      *)

(* Two ordered sequences joined are ordered when all of the first is ahead *)
(* of all of the second: what a refresh does to an inbox.                  *)
LEMMA SortedConcat ==
  ASSUME NEW a \in Seq(Log), NEW b \in Seq(Log), Sorted(a), Sorted(b),
         \A i \in DOMAIN a, j \in DOMAIN b : Ahead(a[i], b[j])
  PROVE  Sorted(a \o b)
<1> DEFINE c == a \o b
<1>1. /\ DOMAIN c = 1 .. Len(a) + Len(b) /\ DOMAIN a = 1 .. Len(a) /\ DOMAIN b = 1 .. Len(b)
      /\ Len(a) \in Nat /\ Len(b) \in Nat
      /\ \A k \in 1 .. Len(a) : c[k] = a[k]
      /\ \A k \in Len(a) + 1 .. Len(a) + Len(b) : c[k] = b[k - Len(a)]
  BY ConcatElements
<1> HIDE DEF c
<1> SUFFICES ASSUME NEW i \in DOMAIN c, NEW j \in DOMAIN c, i < j PROVE Ahead(c[i], c[j])
  BY DEF Sorted, c
<1>2. CASE j \in 1 .. Len(a)
  <2>1. i \in DOMAIN a /\ j \in DOMAIN a /\ c[i] = a[i] /\ c[j] = a[j]
    BY <1>1, <1>2
  <2> QED BY <2>1 DEF Sorted
<1>3. CASE i \in Len(a) + 1 .. Len(a) + Len(b)
  <2>1. /\ i - Len(a) \in DOMAIN b /\ j - Len(a) \in DOMAIN b /\ i - Len(a) < j - Len(a)
        /\ c[i] = b[i - Len(a)] /\ c[j] = b[j - Len(a)]
    BY <1>1, <1>3
  <2> QED BY <2>1 DEF Sorted
<1>4. CASE i \in 1 .. Len(a) /\ j \in Len(a) + 1 .. Len(a) + Len(b)
  <2>1. i \in DOMAIN a /\ j - Len(a) \in DOMAIN b /\ c[i] = a[i] /\ c[j] = b[j - Len(a)]
    BY <1>1, <1>4
  <2> QED BY <2>1
<1> QED BY <1>1, <1>2, <1>3, <1>4

(* A single record is ordered.                                             *)
LEMMA SortedOne == ASSUME NEW r \in Log PROVE <<r>> \in Seq(Log) /\ Sorted(<<r>>)
BY DEF Sorted

(* A record behind all of a sequence keeps its order when it is pushed at  *)
(* the end.                                                                *)
LEMMA SortedAppend ==
  ASSUME NEW a \in Seq(Log), NEW r \in Log, Sorted(a), \A i \in DOMAIN a : Ahead(a[i], r)
  PROVE  /\ Append(a, r) \in Seq(Log) /\ Sorted(Append(a, r))
         /\ DOMAIN Append(a, r) = 1 .. Len(a) + 1 /\ Append(a, r)[Len(a) + 1] = r
         /\ \A i \in DOMAIN a : Append(a, r)[i] = a[i]
<1> DEFINE c == Append(a, r)
<1>1. /\ c \in Seq(Log) /\ DOMAIN c = 1 .. Len(a) + 1 /\ c[Len(a) + 1] = r
      /\ \A i \in DOMAIN a : c[i] = a[i]
      /\ DOMAIN a = 1 .. Len(a) /\ Len(a) \in Nat
  OBVIOUS
<1> HIDE DEF c
<1>2. ASSUME NEW i \in DOMAIN c, NEW j \in DOMAIN c, i < j PROVE Ahead(c[i], c[j])
  <2>1. CASE j \in DOMAIN a
    <3>1. i \in DOMAIN a /\ c[i] = a[i] /\ c[j] = a[j]
      BY <1>1, <1>2, <2>1
    <3> QED BY <3>1, <2>1, <1>2 DEF Sorted
  <2>2. CASE j = Len(a) + 1
    <3>1. i \in DOMAIN a /\ c[i] = a[i] /\ c[j] = r
      BY <1>1, <1>2, <2>2
    <3> QED BY <3>1
  <2> QED BY <1>1, <2>1, <2>2
<1> QED BY <1>1, <1>2 DEF Sorted, c

(* What pop_front leaves is ordered and behind what it took.               *)
LEMMA SortedTail ==
  ASSUME NEW a \in Seq(Log), a # <<>>, Sorted(a)
  PROVE  /\ Head(a) \in Log /\ Tail(a) \in Seq(Log) /\ Sorted(Tail(a))
         /\ 1 \in DOMAIN a /\ a[1] = Head(a)
         /\ \A i \in DOMAIN Tail(a) : i + 1 \in DOMAIN a /\ Tail(a)[i] = a[i + 1]
         /\ \A i \in DOMAIN a : i = 1 \/ (i - 1 \in DOMAIN Tail(a) /\ a[i] = Tail(a)[i - 1])
         /\ \A i \in DOMAIN Tail(a) : Ahead(Head(a), Tail(a)[i])
<1> DEFINE c == Tail(a)
<1>1. /\ c \in Seq(Log) /\ Len(a) \in Nat \ {0} /\ DOMAIN c = 1 .. Len(a) - 1 /\ Head(a) = a[1]
      /\ \A i \in 1 .. Len(a) - 1 : c[i] = a[i + 1]
      /\ DOMAIN a = 1 .. Len(a) /\ a[1] \in Log
  OBVIOUS
<1> HIDE DEF c
<1>2. ASSUME NEW i \in DOMAIN c, NEW j \in DOMAIN c, i < j PROVE Ahead(c[i], c[j])
  <2>1. i + 1 \in DOMAIN a /\ j + 1 \in DOMAIN a /\ i + 1 < j + 1 /\ c[i] = a[i + 1] /\ c[j] = a[j + 1]
    BY <1>1, <1>2
  <2> QED BY <2>1 DEF Sorted
<1>3. \A i \in DOMAIN c : i + 1 \in DOMAIN a /\ c[i] = a[i + 1]
  BY <1>1
<1>4. ASSUME NEW i \in DOMAIN a, i # 1 PROVE i - 1 \in DOMAIN c /\ a[i] = c[i - 1]
  BY <1>1, <1>4
<1>5. ASSUME NEW i \in DOMAIN c PROVE Ahead(a[1], c[i])
  <2>1. i + 1 \in DOMAIN a /\ 1 \in DOMAIN a /\ 1 < i + 1 /\ c[i] = a[i + 1]
    BY <1>1
  <2> QED BY <2>1 DEF Sorted
<1> QED BY <1>1, <1>2, <1>3, <1>4, <1>5 DEF Sorted, c

(* A part of an ordered sequence, as split_off makes two, is ordered.      *)
LEMMA SortedSubSeq ==
  ASSUME NEW a \in Seq(Log), Sorted(a), NEW m \in 1 .. Len(a) + 1, NEW n \in 0 .. Len(a)
  PROVE  /\ SubSeq(a, m, n) \in Seq(Log) /\ Sorted(SubSeq(a, m, n))
         /\ Len(SubSeq(a, m, n)) = IF m <= n THEN n - m + 1 ELSE 0
         /\ \A i \in DOMAIN SubSeq(a, m, n) : m + i - 1 \in m .. n /\ SubSeq(a, m, n)[i] = a[m + i - 1]
<1> DEFINE c == SubSeq(a, m, n)
<1>1. /\ c \in Seq(Log) /\ Len(c) = IF m <= n THEN n - m + 1 ELSE 0
      /\ DOMAIN c = 1 .. Len(c) /\ DOMAIN a = 1 .. Len(a) /\ Len(a) \in Nat
  OBVIOUS
<1>2. \A i \in DOMAIN c : m + i - 1 \in m .. n /\ c[i] = a[m + i - 1]
  BY <1>1, SMTT(40)
<1> HIDE DEF c
<1>3. ASSUME NEW i \in DOMAIN c, NEW j \in DOMAIN c, i < j PROVE Ahead(c[i], c[j])
  <2>1. /\ m + i - 1 \in DOMAIN a /\ m + j - 1 \in DOMAIN a /\ m + i - 1 < m + j - 1
        /\ c[i] = a[m + i - 1] /\ c[j] = a[m + j - 1]
    BY <1>1, <1>2, <1>3, SMTT(40)
  <2> QED BY <2>1 DEF Sorted
<1> QED BY <1>1, <1>2, <1>3 DEF Sorted, c
-----------------------------------------------------------------------------
(* The drain of the lanes into the inbox.                                   *)

LaneRun(la, o, q) == FlattenSeq([i \in DOMAIN o |-> la[o[i]][q]])

IsRun(flat, la, q) ==
    /\ flat \in Seq(Log) /\ Sorted(flat)
    /\ \A k \in DOMAIN flat : /\ kind[flat[k]] = q
                              /\ \E p \in Producer : \E i \in DOMAIN la[p][q] : la[p][q][i] = flat[k]
    /\ \A p \in Producer : \A i \in DOMAIN la[p][q] : \E k \in DOMAIN flat : flat[k] = la[p][q][i]

(* The lanes of one queue drained in any order of the lanes form one       *)
(* ordered run: two records of one lane keep their order, those of         *)
(* different lanes have none.                                              *)
LEMMA LaneFlat ==
  ASSUME NEW la, LanesOK(la), NEW o \in LaneOrders, NEW q \in Queue, NEW flat, flat = LaneRun(la, o, q)
  PROVE  IsRun(flat, la, q)
<1> DEFINE N == Cardinality(Producer)
           seqs == [i \in DOMAIN o |-> la[o[i]][q]]
<1>1. /\ N \in Nat
      /\ o \in [1 .. N -> Producer]
      /\ \A i, j \in 1 .. N : o[i] = o[j] => i = j
      /\ \A p \in Producer : \E i \in 1 .. N : o[i] = p
  <2>1. N \in Nat
    BY FS_CardinalityType, ExporterAssumption
  <2> QED BY <2>1 DEF LaneOrders, Bijection, Injection, Surjection, IsInjective
<1>2. /\ DOMAIN o = 1 .. N
      /\ \A i \in 1 .. N : seqs[i] = la[o[i]][q] /\ seqs[i] \in Seq(Log)
  BY <1>1 DEF LanesOK
<1>3. seqs \in Seq(Seq(Log)) /\ Len(seqs) = N
  BY <1>1, <1>2
<1>4. \A p \in Producer : /\ \A i \in DOMAIN la[p][q] : Thread[la[p][q][i]] = p /\ kind[la[p][q][i]] = q
                          /\ Sorted(la[p][q])
  BY DEF LanesOK
<1> HIDE DEF seqs, N
<1>5. PICK G, I \in [DOMAIN flat -> Nat] : Places(flat, N, seqs, G, I)
  BY <1>3, FlattenPlaces DEF seqs, LaneRun
<1>6. flat \in Seq(Log)
  BY <1>3, FlattenPlaces DEF seqs, LaneRun
<1>7. ASSUME NEW k \in DOMAIN flat
      PROVE  /\ G[k] \in 1 .. N /\ o[G[k]] \in Producer
             /\ I[k] \in DOMAIN la[o[G[k]]][q] /\ flat[k] = la[o[G[k]]][q][I[k]]
  BY <1>1, <1>2, <1>5 DEF Places
<1>8. ASSUME NEW k \in DOMAIN flat, NEW l \in DOMAIN flat, k < l PROVE Ahead(flat[k], flat[l])
  <2>1. G[k] < G[l] \/ (G[k] = G[l] /\ I[k] < I[l])
    BY <1>5, <1>8 DEF Places
  <2>2. CASE G[k] = G[l] /\ I[k] < I[l]
    <3>1. /\ Sorted(la[o[G[k]]][q])
          /\ I[k] \in DOMAIN la[o[G[k]]][q] /\ I[l] \in DOMAIN la[o[G[k]]][q]
          /\ flat[k] = la[o[G[k]]][q][I[k]] /\ flat[l] = la[o[G[k]]][q][I[l]]
      BY <1>4, <1>7, <2>2
    <3> QED BY <3>1, <2>2 DEF Sorted
  <2>3. CASE G[k] < G[l]
    <3>1. o[G[k]] # o[G[l]]
      BY <1>1, <1>7, <2>3
    <3>2. Thread[flat[k]] = o[G[k]] /\ Thread[flat[l]] = o[G[l]]
      BY <1>4, <1>7
    <3> QED BY <3>1, <3>2 DEF Ahead
  <2> QED BY <2>1, <2>2, <2>3
<1>9. ASSUME NEW p \in Producer, NEW i \in DOMAIN la[p][q] PROVE \E k \in DOMAIN flat : flat[k] = la[p][q][i]
  <2>1. PICK j \in 1 .. N : o[j] = p
    BY <1>1
  <2>2. seqs[j] = la[p][q]
    BY <1>2, <2>1
  <2>3. PICK k \in DOMAIN flat : G[k] = j /\ I[k] = i
    BY <1>5, <2>2 DEF Places
  <2> QED BY <2>1, <2>3, <1>7
<1>10. ASSUME NEW k \in DOMAIN flat
       PROVE kind[flat[k]] = q /\ \E p \in Producer : \E i \in DOMAIN la[p][q] : la[p][q][i] = flat[k]
  BY <1>4, <1>7
<1> QED BY <1>6, <1>8, <1>9, <1>10 DEF Sorted, IsRun

(* A refresh moves all records of the lanes behind those of the inbox.     *)
LEMMA RefreshMoves ==
  ASSUME NEW la, NEW in, NEW new, NEW o \in LaneOrders,
         LanesOK(la), InboxOK(in), AllAhead(InInbox(in), InLanes(la)),
         new = [q \in Queue |-> in[q] \o LaneRun(la, o, q)]
  PROVE  InboxOK(new) /\ InInbox(new) = InInbox(in) \cup InLanes(la)
<1>1. ASSUME NEW q \in Queue
      PROVE  /\ new[q] \in Seq(Log) /\ Sorted(new[q])
             /\ \A k \in DOMAIN new[q] : kind[new[q][k]] = q
             /\ \A r \in Log : (\E k \in DOMAIN new[q] : new[q][k] = r) <=>
                   \/ \E k \in DOMAIN in[q] : in[q][k] = r
                   \/ \E p \in Producer : \E i \in DOMAIN la[p][q] : la[p][q][i] = r
  <2> DEFINE a == in[q]
             b == LaneRun(la, o, q)
             c == new[q]
  <2>1. a \in Seq(Log) /\ Sorted(a) /\ \A k \in DOMAIN a : kind[a[k]] = q
    BY DEF InboxOK
  <2>0. b = LaneRun(la, o, q)
    OBVIOUS
  <2>4. c = a \o b
    OBVIOUS
  <2> HIDE DEF b
  <2>2. /\ b \in Seq(Log) /\ Sorted(b)
        /\ \A k \in DOMAIN b : /\ kind[b[k]] = q
                               /\ \E p \in Producer : \E i \in DOMAIN la[p][q] : la[p][q][i] = b[k]
        /\ \A p \in Producer : \A i \in DOMAIN la[p][q] : \E k \in DOMAIN b : b[k] = la[p][q][i]
    <3>1. IsRun(b, la, q)
      BY LaneFlat, <2>0
    <3> QED BY <3>1 DEF IsRun
  <2>3. \A k \in DOMAIN a : a[k] \in InInbox(in)
    BY <2>1 DEF InInbox
  <2>5. \A k \in DOMAIN b : b[k] \in InLanes(la)
    BY <2>2 DEF InLanes
  <2> HIDE DEF a, c
  <2>6. \A i \in DOMAIN a, j \in DOMAIN b : Ahead(a[i], b[j])
    BY <2>3, <2>5 DEF AllAhead
  <2>7. Sorted(a \o b)
    BY SortedConcat, <2>1, <2>2, <2>6
  <2>8. /\ a \o b \in Seq(Log)
        /\ DOMAIN (a \o b) = 1 .. Len(a) + Len(b)
        /\ \A k \in 1 .. Len(a) : (a \o b)[k] = a[k]
        /\ \A k \in Len(a) + 1 .. Len(a) + Len(b) : (a \o b)[k] = b[k - Len(a)]
    BY ConcatElements, <2>1, <2>2
  <2>9. /\ c \in Seq(Log) /\ DOMAIN c = 1 .. Len(a) + Len(b)
        /\ \A k \in 1 .. Len(a) : c[k] = a[k]
        /\ \A k \in Len(a) + 1 .. Len(a) + Len(b) : c[k] = b[k - Len(a)]
        /\ DOMAIN a = 1 .. Len(a) /\ DOMAIN b = 1 .. Len(b) /\ Len(a) \in Nat /\ Len(b) \in Nat
    BY <2>1, <2>2, <2>4, <2>8
  <2>10. ASSUME NEW k \in DOMAIN c
         PROVE  \/ k \in DOMAIN a /\ c[k] = a[k]
                \/ k - Len(a) \in DOMAIN b /\ c[k] = b[k - Len(a)]
    <3>1. k \in 1 .. Len(a) \/ k \in Len(a) + 1 .. Len(a) + Len(b)
      BY <2>9
    <3>2. CASE k \in 1 .. Len(a)
      BY <2>9, <3>2
    <3>3. CASE k \in Len(a) + 1 .. Len(a) + Len(b)
      <4>1. k - Len(a) \in 1 .. Len(b)
        BY <2>9, <3>3
      <4> QED BY <2>9, <3>3, <4>1
    <3> QED BY <3>1, <3>2, <3>3
  <2>11. ASSUME NEW k \in DOMAIN b PROVE k + Len(a) \in DOMAIN c /\ c[k + Len(a)] = b[k]
    <3>1. k + Len(a) \in Len(a) + 1 .. Len(a) + Len(b) /\ (k + Len(a)) - Len(a) = k
      BY <2>9
    <3> QED BY <2>9, <3>1
  <2>12. \A k \in DOMAIN a : k \in DOMAIN c /\ c[k] = a[k]
    BY <2>9
  <2>13. \A k \in DOMAIN c : kind[c[k]] = q
    BY <2>10, <2>1, <2>2
  <2>14. ASSUME NEW r \in Log
         PROVE  (\E k \in DOMAIN c : c[k] = r) <=>
                   \/ \E k \in DOMAIN a : a[k] = r
                   \/ \E p \in Producer : \E i \in DOMAIN la[p][q] : la[p][q][i] = r
    <3>1. (\E k \in DOMAIN c : c[k] = r) <=> (\E k \in DOMAIN a : a[k] = r) \/ (\E k \in DOMAIN b : b[k] = r)
      BY <2>10, <2>11, <2>12
    <3>2. (\E k \in DOMAIN b : b[k] = r) => \E p \in Producer : \E i \in DOMAIN la[p][q] : la[p][q][i] = r
      BY <2>2
    <3>3. (\E p \in Producer : \E i \in DOMAIN la[p][q] : la[p][q][i] = r) => \E k \in DOMAIN b : b[k] = r
      <4> SUFFICES ASSUME NEW p \in Producer, NEW i \in DOMAIN la[p][q], la[p][q][i] = r
                   PROVE  \E k \in DOMAIN b : b[k] = r
        OBVIOUS
      <4> QED BY <2>2
    <3> QED BY <3>1, <3>2, <3>3
  <2> QED BY <2>4, <2>7, <2>9, <2>13, <2>14 DEF a, c
<1>2. DOMAIN new = Queue /\ new = [q \in Queue |-> new[q]]
  OBVIOUS
<1>3. InboxOK(new)
  BY <1>1, <1>2 DEF InboxOK
<1>4. ASSUME NEW r \in Log PROVE r \in InInbox(new) <=> r \in InInbox(in) \cup InLanes(la)
  <2>1. r \in InInbox(new) <=> \E q \in Queue : \E k \in DOMAIN new[q] : new[q][k] = r
    BY DEF InInbox
  <2>2. r \in InInbox(in) <=> \E q \in Queue : \E k \in DOMAIN in[q] : in[q][k] = r
    BY DEF InInbox
  <2>3. r \in InLanes(la) <=> \E q \in Queue : \E p \in Producer : \E i \in DOMAIN la[p][q] : la[p][q][i] = r
    BY DEF InLanes
  <2> QED BY <1>1, <2>1, <2>2, <2>3
<1>5. InInbox(new) \subseteq Log /\ InInbox(in) \subseteq Log /\ InLanes(la) \subseteq Log
  BY DEF InInbox, InLanes
<1> QED BY <1>3, <1>4, <1>5

(* A refresh keeps the pipeline: no record is lost, doubled or overtaken,  *)
(* and the lanes are empty after it.                                       *)
LEMMA RefreshKeeps ==
  ASSUME NEW la, NEW in, NEW pe, NEW st, NEW out, NEW new, NEW o \in LaneOrders,
         Pipeline(la, in, pe, st, out),
         new = [q \in Queue |-> in[q] \o LaneRun(la, o, q)]
  PROVE  Pipeline(NoLanes, new, pe, st, out)
<1>1. /\ LanesOK(la) /\ InboxOK(in) /\ AllAhead(InInbox(in), InLanes(la))
      /\ Chain(InGroups(st), InPending(pe), InInbox(in), InLanes(la), Pushing, out)
      /\ PendingOK(pe) /\ GroupsOK(st)
  <2>1. AllAhead(InInbox(in), InLanes(la) \cup Pushing)
    BY DEF Pipeline, Chain
  <2> QED BY <2>1 DEF Pipeline, AllAhead
<1>2. InboxOK(new) /\ InInbox(new) = InInbox(in) \cup InLanes(la)
  BY <1>1, RefreshMoves
<1>3. LanesOK(NoLanes) /\ InLanes(NoLanes) = {}
  BY DEF LanesOK, NoLanes, InLanes, Sorted
<1>4. Chain(InGroups(st), InPending(pe), InInbox(in) \cup InLanes(la), {}, Pushing, out)
  BY <1>1 DEF Chain, AllAhead
<1> QED BY <1>1, <1>2, <1>3, <1>4 DEF Pipeline
-----------------------------------------------------------------------------
(* A record leaves the inbox, enters a group, is settled or split off.      *)

(* The overflow slot of the worker holds one record or none.               *)
LEMMA PendingSets == InPending(<<>>) = {} /\ \A r \in Log : InPending(<<r>>) = {r} /\ PendingOK(<<r>>) /\ PendingOK(<<>>)
BY DEF InPending, PendingOK

(* The records that hold a slot are finitely many.                         *)
LEMMA WaitingFinite ==
  ASSUME NEW q, NEW pe, NEW st, NEW out PROVE IsFiniteSet(Waiting(q, pe, st, out))
BY FS_Subset, ExporterAssumption DEF Waiting

(* The record received is the first in its inbox, goes to the worker's     *)
(* hand and frees its slot.                                                *)
LEMMA ReceiveKeeps ==
  ASSUME NEW la, NEW in, NEW st, NEW out, NEW dp \in [Queue -> Nat], NEW r, NEW new, NEW less,
         Pipeline(la, in, <<>>, st, out), DepthExact(dp, <<>>, st, out),
         ~IsDry(in), r = Received(in), kind \in [Log -> Queue],
         new = [in EXCEPT ![FrontQueue(in)] = Tail(@)],
         less = [dp EXCEPT ![kind[r]] = @ - 1]
  PROVE  /\ r \in Log /\ Pipeline(la, new, <<r>>, st, out)
         /\ less \in [Queue -> Nat] /\ DepthExact(less, <<r>>, st, out)
<1> DEFINE q == FrontQueue(in)
           S == InGroups(st)
           I == InInbox(in)
           L == InLanes(la)
<1>1. /\ LanesOK(la) /\ InboxOK(in) /\ GroupsOK(st)
      /\ Chain(S, {}, I, L, Pushing, out)
  BY PendingSets DEF Pipeline
<1>2. q \in Queue /\ in[q] # <<>> /\ r = Head(in[q])
  BY DEF IsDry, FrontQueue, Queue, Received
<1>3. /\ in \in [Queue -> Seq(Log)]
      /\ \A x \in Queue : Sorted(in[x]) /\ \A i \in DOMAIN in[x] : kind[in[x][i]] = x
  BY <1>1 DEF InboxOK
<1>4. new = [in EXCEPT ![q] = Tail(@)]
  OBVIOUS
<1> HIDE DEF q
<1>5. /\ r \in Log /\ Tail(in[q]) \in Seq(Log) /\ Sorted(Tail(in[q]))
      /\ 1 \in DOMAIN in[q] /\ in[q][1] = r
      /\ \A i \in DOMAIN Tail(in[q]) : i + 1 \in DOMAIN in[q] /\ Tail(in[q])[i] = in[q][i + 1]
      /\ \A i \in DOMAIN in[q] : i = 1 \/ (i - 1 \in DOMAIN Tail(in[q]) /\ in[q][i] = Tail(in[q])[i - 1])
      /\ \A i \in DOMAIN Tail(in[q]) : Ahead(r, Tail(in[q])[i])
  BY SortedTail, <1>2, <1>3
<1>6. kind[r] = q /\ r \in I
  BY <1>2, <1>3, <1>5 DEF InInbox
<1>7. new[q] = Tail(in[q]) /\ \A x \in Queue : x # q => new[x] = in[x]
  BY <1>2, <1>3, <1>4
<1>8. InboxOK(new)
  <2>1. new \in [Queue -> Seq(Log)]
    BY <1>2, <1>3, <1>4, <1>5
  <2>2. ASSUME NEW x \in Queue PROVE Sorted(new[x]) /\ \A i \in DOMAIN new[x] : kind[new[x][i]] = x
    BY <1>2, <1>3, <1>5, <1>7
  <2> QED BY <2>1, <2>2 DEF InboxOK
<1>9. \A x \in Log : x \in I <=> x = r \/ x \in InInbox(new)
  <2>1. ASSUME NEW x \in Log, x \in I PROVE x = r \/ x \in InInbox(new)
    <3>1. PICK y \in Queue : \E i \in DOMAIN in[y] : in[y][i] = x
      BY <2>1 DEF InInbox
    <3>2. CASE y = q
      <4>1. PICK i \in DOMAIN in[q] : in[q][i] = x
        BY <3>1, <3>2
      <4>2. i = 1 \/ (i - 1 \in DOMAIN new[q] /\ new[q][i - 1] = x)
        BY <4>1, <1>5, <1>7
      <4>3. CASE i = 1
        BY <4>1, <4>3, <1>5
      <4>4. CASE i - 1 \in DOMAIN new[q] /\ new[q][i - 1] = x
        BY <4>4, <1>2 DEF InInbox
      <4> QED BY <4>2, <4>3, <4>4
    <3>3. CASE y # q
      BY <3>1, <3>3, <1>7 DEF InInbox
    <3> QED BY <3>2, <3>3
  <2>2. ASSUME NEW x \in Log, x \in InInbox(new) PROVE x \in I
    <3>1. PICK y \in Queue : \E i \in DOMAIN new[y] : new[y][i] = x
      BY <2>2 DEF InInbox
    <3>2. CASE y = q
      BY <3>1, <3>2, <1>5, <1>7, <1>2 DEF InInbox
    <3>3. CASE y # q
      BY <3>1, <3>3, <1>7 DEF InInbox
    <3> QED BY <3>2, <3>3
  <2> QED BY <1>6, <2>1, <2>2
<1>10. \A x \in InInbox(new) : Ahead(r, x)
  <2>1. ASSUME NEW x \in InInbox(new) PROVE Ahead(r, x)
    <3>1. PICK y \in Queue : \E i \in DOMAIN new[y] : new[y][i] = x
      BY <2>1 DEF InInbox
    <3>2. CASE y = q
      <4>1. PICK i \in DOMAIN new[q] : new[q][i] = x
        BY <3>1, <3>2
      <4>2. Ahead(r, new[q][i])
        BY <1>5, <1>7
      <4> QED BY <4>1, <4>2
    <3>3. CASE y # q
      <4>1. kind[x] = y
        BY <3>1, <1>8 DEF InboxOK
      <4> QED BY <4>1, <3>3, <1>6 DEF Ahead
    <3> QED BY <3>2, <3>3
  <2> QED BY <2>1
<1>11. I \subseteq Log /\ InInbox(new) \subseteq Log
  BY DEF InInbox
<1>12. Chain(S, {r}, InInbox(new), L, Pushing, out)
  BY <1>1, <1>9, <1>10, <1>11, <1>5, ZenonT(40) DEF Chain, AllAhead
<1>13. Pipeline(la, new, <<r>>, st, out)
  BY <1>1, <1>5, <1>8, <1>12, PendingSets DEF Pipeline
<1>14. out[r] = "accepted" /\ r \notin S
  BY <1>1, <1>6 DEF Chain, AllAhead, Ahead
<1>15. \A x \in Queue : Waiting(x, <<r>>, st, out) = Waiting(x, <<>>, st, out) \ {r}
  BY <1>5, PendingSets DEF Waiting
<1>16. r \in Waiting(q, <<>>, st, out) /\ \A x \in Queue : x # q => r \notin Waiting(x, <<>>, st, out)
  BY <1>5, <1>6, <1>14, PendingSets DEF Waiting
<1>17. ASSUME NEW x \in Queue
       PROVE  /\ Cardinality(Waiting(x, <<r>>, st, out)) = IF x = q THEN dp[x] - 1 ELSE dp[x]
              /\ Cardinality(Waiting(x, <<r>>, st, out)) \in Nat
  <2>1. IsFiniteSet(Waiting(x, <<>>, st, out)) /\ IsFiniteSet(Waiting(x, <<r>>, st, out))
    BY WaitingFinite
  <2>2. dp[x] = Cardinality(Waiting(x, <<>>, st, out))
    BY DEF DepthExact
  <2>3. Cardinality(Waiting(x, <<>>, st, out) \ {r}) =
           IF r \in Waiting(x, <<>>, st, out) THEN Cardinality(Waiting(x, <<>>, st, out)) - 1
                                              ELSE Cardinality(Waiting(x, <<>>, st, out))
    BY FS_RemoveElement, <2>1
  <2>4. Cardinality(Waiting(x, <<r>>, st, out)) \in Nat
    BY FS_CardinalityType, <2>1
  <2>5. Waiting(x, <<r>>, st, out) = Waiting(x, <<>>, st, out) \ {r}
    BY <1>15
  <2> QED BY <2>2, <2>3, <2>4, <2>5, <1>16
<1>18. less = [x \in Queue |-> IF x = q THEN dp[x] - 1 ELSE dp[x]]
  BY <1>2, <1>6
<1>19. \A x \in Queue : less[x] = IF x = q THEN dp[x] - 1 ELSE dp[x]
  BY <1>18
<1>20. \A x \in Queue : less[x] \in Nat /\ less[x] = Cardinality(Waiting(x, <<r>>, st, out))
  BY <1>17, <1>19
<1>21. less \in [Queue -> Nat] /\ DepthExact(less, <<r>>, st, out)
  BY <1>18, <1>20 DEF DepthExact
<1> QED BY <1>5, <1>13, <1>21

(* The records of the empty stack of groups, and of a stack of one group.  *)
LEMMA GroupSets ==
  /\ InGroups(<<>>) = {} /\ GroupsOK(<<>>)
  /\ \A b \in Seq(Log) : InGroups(<<b>>) = {r \in Log : \E i \in DOMAIN b : b[i] = r}
  /\ \A b \in Seq(Log) : GroupsOK(<<b>>) <=> b # <<>> /\ Sorted(b)
<1>1. InGroups(<<>>) = {} /\ GroupsOK(<<>>)
  BY DEF InGroups, GroupsOK
<1>2. ASSUME NEW b \in Seq(Log)
      PROVE  /\ InGroups(<<b>>) = {r \in Log : \E i \in DOMAIN b : b[i] = r}
             /\ GroupsOK(<<b>>) <=> b # <<>> /\ Sorted(b)
  <2> DEFINE s == <<b>>
  <2>1. DOMAIN s = {1} /\ s[1] = b /\ s \in Seq(Seq(Log))
    OBVIOUS
  <2> HIDE DEF s
  <2>2. InGroups(s) = {r \in Log : \E i \in DOMAIN b : b[i] = r}
    BY <2>1 DEF InGroups
  <2>3. GroupsOK(s) <=> b # <<>> /\ Sorted(b)
    BY <2>1 DEF GroupsOK
  <2> QED BY <2>2, <2>3 DEF s
<1> QED BY <1>1, <1>2

(* An overflow or received record starts a group, or ends the one that is   *)
(* being filled.                                                            *)
LEMMA GroupStarts ==
  ASSUME NEW la, NEW in, NEW out, NEW dp, NEW r \in Log,
         Pipeline(la, in, <<r>>, <<>>, out), DepthExact(dp, <<r>>, <<>>, out)
  PROVE  Pipeline(la, in, <<>>, << <<r>> >>, out) /\ DepthExact(dp, <<>>, << <<r>> >>, out)
<1> DEFINE b == <<r>>
<1>1. b \in Seq(Log) /\ Sorted(b) /\ b # <<>>
  BY SortedOne
<1>2. {x \in Log : \E i \in DOMAIN b : b[i] = x} = {r}
  OBVIOUS
<1> HIDE DEF b
<1>3. GroupsOK(<<b>>) /\ InGroups(<<b>>) = {r}
  BY <1>1, <1>2, GroupSets
<1>4. Pipeline(la, in, <<>>, <<b>>, out)
  BY <1>3, GroupSets, PendingSets DEF Pipeline, Chain, AllAhead
<1>5. DepthExact(dp, <<>>, <<b>>, out)
  <2>1. \A q \in Queue : Waiting(q, <<>>, <<b>>, out) = Waiting(q, <<r>>, <<>>, out)
    BY <1>3, GroupSets, PendingSets DEF Waiting
  <2> QED BY <2>1 DEF DepthExact
<1> QED BY <1>4, <1>5 DEF b

(* The received record joins the end of the group that is being filled.    *)
LEMMA GroupGrows ==
  ASSUME NEW la, NEW in, NEW out, NEW dp, NEW r \in Log, NEW b \in Seq(Log),
         Pipeline(la, in, <<r>>, <<b>>, out), DepthExact(dp, <<r>>, <<b>>, out)
  PROVE  Pipeline(la, in, <<>>, <<Append(b, r)>>, out) /\ DepthExact(dp, <<>>, <<Append(b, r)>>, out)
<1> DEFINE c == Append(b, r)
<1>1. Sorted(b) /\ \A i \in DOMAIN b : b[i] \in InGroups(<<b>>)
  BY GroupSets DEF Pipeline
<1>2. \A i \in DOMAIN b : Ahead(b[i], r)
  BY <1>1, PendingSets DEF Pipeline, Chain, AllAhead
<1>3. /\ c \in Seq(Log) /\ Sorted(c) /\ DOMAIN c = 1 .. Len(b) + 1 /\ c[Len(b) + 1] = r
      /\ \A i \in DOMAIN b : c[i] = b[i]
  BY SortedAppend, <1>1, <1>2
<1>4. DOMAIN b = 1 .. Len(b) /\ Len(b) \in Nat
  OBVIOUS
<1> HIDE DEF c
<1>5. c # <<>>
  BY <1>3, <1>4
<1>6. GroupsOK(<<c>>)
  BY GroupSets, <1>3, <1>5
<1>7. {x \in Log : \E i \in DOMAIN c : c[i] = x} = {x \in Log : \E i \in DOMAIN b : b[i] = x} \cup {r}
  BY <1>3, <1>4
<1>8. InGroups(<<c>>) = InGroups(<<b>>) \cup {r}
  BY GroupSets, <1>3, <1>7
<1>9. Pipeline(la, in, <<>>, <<c>>, out)
  BY <1>6, <1>8, PendingSets DEF Pipeline, Chain, AllAhead
<1>10. DepthExact(dp, <<>>, <<c>>, out)
  <2>1. \A q \in Queue : Waiting(q, <<>>, <<c>>, out) = Waiting(q, <<r>>, <<b>>, out)
    BY <1>8, PendingSets DEF Waiting
  <2> QED BY <2>1 DEF DepthExact
<1> QED BY <1>9, <1>10 DEF c

(* An oversize record is settled where it is.                               *)
LEMMA OversizeSettles ==
  ASSUME NEW la, NEW in, NEW st, NEW out \in [Log -> Outcome], NEW dp, NEW r \in Log, NEW new,
         Pipeline(la, in, <<r>>, st, out), DepthExact(dp, <<r>>, st, out),
         new = [out EXCEPT ![r] = "oversize"], Pushing \subseteq Log
  PROVE  Pipeline(la, in, <<>>, st, new) /\ DepthExact(dp, <<>>, st, new)
<1>1. new[r] = "oversize" /\ \A x \in Log : x # r => new[x] = out[x]
  OBVIOUS
<1>2. Chain(InGroups(st), {r}, InInbox(in), InLanes(la), Pushing, out)
  BY PendingSets DEF Pipeline
<1>3. r \notin InGroups(st) \cup InInbox(in) \cup InLanes(la) \cup Pushing
  BY <1>2 DEF Chain, AllAhead, Ahead
<1>4. Chain(InGroups(st), {}, InInbox(in), InLanes(la), Pushing, new)
  <2>1. InGroups(st) \cup InInbox(in) \cup InLanes(la) \cup Pushing \subseteq Log
    BY DEF InGroups, InInbox, InLanes
  <2> QED BY <1>1, <1>2, <1>3, <2>1 DEF Chain, AllAhead
<1>5. Pipeline(la, in, <<>>, st, new)
  BY <1>4, PendingSets DEF Pipeline
<1>6. \A q \in Queue : Waiting(q, <<>>, st, new) = Waiting(q, <<r>>, st, out)
  BY <1>1, <1>3, PendingSets DEF Waiting
<1> QED BY <1>5, <1>6 DEF DepthExact
-----------------------------------------------------------------------------
(* The head group is settled or split.                                      *)

(* The head group is ahead of the rest of the stack.                       *)
LEMMA TailGroups ==
  ASSUME NEW st, GroupsOK(st), st # <<>>
  PROVE  /\ Head(st) \in Seq(Log) /\ Head(st) # <<>> /\ Sorted(Head(st))
         /\ GroupsOK(Tail(st)) /\ ToSet(Head(st)) \subseteq Log
         /\ InGroups(st) = ToSet(Head(st)) \cup InGroups(Tail(st))
         /\ AllAhead(ToSet(Head(st)), InGroups(Tail(st)))
         /\ DOMAIN Tail(st) = 1 .. Len(st) - 1 /\ DOMAIN st = 1 .. Len(st) /\ Len(st) \in Nat \ {0}
         /\ \A g \in DOMAIN Tail(st) : Tail(st)[g] = st[g + 1] /\ g + 1 \in DOMAIN st
<1> DEFINE h == Head(st)
           t == Tail(st)
<1>1. /\ st \in Seq(Seq(Log))
      /\ \A g \in DOMAIN st : st[g] # <<>> /\ Sorted(st[g]) /\ st[g] \in Seq(Log)
      /\ \A g, k \in DOMAIN st : g < k =>
            \A i \in DOMAIN st[g], j \in DOMAIN st[k] : Ahead(st[g][i], st[k][j])
  BY DEF GroupsOK
<1>2. /\ h = st[1] /\ t \in Seq(Seq(Log)) /\ Len(st) \in Nat \ {0}
      /\ DOMAIN st = 1 .. Len(st) /\ DOMAIN t = 1 .. Len(st) - 1
      /\ \A g \in DOMAIN t : t[g] = st[g + 1] /\ g + 1 \in DOMAIN st
      /\ 1 \in DOMAIN st
  BY <1>1
<1> HIDE DEF h, t
<1>3. h \in Seq(Log) /\ h # <<>> /\ Sorted(h) /\ ToSet(h) = {h[i] : i \in DOMAIN h} /\ ToSet(h) \subseteq Log
  <2>1. h \in Seq(Log) /\ h # <<>> /\ Sorted(h)
    BY <1>1, <1>2
  <2>2. \A i \in DOMAIN h : h[i] \in Log
    BY <2>1
  <2> QED BY <2>1, <2>2 DEF ToSet
<1>4. GroupsOK(t)
  <2>1. ASSUME NEW g \in DOMAIN t PROVE t[g] # <<>> /\ Sorted(t[g])
    BY <1>1, <1>2
  <2>2. ASSUME NEW g \in DOMAIN t, NEW k \in DOMAIN t, g < k,
               NEW i \in DOMAIN t[g], NEW j \in DOMAIN t[k]
        PROVE  Ahead(t[g][i], t[k][j])
    <3>1. g + 1 \in DOMAIN st /\ k + 1 \in DOMAIN st /\ g + 1 < k + 1 /\ t[g] = st[g + 1] /\ t[k] = st[k + 1]
      BY <1>2, <2>2
    <3> QED BY <1>1, <3>1
  <2> QED BY <1>2, <2>1, <2>2 DEF GroupsOK
<1>5. ASSUME NEW x \in Log
      PROVE  x \in InGroups(st) <=> x \in ToSet(h) \/ x \in InGroups(t)
  <2>1. ASSUME x \in InGroups(st) PROVE x \in ToSet(h) \/ x \in InGroups(t)
    <3>1. PICK g \in DOMAIN st : \E i \in DOMAIN st[g] : st[g][i] = x
      BY <2>1 DEF InGroups
    <3>2. CASE g = 1
      BY <3>1, <3>2, <1>2, <1>3
    <3>3. CASE g # 1
      <4>1. g - 1 \in DOMAIN t /\ t[g - 1] = st[g]
        BY <1>2, <3>3
      <4> QED BY <4>1, <3>1 DEF InGroups
    <3> QED BY <3>2, <3>3
  <2>2. ASSUME x \in ToSet(h) PROVE x \in InGroups(st)
    BY <2>2, <1>2, <1>3 DEF InGroups
  <2>3. ASSUME x \in InGroups(t) PROVE x \in InGroups(st)
    BY <2>3, <1>2 DEF InGroups
  <2> QED BY <2>1, <2>2, <2>3
<1>6. InGroups(st) \subseteq Log /\ InGroups(t) \subseteq Log
  BY DEF InGroups
<1>7. ASSUME NEW x \in ToSet(h), NEW y \in InGroups(t) PROVE Ahead(x, y)
  <2>1. PICK i \in DOMAIN h : h[i] = x
    BY <1>3
  <2>2. PICK g \in DOMAIN t : \E j \in DOMAIN t[g] : t[g][j] = y
    BY DEF InGroups
  <2>3. PICK j \in DOMAIN t[g] : t[g][j] = y
    BY <2>2
  <2>4. g + 1 \in DOMAIN st /\ 1 < g + 1 /\ t[g] = st[g + 1] /\ 1 \in DOMAIN st /\ h = st[1]
    BY <1>2
  <2> QED BY <1>1, <2>1, <2>3, <2>4
<1> QED BY <1>2, <1>3, <1>4, <1>5, <1>6, <1>7 DEF AllAhead, h, t

Answered(out, S, lost) ==
    [r \in Log |-> IF r \in lost THEN "rejected" ELSE IF r \in S THEN "exported" ELSE out[r]]

(* No accepted record outside of S has to go before one of S.               *)
FirstInLine(S, out) ==
    /\ S \subseteq {r \in Log : out[r] = "accepted"}
    /\ \A r \in Log, s \in S :
          out[r] = "accepted" /\ Thread[r] = Thread[s] /\ kind[r] = kind[s] /\ ticket[r] < ticket[s]
          => r \in S

(* The answer to the head group settles its records, the ones first in     *)
(* line of their producers, and leaves the rest of the pipeline in order.  *)
LEMMA HeadSettles ==
  ASSUME NEW la, NEW in, NEW pe, NEW st, NEW out \in [Log -> Outcome], NEW dp, NEW lost, NEW new,
         Pipeline(la, in, pe, st, out), DepthExact(dp, pe, st, out), st # <<>>,
         Pushing \subseteq Log, lost \subseteq ToSet(Head(st)), ticket \in [Log -> Nat],
         new = Answered(out, ToSet(Head(st)), lost)
  PROVE  /\ Pipeline(la, in, pe, Tail(st), new) /\ DepthExact(dp, pe, Tail(st), new)
         /\ FirstInLine(ToSet(Head(st)), out)
<1> DEFINE H == ToSet(Head(st))
           S == InGroups(Tail(st))
           P == InPending(pe)
           I == InInbox(in)
           L == InLanes(la)
<1>1. /\ GroupsOK(st) /\ LanesOK(la) /\ InboxOK(in) /\ PendingOK(pe)
      /\ Chain(InGroups(st), P, I, L, Pushing, out)
  BY DEF Pipeline
<1>2. GroupsOK(Tail(st)) /\ H \subseteq Log /\ InGroups(st) = H \cup S /\ AllAhead(H, S)
  BY <1>1, TailGroups
<1> HIDE DEF H
<1>3. /\ \A r \in H : new[r] # "accepted"
      /\ \A r \in Log : r \notin H => new[r] = out[r]
  BY <1>2 DEF H, Answered
<1>4. S \cup P \cup I \cup L \cup Pushing \subseteq Log
  BY DEF InGroups, InPending, InInbox, InLanes
<1> HIDE DEF S, P, I, L
<1>5. AllAhead(H, S \cup P \cup I \cup L \cup Pushing)
  BY <1>1, <1>2 DEF Chain, AllAhead
<1>6. \A r \in H : r \notin S \cup P \cup I \cup L \cup Pushing
  BY <1>5 DEF AllAhead, Ahead
<1>7. \A r \in S \cup P \cup I \cup L \cup Pushing : out[r] = "accepted" /\ new[r] = out[r]
  BY <1>1, <1>2, <1>3, <1>4, <1>6 DEF Chain
<1>8. \A r \in Log : new[r] = "accepted" => r \in S \cup P \cup I \cup L \cup Pushing
  BY <1>1, <1>2, <1>3 DEF Chain
<1>9. Chain(S, P, I, L, Pushing, new)
  <2>1. AllAhead(S, P \cup I \cup L \cup Pushing)
    BY <1>1, <1>2 DEF Chain, AllAhead
  <2> QED BY <2>1, <1>1, <1>7, <1>8 DEF Chain
<1>10. Pipeline(la, in, pe, Tail(st), new)
  BY <1>1, <1>2, <1>9 DEF Pipeline, S, P, I, L
<1>11. H \subseteq {r \in Log : out[r] = "accepted"}
  BY <1>1, <1>2 DEF Chain
<1>12. \A q \in Queue : Waiting(q, pe, Tail(st), new) = Waiting(q, pe, st, out)
  <2>1. ASSUME NEW q \in Queue, NEW r \in Log
        PROVE  r \in Waiting(q, pe, Tail(st), new) <=> r \in Waiting(q, pe, st, out)
    BY <1>2, <1>3 DEF Waiting, S
  <2>2. \A q \in Queue : Waiting(q, pe, Tail(st), new) \subseteq Log /\ Waiting(q, pe, st, out) \subseteq Log
    BY DEF Waiting
  <2> QED BY <2>1, <2>2
<1>13. DepthExact(dp, pe, Tail(st), new)
  BY <1>12 DEF DepthExact
<1>14. ASSUME NEW r \in Log, NEW s \in H, out[r] = "accepted",
              Thread[r] = Thread[s] /\ kind[r] = kind[s] /\ ticket[r] < ticket[s]
       PROVE  r \in H
  <2>1. SUFFICES ASSUME r \notin H PROVE FALSE
    OBVIOUS
  <2>2. r \in S \cup P \cup I \cup L \cup Pushing
    BY <1>14, <2>1, <1>1, <1>2 DEF Chain
  <2>3. ticket[s] < ticket[r]
    BY <2>2, <1>5, <1>14 DEF AllAhead, Ahead
  <2>4. ticket[s] \in Nat /\ ticket[r] \in Nat
    BY <1>2, <1>14
  <2> QED BY <2>3, <2>4, <1>14
<1> QED BY <1>10, <1>11, <1>13, <1>14 DEF H, FirstInLine

(* A group too large for one request is split into two groups in order.    *)
LEMMA SplitGroups ==
  ASSUME NEW st, GroupsOK(st), st # <<>>, Len(Head(st)) > 1, NEW new, new = Split(Head(st)) \o Tail(st)
  PROVE  GroupsOK(new) /\ InGroups(new) = InGroups(st) /\ new # <<>>
<1> DEFINE h == Head(st)
           n == Len(h) \div 2
           a == SubSeq(h, 1, n)
           b == SubSeq(h, n + 1, Len(h))
           t == Tail(st)
<1>1. /\ h \in Seq(Log) /\ Sorted(h) /\ GroupsOK(t) /\ InGroups(st) = ToSet(h) \cup InGroups(t)
      /\ AllAhead(ToSet(h), InGroups(t))
  BY TailGroups
<1>2. Split(h) = <<a, b>> /\ Len(h) > 1
  BY DEF Split
<1>3. Len(h) \in Nat /\ DOMAIN h = 1 .. Len(h)
  BY <1>1
<1> HIDE DEF h, t
<1>4. n \in Nat /\ 1 <= n /\ n < Len(h)
  BY <1>2, <1>3
<1> HIDE DEF n
<1>5. /\ a \in Seq(Log) /\ Sorted(a) /\ Len(a) = n
      /\ \A i \in DOMAIN a : i \in 1 .. n /\ a[i] = h[i]
  <2>1. 1 \in 1 .. Len(h) + 1 /\ n \in 0 .. Len(h) /\ 1 <= n
    BY <1>3, <1>4
  <2>2. /\ SubSeq(h, 1, n) \in Seq(Log) /\ Sorted(SubSeq(h, 1, n))
        /\ Len(SubSeq(h, 1, n)) = IF 1 <= n THEN n - 1 + 1 ELSE 0
        /\ \A i \in DOMAIN SubSeq(h, 1, n) : 1 + i - 1 \in 1 .. n /\ SubSeq(h, 1, n)[i] = h[1 + i - 1]
    BY SortedSubSeq, <1>1, <2>1
  <2>3. DOMAIN a = 1 .. Len(a)
    BY <2>2
  <2>4. \A i \in Nat : 1 + i - 1 = i
    OBVIOUS
  <2> QED BY <2>2, <2>3, <2>4, <1>4
<1>6. /\ b \in Seq(Log) /\ Sorted(b) /\ Len(b) = Len(h) - n
      /\ \A i \in DOMAIN b : n + i \in n + 1 .. Len(h) /\ b[i] = h[n + i]
  <2>1. n + 1 \in 1 .. Len(h) + 1 /\ Len(h) \in 0 .. Len(h) /\ n + 1 <= Len(h)
    BY <1>3, <1>4
  <2>2. /\ SubSeq(h, n + 1, Len(h)) \in Seq(Log) /\ Sorted(SubSeq(h, n + 1, Len(h)))
        /\ Len(SubSeq(h, n + 1, Len(h))) = IF n + 1 <= Len(h) THEN Len(h) - (n + 1) + 1 ELSE 0
        /\ \A i \in DOMAIN SubSeq(h, n + 1, Len(h)) :
              (n + 1) + i - 1 \in n + 1 .. Len(h) /\ SubSeq(h, n + 1, Len(h))[i] = h[(n + 1) + i - 1]
    BY SortedSubSeq, <1>1, <2>1
  <2>3. DOMAIN b = 1 .. Len(b)
    BY <2>2
  <2>4. \A i \in Nat : (n + 1) + i - 1 = n + i
    BY <1>4
  <2>5. Len(h) - (n + 1) + 1 = Len(h) - n
    BY <1>3, <1>4
  <2>6. b \in Seq(Log) /\ Sorted(b) /\ Len(b) = Len(h) - n
    BY <2>1, <2>2, <2>5
  <2>7. ASSUME NEW i \in DOMAIN b PROVE n + i \in n + 1 .. Len(h) /\ b[i] = h[n + i]
    <3>1. i \in Nat
      BY <2>3, <2>6
    <3>2. (n + 1) + i - 1 = n + i
      BY <3>1, <2>4
    <3> QED BY <2>2, <3>2
  <2> QED BY <2>6, <2>7
<1> HIDE DEF a, b
<1>7. DOMAIN a = 1 .. n /\ DOMAIN b = 1 .. Len(h) - n
  BY <1>5, <1>6
<1>8. a # <<>> /\ b # <<>>
  BY <1>4, <1>3, <1>5, <1>6
<1>9. /\ t \in Seq(Seq(Log)) /\ Len(t) \in Nat /\ DOMAIN t = 1 .. Len(t)
      /\ \A g \in DOMAIN t : t[g] # <<>> /\ Sorted(t[g])
      /\ \A g, k \in DOMAIN t : g < k =>
            \A i \in DOMAIN t[g], j \in DOMAIN t[k] : Ahead(t[g][i], t[k][j])
  BY <1>1 DEF GroupsOK
<1>10. new = <<a, b>> \o t
  BY <1>2 DEF h, t
<1>11. <<a, b>> \in Seq(Seq(Log)) /\ Len(<<a, b>>) = 2
  BY <1>5, <1>6
<1>12. /\ new \in Seq(Seq(Log)) /\ DOMAIN new = 1 .. 2 + Len(t)
       /\ new[1] = a /\ new[2] = b
       /\ \A g \in DOMAIN t : g + 2 \in DOMAIN new /\ new[g + 2] = t[g]
  <2>1. /\ <<a, b>> \o t \in Seq(Seq(Log))
        /\ DOMAIN (<<a, b>> \o t) = 1 .. 2 + Len(t)
        /\ \A k \in 1 .. 2 : (<<a, b>> \o t)[k] = <<a, b>>[k]
        /\ \A k \in 2 + 1 .. 2 + Len(t) : (<<a, b>> \o t)[k] = t[k - 2]
    BY ConcatElements, <1>9, <1>11
  <2>2. /\ new \in Seq(Seq(Log)) /\ DOMAIN new = 1 .. 2 + Len(t)
        /\ \A k \in 1 .. 2 : new[k] = <<a, b>>[k]
        /\ \A k \in 2 + 1 .. 2 + Len(t) : new[k] = t[k - 2]
    BY <2>1, <1>10
  <2>3. ASSUME NEW g \in DOMAIN t PROVE g + 2 \in DOMAIN new /\ new[g + 2] = t[g]
    <3>1. g + 2 \in 2 + 1 .. 2 + Len(t) /\ (g + 2) - 2 = g /\ g + 2 \in 1 .. 2 + Len(t)
      BY <1>9
    <3> QED BY <2>2, <3>1
  <2>4. <<a, b>>[1] = a /\ <<a, b>>[2] = b /\ 1 \in 1 .. 2 /\ 2 \in 1 .. 2
    OBVIOUS
  <2> QED BY <2>2, <2>3, <2>4
<1>13. ASSUME NEW g \in DOMAIN new
       PROVE  g = 1 \/ g = 2 \/ (g - 2 \in DOMAIN t /\ new[g] = t[g - 2])
  <2>0. g \in 1 .. 2 + Len(t) /\ Len(t) \in Nat /\ DOMAIN t = 1 .. Len(t)
    BY <1>9, <1>12
  <2>1. g = 1 \/ g = 2 \/ g - 2 \in DOMAIN t
    BY <2>0
  <2>2. ASSUME g - 2 \in DOMAIN t PROVE new[g] = t[g - 2]
    <3>1. (g - 2) + 2 = g
      BY <2>0
    <3>2. new[(g - 2) + 2] = t[g - 2]
      BY <1>12, <2>2
    <3> QED BY <3>1, <3>2
  <2> QED BY <2>1, <2>2
<1>14. 1 \in DOMAIN new /\ 2 \in DOMAIN new
  BY <1>9, <1>12
<1>15. \A i \in DOMAIN a : a[i] \in ToSet(h) /\ i \in DOMAIN h /\ i <= n /\ a[i] = h[i]
  BY <1>3, <1>4, <1>5 DEF ToSet
<1>16. \A i \in DOMAIN b : b[i] \in ToSet(h) /\ n + i \in DOMAIN h /\ n < n + i /\ b[i] = h[n + i]
  BY <1>3, <1>4, <1>6 DEF ToSet
<1>17. \A g \in DOMAIN t : \A i \in DOMAIN t[g] : t[g][i] \in InGroups(t)
  BY <1>9 DEF InGroups
<1>18. ASSUME NEW i \in DOMAIN a, NEW j \in DOMAIN b PROVE Ahead(a[i], b[j])
  <2>1. i \in DOMAIN h /\ n + j \in DOMAIN h /\ i < n + j /\ a[i] = h[i] /\ b[j] = h[n + j]
    BY <1>15, <1>16, <1>3, <1>4, <1>7
  <2> QED BY <2>1, <1>1 DEF Sorted
<1>19. ASSUME NEW g \in DOMAIN new, NEW k \in DOMAIN new, g < k,
              NEW i \in DOMAIN new[g], NEW j \in DOMAIN new[k]
       PROVE  Ahead(new[g][i], new[k][j])
  <2>0. g \in Nat /\ k \in Nat
    BY <1>9, <1>12
  <2>1. CASE k = 2
    <3>1. g = 1
      BY <2>0, <2>1, <1>19, <1>12
    <3> QED BY <3>1, <2>1, <1>12, <1>18, <1>19
  <2>2. CASE k - 2 \in DOMAIN t /\ new[k] = t[k - 2]
    <3>1. new[k][j] \in InGroups(t)
      BY <2>2, <1>17, <1>19
    <3>2. CASE g \in {1, 2}
      <4>1. new[g][i] \in ToSet(h)
        BY <3>2, <1>12, <1>15, <1>16, <1>19
      <4> QED BY <4>1, <3>1, <1>1 DEF AllAhead
    <3>3. CASE g - 2 \in DOMAIN t /\ new[g] = t[g - 2]
      <4>1. g - 2 < k - 2
        BY <2>0, <1>19
      <4> QED BY <4>1, <2>2, <3>3, <1>9, <1>19
    <3> QED BY <3>2, <3>3, <1>13
  <2>3. k # 1
    BY <2>0, <1>12, <1>19
  <2> QED BY <2>1, <2>2, <2>3, <1>13
<1>20. ASSUME NEW g \in DOMAIN new PROVE new[g] # <<>> /\ Sorted(new[g])
  <2>1. CASE g = 1
    BY <2>1, <1>5, <1>8, <1>12
  <2>2. CASE g = 2
    BY <2>2, <1>6, <1>8, <1>12
  <2>3. CASE g - 2 \in DOMAIN t /\ new[g] = t[g - 2]
    BY <2>3, <1>9
  <2> QED BY <1>13, <2>1, <2>2, <2>3
<1>21. GroupsOK(new)
  BY <1>12, <1>19, <1>20 DEF GroupsOK
<1>22. ASSUME NEW x \in Log PROVE x \in InGroups(new) <=> x \in ToSet(h) \/ x \in InGroups(t)
  <2>1. ASSUME x \in InGroups(new) PROVE x \in ToSet(h) \/ x \in InGroups(t)
    <3>1. PICK g \in DOMAIN new : \E i \in DOMAIN new[g] : new[g][i] = x
      BY <2>1 DEF InGroups
    <3>2. CASE g = 1
      BY <3>1, <3>2, <1>12, <1>15
    <3>4. CASE g = 2
      BY <3>1, <3>4, <1>12, <1>16
    <3>3. CASE g - 2 \in DOMAIN t /\ new[g] = t[g - 2]
      BY <3>1, <3>3, <1>17
    <3> QED BY <3>2, <3>3, <3>4, <1>13
  <2>2. ASSUME x \in ToSet(h) PROVE x \in InGroups(new)
    <3>1. PICK i \in DOMAIN h : h[i] = x
      BY <2>2 DEF ToSet
    <3>2. CASE i <= n
      <4>1. i \in DOMAIN a /\ a[i] = x
        BY <3>1, <3>2, <1>3, <1>4, <1>5, <1>7
      <4> QED BY <4>1, <1>12, <1>14 DEF InGroups
    <3>3. CASE n < i
      <4>1. i - n \in DOMAIN b /\ n + (i - n) = i
        BY <3>1, <3>3, <1>3, <1>4, <1>7
      <4>2. b[i - n] = x
        BY <4>1, <3>1, <1>16
      <4> QED BY <4>1, <4>2, <1>12, <1>14 DEF InGroups
    <3> QED BY <3>2, <3>3, <1>3, <1>4
  <2>3. ASSUME x \in InGroups(t) PROVE x \in InGroups(new)
    <3>1. PICK g \in DOMAIN t : \E i \in DOMAIN t[g] : t[g][i] = x
      BY <2>3 DEF InGroups
    <3>2. g + 2 \in DOMAIN new /\ new[g + 2] = t[g]
      BY <1>12
    <3> QED BY <3>1, <3>2 DEF InGroups
  <2> QED BY <2>1, <2>2, <2>3
<1>23. InGroups(new) \subseteq Log /\ InGroups(st) \subseteq Log
  BY DEF InGroups
<1>24. new # <<>>
  BY <1>14
<1>25. InGroups(new) = InGroups(st)
  BY <1>1, <1>22, <1>23
<1> QED BY <1>21, <1>24, <1>25
-----------------------------------------------------------------------------
(* What a step of the worker does to the records it settles.                *)

SameProducers == UNCHANGED <<ppc, current, ticket, kind, next_ticket>>
SettlesBatch(S) ==
    /\ S \subseteq {r \in Log : outcome[r] = "accepted"}
    /\ outcome' \in [Log -> Outcome]
    /\ \A r \in Log : IF r \in S THEN outcome'[r] \in Resolved ELSE outcome'[r] = outcome[r]
    /\ \A r \in Log, s \in S :
          /\ outcome'[s] = "exported" /\ outcome[r] = "accepted"
          /\ Thread[r] = Thread[s] /\ kind[r] = kind[s] /\ ticket[r] < ticket[s]
          => r \in S
    /\ Complete(Tickets(S))
Settling == UNCHANGED <<outcome, trackerVars>> \/ \E S \in SUBSET Log : SettlesBatch(S)

(* A record being pushed is one of the records.                            *)
LEMMA PushingRecords == ASSUME TypeOK, RecordInv PROVE Pushing \subseteq Log
BY DEF Pushing, RecordInv, TypeOK

(* CompletionTracker::complete of a batch keeps the tracker exact: the     *)
(* watermark with the set beyond it are the tickets of the records         *)
(* settled.                                                                *)
LEMMA CompleteExact ==
  ASSUME NEW S \in SUBSET Log, TypeOK, RecordInv, TrackerInv, SameProducers, SettlesBatch(S)
  PROVE  TrackerInv' /\ completed_ticket' \in Nat /\ out_of_order' \subseteq Nat
<1> DEFINE T == Tickets(S)
           all == out_of_order \cup {t \in T : t > completed_ticket}
<1>1. /\ completed_ticket \in Nat /\ next_ticket \in Nat /\ completed_ticket <= next_ticket
      /\ out_of_order \subseteq (completed_ticket + 2) .. next_ticket
      /\ ticket \in [Log -> Nat] /\ outcome \in [Log -> Outcome]
  BY DEF TypeOK, TrackerInv
<1>2. \A r \in S : r \in Log /\ ticket[r] \in 1 .. next_ticket /\ ticket[r] \notin (1 .. completed_ticket) \cup out_of_order
  <2>1. ASSUME NEW r \in S
        PROVE  r \in Log /\ outcome[r] = "accepted"
    BY DEF SettlesBatch
  <2>2. ASSUME NEW r \in S
        PROVE  ticket[r] > 0 /\ ticket[r] <= next_ticket /\ outcome[r] \notin Resolved
    BY <2>1 DEF RecordInv, AcceptedRecords, Resolved
  <2> QED BY <1>1, <2>1, <2>2 DEF TrackerInv
<1>3. PICK k \in completed_ticket .. completed_ticket + Cardinality(all) :
         /\ (completed_ticket + 1) .. k \subseteq all
         /\ k + 1 \notin all
         /\ completed_ticket' = k
         /\ out_of_order' = {t \in all : t > k}
  BY DEF SettlesBatch, Complete
<1>4. \A t \in T : t \in 1 .. next_ticket /\ t > completed_ticket /\ \E r \in S : ticket[r] = t
  BY <1>1, <1>2 DEF Tickets
<1>5. \A t : t \in all <=> t \in out_of_order \/ t \in T
  BY <1>4
<1>6. all \subseteq (completed_ticket + 1) .. next_ticket
  <2>1. ASSUME NEW t \in out_of_order PROVE t \in (completed_ticket + 1) .. next_ticket
    <3>1. t \in (completed_ticket + 2) .. next_ticket
      BY <1>1
    <3> QED BY <3>1, <1>1
  <2>2. ASSUME NEW t \in T PROVE t \in (completed_ticket + 1) .. next_ticket
    BY <1>1, <1>4
  <2> QED BY <2>1, <2>2, <1>5
<1>7. T = {ticket[r] : r \in S}
  BY DEF Tickets
<1> HIDE DEF T, all
<1>8. k \in Nat /\ completed_ticket <= k
  <2>1. k \in Int /\ completed_ticket <= k
    BY <1>3, <1>1
  <2> QED BY <2>1, <1>1
<1>9. k <= next_ticket
  <2>1. CASE k = completed_ticket
    BY <2>1, <1>1
  <2>2. CASE k # completed_ticket
    <3>1. k \in (completed_ticket + 1) .. k
      BY <2>2, <1>8, <1>1
    <3> QED BY <3>1, <1>3, <1>6
  <2> QED BY <2>1, <2>2
<1>10. out_of_order' \subseteq (k + 2) .. next_ticket
  <2>1. ASSUME NEW t \in out_of_order' PROVE t \in (k + 2) .. next_ticket
    <3>1. t \in all /\ t > k /\ t # k + 1
      BY <1>3
    <3>2. t \in Nat /\ t <= next_ticket
      BY <3>1, <1>6, <1>1
    <3> QED BY <3>1, <3>2, <1>8, <1>1
  <2> QED BY <2>1
<1>11. ASSUME NEW t \in Nat
       PROVE  t \in (1 .. k) \cup out_of_order' <=> t \in (1 .. completed_ticket) \/ t \in all
  <2>1. CASE t <= completed_ticket
    BY <2>1, <1>1, <1>3, <1>6, <1>8
  <2>2. CASE completed_ticket < t /\ t <= k
    <3>1. t \in (completed_ticket + 1) .. k
      BY <2>2, <1>1, <1>8
    <3> QED BY <3>1, <2>2, <1>1, <1>3, <1>8
  <2>3. CASE k < t
    BY <2>3, <1>1, <1>3, <1>8
  <2> QED BY <2>1, <2>2, <2>3, <1>1, <1>8
<1>12. ASSUME NEW r \in Log
       PROVE  outcome'[r] \in Resolved <=> ticket'[r] \in (1 .. completed_ticket') \cup out_of_order'
  <2>1. ticket'[r] = ticket[r] /\ ticket[r] \in Nat
    BY <1>1 DEF SameProducers
  <2>2. outcome[r] \in Resolved <=> ticket[r] \in (1 .. completed_ticket) \cup out_of_order
    BY DEF TrackerInv
  <2>3. CASE r \in S
    <3>1. outcome'[r] \in Resolved /\ ticket[r] \in T
      BY <2>3, <1>7 DEF SettlesBatch
    <3> QED BY <3>1, <2>1, <1>3, <1>5, <1>11
  <2>4. CASE r \notin S
    <3>1. outcome'[r] = outcome[r]
      BY <2>4 DEF SettlesBatch
    <3>2. ticket[r] \in T => outcome[r] \in Resolved
      <4>1. SUFFICES ASSUME ticket[r] \in T PROVE FALSE
        OBVIOUS
      <4>2. PICK s \in S : ticket[s] = ticket[r]
        BY <4>1, <1>7
      <4>3. s \in Log /\ ticket[s] > 0 /\ s # r
        BY <1>1, <1>2, <2>4
      <4> QED BY <4>2, <4>3 DEF RecordInv
    <3>3. ticket[r] \in T => ticket[r] \in (1 .. completed_ticket) \cup out_of_order
      BY <3>2, <2>2
    <3> QED BY <3>1, <3>3, <2>1, <2>2, <1>3, <1>5, <1>11
  <2> QED BY <2>3, <2>4
<1>13. next_ticket' = next_ticket
  BY DEF SameProducers
<1>14. TrackerInv'
  BY <1>3, <1>9, <1>10, <1>12, <1>13 DEF TrackerInv
<1>15. out_of_order' \subseteq Nat
  BY <1>10, <1>8, <1>1
<1> QED BY <1>3, <1>8, <1>14, <1>15

(* Settling the records that are first in line keeps the tickets, the      *)
(* tracker and the order of each lane.                                     *)
LEMMA SettlingKeeps ==
  ASSUME IInv, SameProducers, Settling
  PROVE  /\ RecordInv' /\ TrackerInv' /\ LaneOrderKept'
         /\ outcome' \in [Log -> Outcome] /\ completed_ticket' \in Nat /\ out_of_order' \subseteq Nat
         /\ \A r \in Log : outcome[r] \in Resolved => outcome'[r] \in Resolved
         /\ AcceptedRecords' = AcceptedRecords /\ Pushing' = Pushing
<1> USE DEF IInv
<1>1. TypeOK /\ RecordInv /\ TrackerInv /\ LaneOrderKept
  OBVIOUS
<1>2. CASE UNCHANGED <<outcome, trackerVars>>
  BY <1>1, <1>2 DEF SameProducers, trackerVars, RecordInv, TrackerInv, LaneOrderKept, AcceptedRecords, Pushing, TypeOK
<1>3. CASE \E S \in SUBSET Log : SettlesBatch(S)
  <2>1. PICK S \in SUBSET Log : SettlesBatch(S)
    BY <1>3
  <2>2. TrackerInv' /\ completed_ticket' \in Nat /\ out_of_order' \subseteq Nat
    BY <1>1, <2>1, CompleteExact
  <2>3. outcome' \in [Log -> Outcome]
    BY <2>1 DEF SettlesBatch
  <2>4. ASSUME NEW r \in Log
        PROVE  /\ outcome[r] \in Resolved => outcome'[r] = outcome[r]
               /\ outcome[r] = "none" => outcome'[r] = "none"
               /\ outcome'[r] \in {"accepted"} \cup Resolved <=> outcome[r] \in {"accepted"} \cup Resolved
    BY <2>1 DEF SettlesBatch, Resolved
  <2>5. AcceptedRecords' = AcceptedRecords
    BY <2>4 DEF AcceptedRecords
  <2>6. Pushing' = Pushing
    BY DEF SameProducers, Pushing
  <2>7. RecordInv'
    BY <1>1, <2>4, <2>5 DEF RecordInv, SameProducers
  <2>8. ASSUME NEW r \in Log, NEW s \in Log,
               /\ Thread[r] = Thread[s] /\ kind[r] = kind[s]
               /\ 0 < ticket[r] /\ ticket[r] < ticket[s]
               /\ outcome'[s] = "exported"
        PROVE  outcome'[r] \in Resolved
    <3>1. outcome[r] = "accepted" \/ outcome[r] \in Resolved
      BY <1>1, <2>8 DEF RecordInv, AcceptedRecords, TypeOK
    <3>2. CASE s \in S
      BY <2>1, <2>4, <2>8, <3>1, <3>2 DEF SettlesBatch
    <3>3. CASE s \notin S
      <4>1. outcome[s] = "exported"
        BY <2>1, <2>8, <3>3 DEF SettlesBatch
      <4>2. outcome[r] \in Resolved
        BY <1>1, <2>8, <4>1 DEF LaneOrderKept
      <4> QED BY <4>2, <2>4
    <3> QED BY <3>2, <3>3
  <2>9. LaneOrderKept'
    BY <2>8 DEF LaneOrderKept, SameProducers
  <2> QED BY <2>2, <2>3, <2>4, <2>5, <2>6, <2>7, <2>9
<1> QED BY <1>2, <1>3 DEF Settling
-----------------------------------------------------------------------------
(* The worker's batching steps.                                             *)

Carried(la, in, dp) == /\ Pipeline(la, in, pending', stack', outcome')
                       /\ DepthExact(dp, pending', stack', outcome')

(* An oversize record is settled on its own and the worker goes on with    *)
(* the rest.                                                               *)
LEMMA OversizeStep ==
  ASSUME NEW la, NEW in, NEW dp, NEW r \in Log, TypeOK, RecordInv,
         Pipeline(la, in, <<r>>, stack, outcome), DepthExact(dp, <<r>>, stack, outcome),
         RejectOversize(r), pending' = <<>>, stack' = stack
  PROVE  Carried(la, in, dp) /\ Settling
<1>1. outcome \in [Log -> Outcome] /\ Pushing \subseteq Log
  BY PushingRecords DEF TypeOK
<1>2. outcome' = [outcome EXCEPT ![r] = "oversize"] /\ Complete({ticket[r]})
  BY DEF RejectOversize
<1>3. Carried(la, in, dp)
  <2>1. Pipeline(la, in, <<>>, stack, outcome') /\ DepthExact(dp, <<>>, stack, outcome')
    BY <1>1, <1>2, OversizeSettles
  <2> QED BY <2>1 DEF Carried
<1>4. outcome[r] = "accepted"
  <2>1. r \in InPending(<<r>>)
    BY PendingSets
  <2> QED BY <2>1 DEF Pipeline, Chain
<1>5. Tickets({r}) = {ticket[r]}
  BY DEF Tickets
<1>6. SettlesBatch({r})
  BY <1>1, <1>2, <1>4, <1>5 DEF SettlesBatch, Outcome, Resolved
<1> QED BY <1>3, <1>6 DEF Settling

(* The first record of a batch becomes a group, or is settled as oversize. *)
LEMMA StartBatchKeeps ==
  ASSUME NEW la, NEW in, NEW dp, NEW r \in Log, TypeOK, RecordInv, stack = <<>>,
         Pipeline(la, in, <<r>>, stack, outcome), DepthExact(dp, <<r>>, stack, outcome),
         StartBatch(r, <<>>)
  PROVE  /\ Carried(la, in, dp) /\ Settling
         /\ \/ wpc' = "top" /\ stack' = <<>>
            \/ wpc' \in {"fill", "batched"} /\ Len(stack') = 1
<1>1. CASE Oversize(r)
  <2>1. RejectOversize(r) /\ pending' = <<>> /\ stack' = stack /\ wpc' = "top"
    BY <1>1 DEF StartBatch
  <2> QED BY <2>1, OversizeStep
<1>2. CASE ~Oversize(r)
  <2>1. /\ stack' = << <<r>> >> /\ pending' = <<>> /\ outcome' = outcome
        /\ UNCHANGED trackerVars /\ wpc' \in {"fill", "batched"}
    BY <1>2 DEF StartBatch, PlaceAfter
  <2>2. Pipeline(la, in, <<>>, << <<r>> >>, outcome) /\ DepthExact(dp, <<>>, << <<r>> >>, outcome)
    BY GroupStarts
  <2> QED BY <2>1, <2>2 DEF Carried, Settling
<1> QED BY <1>1, <1>2

(* A sequence of length 1 is its head.                                     *)
LEMMA OnlyElement == ASSUME NEW E, NEW s \in Seq(E), Len(s) = 1 PROVE Head(s) \in E /\ s = <<Head(s)>>
<1>1. Head(s) = s[1] /\ s[1] \in E /\ DOMAIN s = {1}
  OBVIOUS
<1>2. <<s[1]>> \in Seq(E) /\ Len(<<s[1]>>) = 1
  BY <1>1
<1> QED BY <1>1, <1>2

(* A further record joins the group, is settled as oversize, or stays over *)
(* for the next batch.                                                     *)
LEMMA AddToBatchKeeps ==
  ASSUME NEW la, NEW in, NEW dp, NEW r \in Log, TypeOK, RecordInv, Len(stack) = 1,
         Pipeline(la, in, <<r>>, stack, outcome), DepthExact(dp, <<r>>, stack, outcome),
         AddToBatch(r, <<>>)
  PROVE  /\ Carried(la, in, dp) /\ Settling
         /\ wpc' \in {"fill", "batched"} /\ Len(stack') = 1
<1> DEFINE b == Head(stack)
<1>1. b \in Seq(Log) /\ stack = <<b>>
  BY OnlyElement DEF TypeOK
<1> HIDE DEF b
<1>2. CASE Oversize(r)
  <2>1. RejectOversize(r) /\ pending' = <<>> /\ stack' = stack /\ wpc' = "fill"
    BY <1>2 DEF AddToBatch
  <2> QED BY <2>1, OversizeStep
<1>3. CASE ~Oversize(r) /\ ~Fits(RecordsLen(Append(b, r)))
  <2>1. pending' = <<r>> \o <<>> /\ stack' = stack /\ outcome' = outcome /\ UNCHANGED trackerVars /\ wpc' = "batched"
    BY <1>3 DEF AddToBatch, b
  <2>2. <<r>> \o <<>> = <<r>>
    OBVIOUS
  <2> QED BY <2>1, <2>2 DEF Carried, Settling
<1>4. CASE ~Oversize(r) /\ Fits(RecordsLen(Append(b, r)))
  <2>1. /\ stack' = <<Append(b, r)>> /\ pending' = <<>> /\ outcome' = outcome
        /\ UNCHANGED trackerVars /\ wpc' \in {"fill", "batched"}
    BY <1>4 DEF AddToBatch, b, PlaceAfter
  <2>2. Pipeline(la, in, <<>>, <<Append(b, r)>>, outcome) /\ DepthExact(dp, <<>>, <<Append(b, r)>>, outcome)
    BY <1>1, GroupGrows
  <2>3. Len(stack') = 1
    BY <2>1
  <2> QED BY <2>1, <2>2, <2>3 DEF Carried, Settling
<1> QED BY <1>2, <1>3, <1>4

(* Where a refresh and a receive leave the pipeline.                        *)
LEMMA RefreshState ==
  ASSUME NEW in \in Refreshed, Pipeline(lane, input, pending, stack, outcome)
  PROVE  /\ Pipeline(NoLanes, in, pending, stack, outcome) /\ in \in [Queue -> Seq(Log)]
         /\ IsDry(in) => input = in
<1>1. PICK o \in LaneOrders : in = Drained(o)
  BY DEF Refreshed
<1>2. in = [q \in Queue |-> input[q] \o LaneRun(lane, o, q)]
  BY <1>1 DEF Drained, LaneRun
<1>3. Pipeline(NoLanes, in, pending, stack, outcome)
  BY <1>2, RefreshKeeps
<1>4. ASSUME NEW q \in Queue, in[q] = <<>> PROVE input[q] = <<>>
  <2>1. input[q] \in Seq(Log) /\ LanesOK(lane)
    BY DEF Pipeline, InboxOK
  <2>2. IsRun(LaneRun(lane, o, q), lane, q)
    BY <2>1, LaneFlat
  <2>3. LaneRun(lane, o, q) \in Seq(Log)
    BY <2>2 DEF IsRun
  <2>4. input[q] \o LaneRun(lane, o, q) = <<>>
    BY <1>2, <1>4
  <2> QED BY <2>1, <2>3, <2>4
<1>5. IsDry(in) => input = in
  <2>1. input \in [Queue -> Seq(Log)] /\ in \in [Queue -> Seq(Log)]
    BY <1>3 DEF Pipeline, InboxOK
  <2> QED BY <1>4, <2>1 DEF IsDry
<1> QED BY <1>3, <1>5 DEF Pipeline, InboxOK

(* The step Receive, as ReceiveKeeps describes it.                         *)
LEMMA ReceiveState ==
  ASSUME NEW la, NEW in, TypeOK, pending = <<>>, Receive(in),
         Pipeline(la, in, pending, stack, outcome), DepthExact(depth, pending, stack, outcome)
  PROVE  LET r == Received(in)
         IN  /\ r \in Log /\ Pipeline(la, input', <<r>>, stack, outcome)
             /\ depth' \in [Queue -> Nat] /\ DepthExact(depth', <<r>>, stack, outcome)
BY ReceiveKeeps DEF Receive, Release, TypeOK
-----------------------------------------------------------------------------
(* Each step of the worker that moves records.                              *)

Alive == wpc \notin Ended
DataTypes ==
    /\ lane \in [Producer -> [Queue -> Seq(Log)]] /\ input \in [Queue -> Seq(Log)]
    /\ pending \in Seq(Log) /\ stack \in Seq(Seq(Log)) /\ depth \in [Queue -> Nat]
WorkKeeps == SameProducers /\ Settling /\ DataTypes' /\ WorkerInv' /\ PipelineInv'

(* The pipeline after a step that changes no ticket or kind, stage by      *)
(* stage.                                                                  *)
LEMMA PipelinePrimed ==
  ASSUME ticket' = ticket, kind' = kind,
         LanesOK(lane'), InboxOK(input'), PendingOK(pending'), GroupsOK(stack'),
         Chain(InGroups(stack'), InPending(pending'), InInbox(input'), InLanes(lane'), Pushing', outcome'),
         DepthExact(depth', pending', stack', outcome')
  PROVE  PipelineInv'
<1>1. LanesOK(lane)' /\ InboxOK(input)' /\ PendingOK(pending)' /\ GroupsOK(stack)'
  BY DEF LanesOK, InboxOK, PendingOK, GroupsOK, Sorted, Ahead
<1>2. Chain(InGroups(stack), InPending(pending), InInbox(input), InLanes(lane), Pushing, outcome)'
  <2>1. /\ InGroups(stack)' = InGroups(stack') /\ InPending(pending)' = InPending(pending')
        /\ InInbox(input)' = InInbox(input') /\ InLanes(lane)' = InLanes(lane')
    BY DEF InGroups, InPending, InInbox, InLanes
  <2> QED BY <2>1 DEF Chain, AllAhead, Ahead
<1>3. DepthExact(depth, pending, stack, outcome)'
  BY DEF DepthExact, Waiting, InGroups, InPending
<1> QED BY <1>1, <1>2, <1>3 DEF PipelineInv, Pipeline

(* The pipeline after a step that leaves the producers alone.              *)
LEMMA PipelineFrame ==
  ASSUME ticket' = ticket, kind' = kind, Pushing' = Pushing,
         Pipeline(lane', input', pending', stack', outcome'),
         DepthExact(depth', pending', stack', outcome')
  PROVE  PipelineInv'
<1>1. Chain(InGroups(stack'), InPending(pending'), InInbox(input'), InLanes(lane'), Pushing', outcome')
  BY DEF Pipeline
<1> QED BY <1>1, PipelinePrimed DEF Pipeline

(* A step that leaves the producers alone leaves the records they push     *)
(* alone.                                                                  *)
LEMMA SamePushing ==
  ASSUME SameProducers PROVE ticket' = ticket /\ kind' = kind /\ Pushing' = Pushing
BY DEF SameProducers, Pushing

(* What a step carries over has its types.                                 *)
LEMMA CarriedTypes ==
  ASSUME Carried(lane', input', depth'), depth' \in [Queue -> Nat]
  PROVE  DataTypes'
BY DEF Carried, Pipeline, LanesOK, InboxOK, PendingOK, GroupsOK, DataTypes

(* What a step carries over is a pipeline.                                 *)
LEMMA CarriedKeeps ==
  ASSUME SameProducers, Carried(lane', input', depth') PROVE PipelineInv'
BY PipelineFrame, SamePushing DEF Carried

(* The parts of the invariant for a worker that runs.                      *)
LEMMA AliveState ==
  ASSUME IInv, Alive
  PROVE  /\ TypeOK /\ RecordInv /\ WorkerInv /\ TrackerInv
         /\ Pipeline(lane, input, pending, stack, outcome) /\ DepthExact(depth, pending, stack, outcome)
BY DEF IInv, Alive, PipelineInv

(* What is left of the overflow slot when its record is taken.             *)
LEMMA PendingOne ==
  ASSUME NEW pe, PendingOK(pe), pe # <<>>
  PROVE  Head(pe) \in Log /\ pe = <<Head(pe)>> /\ Tail(pe) = <<>>
<1>1. pe \in Seq(Log) /\ Len(pe) = 1
  BY DEF PendingOK
<1>2. Head(pe) \in Log /\ pe = <<Head(pe)>>
  BY <1>1, OnlyElement
<1>3. \A r \in Log : Tail(<<r>>) = <<>>
  OBVIOUS
<1> QED BY <1>2, <1>3

(* A panic in the mapper ends the worker; the records it held are lost     *)
(* with the generation.                                                    *)
LEMMA PanicKeeps ==
  ASSUME NEW r, TypeOK, SameProducers, MappingPanics(r), lane' \in [Producer -> [Queue -> Seq(Log)]],
         input' \in [Queue -> Seq(Log)], depth' \in [Queue -> Nat]
  PROVE  WorkKeeps
BY DEF WorkKeeps, MappingPanics, TypeOK, Settling, DataTypes, WorkerInv, PipelineInv, Ended, Filling, Exporting

(* The head of run_worker's loop: what is over starts the next batch, else *)
(* the queues are drained.                                                 *)
LEMMA TopKeeps == ASSUME IInv, Top PROVE WorkKeeps
<1>1. /\ TypeOK /\ RecordInv /\ WorkerInv /\ wpc = "top" /\ lane' = NoLanes /\ SameProducers
      /\ Pipeline(lane, input, pending, stack, outcome) /\ DepthExact(depth, pending, stack, outcome)
  BY AliveState DEF Top, Alive, Ended, WorkerUnchanged, SameProducers
<1>2. stack = <<>> /\ depth \in [Queue -> Nat]
  BY <1>1 DEF WorkerInv, Filling, Exporting, Ended, TypeOK
<1>3. PICK in \in Refreshed :
        \/ /\ pending # <<>>
           /\ input' = in
           /\ StartBatch(Head(pending), Tail(pending))
           /\ UNCHANGED depth
        \/ /\ pending = <<>>
           /\ Receive(in)
           /\ StartBatch(Received(in), pending) \/ MappingPanics(Received(in))
        \/ /\ pending = <<>> /\ IsDry(in)
           /\ wpc' = IF shutting_down THEN "drained" ELSE "receive"
           /\ UNCHANGED <<input, pending, stack, depth, outcome, counted, trackerVars, woken>>
  BY DEF Top
<1>4. Pipeline(NoLanes, in, pending, stack, outcome) /\ (IsDry(in) => input = in)
  BY <1>1, RefreshState
<1>5. CASE pending # <<>> /\ input' = in /\ StartBatch(Head(pending), Tail(pending)) /\ UNCHANGED depth
  <2>1. Head(pending) \in Log /\ pending = <<Head(pending)>> /\ Tail(pending) = <<>>
    BY <1>1, <1>5, PendingOne DEF Pipeline
  <2>2. /\ Carried(NoLanes, in, depth) /\ Settling
        /\ \/ wpc' = "top" /\ stack' = <<>>
           \/ wpc' \in {"fill", "batched"} /\ Len(stack') = 1
    <3> DEFINE r == Head(pending)
    <3>1. /\ r \in Log /\ StartBatch(r, <<>>)
          /\ Pipeline(NoLanes, in, <<r>>, stack, outcome) /\ DepthExact(depth, <<r>>, stack, outcome)
      BY <1>1, <1>4, <1>5, <2>1
    <3> HIDE DEF r
    <3> QED BY <3>1, <1>1, <1>2, StartBatchKeeps
  <2>3. Carried(lane', input', depth') /\ depth' \in [Queue -> Nat]
    BY <1>1, <1>2, <1>5, <2>2
  <2>4. WorkerInv'
    BY <2>2 DEF WorkerInv, Filling, Exporting, Ended
  <2> QED BY <1>1, <2>2, <2>3, <2>4, CarriedTypes, CarriedKeeps DEF WorkKeeps
<1>6. CASE pending = <<>> /\ Receive(in) /\ StartBatch(Received(in), pending)
  <2> DEFINE r == Received(in)
  <2>1. /\ r \in Log /\ Pipeline(NoLanes, input', <<r>>, stack, outcome)
        /\ depth' \in [Queue -> Nat] /\ DepthExact(depth', <<r>>, stack, outcome)
    BY <1>1, <1>4, <1>6, ReceiveState
  <2>2. StartBatch(r, <<>>)
    BY <1>6
  <2> HIDE DEF r
  <2>3. /\ Carried(NoLanes, input', depth') /\ Settling
        /\ \/ wpc' = "top" /\ stack' = <<>>
           \/ wpc' \in {"fill", "batched"} /\ Len(stack') = 1
    BY <1>1, <1>2, <2>1, <2>2, StartBatchKeeps
  <2>4. Carried(lane', input', depth')
    BY <1>1, <2>3
  <2>5. WorkerInv'
    BY <2>3 DEF WorkerInv, Filling, Exporting, Ended
  <2> QED BY <1>1, <2>1, <2>3, <2>4, <2>5, CarriedTypes, CarriedKeeps DEF WorkKeeps
<1>7. CASE pending = <<>> /\ Receive(in) /\ MappingPanics(Received(in))
  <2>1. depth' \in [Queue -> Nat] /\ Pipeline(NoLanes, input', <<Received(in)>>, stack, outcome)
    BY <1>1, <1>4, <1>7, ReceiveState
  <2>2. lane' \in [Producer -> [Queue -> Seq(Log)]] /\ input' \in [Queue -> Seq(Log)]
    BY <1>1, <2>1 DEF Pipeline, LanesOK, InboxOK
  <2> QED BY <1>1, <1>7, <2>1, <2>2, PanicKeeps
<1>8. CASE /\ pending = <<>> /\ IsDry(in)
           /\ wpc' = IF shutting_down THEN "drained" ELSE "receive"
           /\ UNCHANGED <<input, pending, stack, depth, outcome, counted, trackerVars, woken>>
  <2>1. input' = in
    BY <1>8, <1>4
  <2>2. Carried(lane', input', depth')
    BY <1>1, <1>4, <1>8, <2>1 DEF Carried
  <2>3. WorkerInv'
    BY <1>2, <1>8 DEF WorkerInv, Filling, Exporting, Ended
  <2>4. Settling
    BY <1>8 DEF Settling
  <2> QED BY <1>1, <1>2, <1>8, <2>2, <2>3, <2>4, CarriedTypes, CarriedKeeps DEF WorkKeeps
<1> QED BY <1>3, <1>5, <1>6, <1>7, <1>8
(* One more record for the batch: what Fill and GatherReceives share.       *)
LEMMA AddsOne ==
  ASSUME NEW in, TypeOK, RecordInv, SameProducers, pending = <<>>, Len(stack) = 1,
         Pipeline(lane', in, pending, stack, outcome), DepthExact(depth, pending, stack, outcome),
         Receive(in), AddToBatch(Received(in), pending) \/ MappingPanics(Received(in))
  PROVE  WorkKeeps
<1> DEFINE r == Received(in)
<1>1. /\ r \in Log /\ Pipeline(lane', input', <<r>>, stack, outcome)
      /\ depth' \in [Queue -> Nat] /\ DepthExact(depth', <<r>>, stack, outcome)
  BY ReceiveState
<1>2. AddToBatch(r, <<>>) \/ MappingPanics(r)
  OBVIOUS
<1> HIDE DEF r
<1>3. CASE AddToBatch(r, <<>>)
  <2>1. /\ Carried(lane', input', depth') /\ Settling
        /\ wpc' \in {"fill", "batched"} /\ Len(stack') = 1
    BY <1>1, <1>3, AddToBatchKeeps
  <2>2. WorkerInv'
    <3>1. stack' # <<>>
      BY <2>1
    <3> QED BY <2>1, <3>1 DEF WorkerInv, Filling, Exporting, Ended
  <2> QED BY <1>1, <2>1, <2>2, CarriedTypes, CarriedKeeps DEF WorkKeeps
<1>4. CASE MappingPanics(r)
  <2>1. lane' \in [Producer -> [Queue -> Seq(Log)]] /\ input' \in [Queue -> Seq(Log)]
    BY <1>1 DEF Pipeline, LanesOK, InboxOK
  <2> QED BY <1>1, <1>4, <2>1, PanicKeeps
<1> QED BY <1>2, <1>3, <1>4

(* The batch waits, or is closed, with nothing received.                    *)
LEMMA AddsNone ==
  ASSUME NEW in, TypeOK, SameProducers, pending = <<>>, Len(stack) = 1, in = input,
         Pipeline(lane', in, pending, stack, outcome), DepthExact(depth, pending, stack, outcome),
         wpc' \in {"batched", "gather"},
         UNCHANGED <<input, pending, stack, depth, outcome, counted, trackerVars, woken>>
  PROVE  WorkKeeps
<1>1. Carried(lane', input', depth') /\ depth' \in [Queue -> Nat]
  BY DEF Carried, TypeOK
<1>2. stack # <<>>
  OBVIOUS
<1>3. WorkerInv'
  BY <1>2 DEF WorkerInv, Filling, Exporting, Ended
<1>4. Settling
  BY DEF Settling
<1> QED BY <1>1, <1>3, <1>4, CarriedTypes, CarriedKeeps DEF WorkKeeps

(* run_worker fills the batch with what is at hand.                        *)
LEMMA FillKeeps == ASSUME IInv, Fill PROVE WorkKeeps
<1>1. /\ TypeOK /\ RecordInv /\ WorkerInv /\ wpc = "fill" /\ SameProducers
      /\ Pipeline(lane, input, pending, stack, outcome) /\ DepthExact(depth, pending, stack, outcome)
  BY AliveState DEF Fill, Alive, Ended, WorkerUnchanged, SameProducers
<1>2. Len(stack) = 1 /\ depth \in [Queue -> Nat]
  BY <1>1 DEF WorkerInv, Filling, TypeOK
<1>3. CASE pending # <<>> /\ AddToBatch(Head(pending), Tail(pending)) /\ UNCHANGED <<lane, input, depth>>
  <2> DEFINE r == Head(pending)
  <2>1. r \in Log /\ pending = <<r>> /\ Tail(pending) = <<>>
    BY <1>1, <1>3, PendingOne DEF Pipeline
  <2>2. AddToBatch(r, <<>>)
    BY <1>3, <2>1
  <2> HIDE DEF r
  <2>3. Pipeline(lane, input, <<r>>, stack, outcome) /\ DepthExact(depth, <<r>>, stack, outcome)
    BY <1>1, <2>1
  <2>4. /\ Carried(lane, input, depth) /\ Settling
        /\ wpc' \in {"fill", "batched"} /\ Len(stack') = 1
    BY <1>1, <1>2, <2>1, <2>2, <2>3, AddToBatchKeeps
  <2>5. Carried(lane', input', depth') /\ depth' \in [Queue -> Nat]
    BY <1>2, <1>3, <2>4
  <2>6. WorkerInv'
    <3>1. stack' # <<>>
      BY <2>4
    <3> QED BY <2>4, <3>1 DEF WorkerInv, Filling, Exporting, Ended
  <2> QED BY <1>1, <2>4, <2>5, <2>6, CarriedTypes, CarriedKeeps DEF WorkKeeps
<1>4. CASE /\ pending = <<>> /\ ~IsDry(input)
           /\ Receive(input)
           /\ AddToBatch(Received(input), pending) \/ MappingPanics(Received(input))
           /\ UNCHANGED lane
  <2>1. Pipeline(lane', input, pending, stack, outcome)
    BY <1>1, <1>4
  <2> QED BY <1>1, <1>2, <1>4, <2>1, AddsOne
<1>5. CASE /\ pending = <<>> /\ IsDry(input) /\ lane' = NoLanes
           /\ \E in \in Refreshed :
                 \/ /\ Receive(in)
                    /\ AddToBatch(Received(in), pending) \/ MappingPanics(Received(in))
                 \/ /\ IsDry(in)
                    /\ wpc' = IF shutting_down THEN "batched" ELSE "gather"
                    /\ UNCHANGED <<input, pending, stack, depth, outcome, counted, trackerVars, woken>>
  <2>1. PICK in \in Refreshed :
                 \/ /\ Receive(in)
                    /\ AddToBatch(Received(in), pending) \/ MappingPanics(Received(in))
                 \/ /\ IsDry(in)
                    /\ wpc' = IF shutting_down THEN "batched" ELSE "gather"
                    /\ UNCHANGED <<input, pending, stack, depth, outcome, counted, trackerVars, woken>>
    BY <1>5
  <2>2. Pipeline(lane', in, pending, stack, outcome) /\ (IsDry(in) => input = in)
    BY <1>1, <1>5, RefreshState
  <2>3. CASE Receive(in) /\ (AddToBatch(Received(in), pending) \/ MappingPanics(Received(in)))
    BY <1>1, <1>2, <1>5, <2>2, <2>3, AddsOne
  <2>4. CASE /\ IsDry(in)
             /\ wpc' = IF shutting_down THEN "batched" ELSE "gather"
             /\ UNCHANGED <<input, pending, stack, depth, outcome, counted, trackerVars, woken>>
    <3>1. wpc' \in {"batched", "gather"} /\ in = input
      BY <2>4, <2>2
    <3> QED BY <1>1, <1>2, <1>5, <2>2, <2>4, <3>1, AddsNone
  <2> QED BY <2>1, <2>3, <2>4
<1> QED BY <1>3, <1>4, <1>5 DEF Fill

(* The wait for a fuller batch receives a record.                          *)
LEMMA GatherReceivesKeeps == ASSUME IInv, GatherReceives PROVE WorkKeeps
<1>1. /\ TypeOK /\ RecordInv /\ WorkerInv /\ wpc = "gather" /\ SameProducers
      /\ Pipeline(lane, input, pending, stack, outcome) /\ DepthExact(depth, pending, stack, outcome)
  BY AliveState DEF GatherReceives, Alive, Ended, WorkerUnchanged, SameProducers
<1>2. Len(stack) = 1 /\ pending = <<>> /\ lane' = NoLanes
  BY <1>1 DEF WorkerInv, Filling, TypeOK, GatherReceives
<1>3. PICK in \in Refreshed :
          \/ /\ Receive(in)
             /\ AddToBatch(Received(in), pending) \/ MappingPanics(Received(in))
          \/ /\ IsDry(in)
             /\ wpc' = "batched"
             /\ UNCHANGED <<input, pending, stack, depth, outcome, counted, trackerVars, woken>>
  BY DEF GatherReceives
<1>4. Pipeline(lane', in, pending, stack, outcome) /\ (IsDry(in) => input = in)
  BY <1>1, <1>2, RefreshState
<1>5. CASE Receive(in) /\ (AddToBatch(Received(in), pending) \/ MappingPanics(Received(in)))
  BY <1>1, <1>2, <1>4, <1>5, AddsOne
<1>6. CASE /\ IsDry(in) /\ wpc' = "batched"
           /\ UNCHANGED <<input, pending, stack, depth, outcome, counted, trackerVars, woken>>
  BY <1>1, <1>2, <1>4, <1>6, AddsNone
<1> QED BY <1>3, <1>5, <1>6

-----------------------------------------------------------------------------
(* The answers of the collector.                                            *)

(* The records of the head group get their outcome, and the tracker learns *)
(* of all of them.                                                         *)
LEMMA ResolveKeeps ==
  ASSUME NEW lost \in SUBSET ToSet(Head(stack)), IInv, Alive, stack # <<>>, SameProducers,
         Resolve(ToSet(Head(stack)), lost), stack' = Tail(stack), UNCHANGED <<lane, input, pending, depth>>
  PROVE  Settling /\ DataTypes' /\ PipelineInv'
<1> DEFINE H == ToSet(Head(stack))
<1>1. /\ TypeOK /\ RecordInv
      /\ Pipeline(lane, input, pending, stack, outcome) /\ DepthExact(depth, pending, stack, outcome)
  BY AliveState
<1>2. /\ outcome \in [Log -> Outcome] /\ ticket \in [Log -> Nat] /\ depth \in [Queue -> Nat]
      /\ Pushing \subseteq Log
  BY <1>1, PushingRecords DEF TypeOK
<1>3. outcome' = [r \in Log |-> IF r \in lost THEN "rejected" ELSE IF r \in H THEN "exported" ELSE outcome[r]]
  BY DEF Resolve
<1>4. Complete(Tickets(H)) /\ outcome' = Answered(outcome, H, lost)
  BY <1>3 DEF Resolve, Answered
<1>5. /\ Pipeline(lane, input, pending, Tail(stack), outcome') /\ DepthExact(depth, pending, Tail(stack), outcome')
      /\ FirstInLine(H, outcome)
  BY <1>1, <1>2, <1>4, HeadSettles
<1>6. SettlesBatch(H)
  <2>1. lost \subseteq H
    OBVIOUS
  <2> HIDE DEF H
  <2>2. outcome' \in [Log -> Outcome]
    BY <1>2, <1>3 DEF Outcome, Resolved
  <2>3. \A r \in Log : IF r \in H THEN outcome'[r] \in Resolved ELSE outcome'[r] = outcome[r]
    BY <1>2, <1>3, <2>1 DEF Resolved
  <2> QED BY <1>4, <1>5, <2>2, <2>3 DEF SettlesBatch, FirstInLine
<1>7. Carried(lane', input', depth') /\ depth' \in [Queue -> Nat]
  BY <1>2, <1>5 DEF Carried
<1>8. Settling
  BY <1>5, <1>6 DEF Settling, FirstInLine
<1> QED BY <1>7, <1>8, CarriedTypes, CarriedKeeps

(* After a group the worker goes on with the next one, or with a new       *)
(* batch.                                                                  *)
LEMMA NextGroupWorker ==
  ASSUME WorkerInv, wpc = "send", NextGroup, pending' = pending PROVE WorkerInv'
BY DEF WorkerInv, NextGroup, Filling, Exporting, Ended

(* The collector accepted a group, or a part of it.                        *)
LEMMA SendAcceptedKeeps == ASSUME IInv, SendAccepted PROVE WorkKeeps
<1>1. /\ wpc = "send" /\ Alive /\ SameProducers /\ UNCHANGED <<lane, input, pending, depth>>
      /\ NextGroup /\ stack' = Tail(stack)
  BY DEF SendAccepted, SendUnchanged, WorkerUnchanged, SameProducers, Alive, Ended, NextGroup
<1>2. WorkerInv /\ stack # <<>>
  BY <1>1 DEF IInv, WorkerInv, Exporting
<1>3. PICK lost \in SUBSET ToSet(Head(stack)) : Resolve(ToSet(Head(stack)), lost)
  BY DEF SendAccepted
<1> QED BY <1>1, <1>2, <1>3, ResolveKeeps, NextGroupWorker DEF WorkKeeps

(* The collector found a group invalid: it is split, or settled when it is *)
(* one record.                                                             *)
LEMMA SendInvalidKeeps == ASSUME IInv, SendInvalid PROVE WorkKeeps
<1>1. /\ wpc = "send" /\ Alive /\ SameProducers /\ UNCHANGED <<lane, input, pending, depth>>
  BY DEF SendInvalid, SendUnchanged, WorkerUnchanged, SameProducers, Alive, Ended
<1>2. WorkerInv /\ stack # <<>>
  BY <1>1 DEF IInv, WorkerInv, Exporting
<1>3. CASE Resolve(ToSet(Head(stack)), ToSet(Head(stack))) /\ NextGroup
  <2>1. stack' = Tail(stack) /\ ToSet(Head(stack)) \in SUBSET ToSet(Head(stack))
    BY <1>3 DEF NextGroup
  <2> QED BY <1>1, <1>2, <1>3, <2>1, ResolveKeeps, NextGroupWorker DEF WorkKeeps
<1>4. CASE /\ Len(Head(stack)) > 1 /\ stack' = Split(Head(stack)) \o Tail(stack)
           /\ UNCHANGED <<wpc, outcome, counted, trackerVars, woken, status, inflight>>
  <2>1. /\ TypeOK /\ Pipeline(lane, input, pending, stack, outcome)
        /\ DepthExact(depth, pending, stack, outcome) /\ depth \in [Queue -> Nat]
    BY <1>1, AliveState DEF TypeOK
  <2>2. GroupsOK(stack') /\ InGroups(stack') = InGroups(stack) /\ stack' # <<>>
    BY <1>2, <1>4, <2>1, SplitGroups DEF Pipeline
  <2>3. Pipeline(lane, input, pending, stack', outcome)
    BY <2>1, <2>2 DEF Pipeline
  <2>4. DepthExact(depth, pending, stack', outcome)
    BY <2>1, <2>2 DEF DepthExact, Waiting
  <2>5. Carried(lane', input', depth') /\ depth' \in [Queue -> Nat]
    BY <1>1, <1>4, <2>1, <2>3, <2>4 DEF Carried
  <2>6. WorkerInv' /\ Settling
    BY <1>1, <1>2, <1>4, <2>2 DEF WorkerInv, Filling, Exporting, Ended, Settling
  <2> QED BY <1>1, <2>5, <2>6, CarriedTypes, CarriedKeeps DEF WorkKeeps
<1> QED BY <1>3, <1>4 DEF SendInvalid
-----------------------------------------------------------------------------
(* The worker's other steps, the flush callers and the handle.              *)

(* A step that moves no record keeps the invariant.                        *)
LEMMA QuietKeeps ==
  ASSUME IInv, SameProducers, WorkerInv', Alive' => Alive,
         UNCHANGED <<lane, input, pending, stack, depth, outcome, trackerVars>>
  PROVE  WorkKeeps
<1>1. DataTypes' /\ Settling
  BY DEF IInv, TypeOK, DataTypes, Settling
<1>2. CASE Alive
  <2>1. Pipeline(lane', input', pending', stack', outcome') /\ DepthExact(depth', pending', stack', outcome')
    BY <1>2, AliveState
  <2> QED BY <1>1, <2>1, PipelineFrame, SamePushing DEF WorkKeeps
<1>3. CASE ~Alive
  BY <1>1, <1>3 DEF WorkKeeps, Alive, PipelineInv
<1> QED BY <1>2, <1>3

QuietWork ==
    \/ AwaitReceive \/ GatherEnds \/ StartExport \/ SendRetryable \/ BackoffEnds \/ SendTerminal \/ BatchExported
    \/ DrainCompletes \/ AwaitRecords \/ TerminalParks \/ AwaitShutdown \/ AwaitFence

(* The steps of the worker that move no record.                            *)
LEMMA QuietWorkKeeps == ASSUME IInv, QuietWork PROVE WorkKeeps
<1> USE DEF SameProducers, SendUnchanged, WorkerUnchanged, EndUnchanged, AwaitUnchanged, AwaitNotified,
            WorkerInv, Filling, Exporting, Ended, Alive
<1>1. WorkerInv /\ TypeOK
  BY DEF IInv
<1>2. Alive /\ SameProducers /\ UNCHANGED <<lane, input, pending, stack, depth, outcome, trackerVars>>
  BY DEF QuietWork, AwaitReceive, GatherEnds, StartExport, SendRetryable, BackoffEnds, SendTerminal, BatchExported,
         DrainCompletes, AwaitRecords, TerminalParks, AwaitShutdown, AwaitFence
<1>3. \/ wpc = "receive" /\ wpc' = "top"
      \/ wpc = "gather" /\ wpc' = "batched"
      \/ wpc \in Exporting /\ wpc' \in Exporting
      \/ wpc = "batched" /\ wpc' = "send"
      \/ wpc = "exported" /\ wpc' = "top"
      \/ wpc = "drained" /\ wpc' \in {"await_records", "stopped"}
      \/ wpc = "await_records" /\ wpc' = "top"
  BY DEF QuietWork, AwaitReceive, GatherEnds, StartExport, SendRetryable, BackoffEnds, SendTerminal, BatchExported,
         DrainCompletes, AwaitRecords, TerminalParks, AwaitShutdown, AwaitFence
<1>4. Len(stack) = 1 => stack # <<>>
  OBVIOUS
<1>5. stack' = stack /\ pending' = pending
  BY <1>2
<1>6. WorkerInv'
  BY <1>1, <1>3, <1>4, <1>5
<1> QED BY <1>2, <1>6, QuietKeeps

(* A terminal failure settles all that is left as dropped at shutdown.     *)
LEMMA TerminalStopsKeeps == ASSUME IInv, TerminalStops PROVE WorkKeeps
<1>1. /\ WorkerInv /\ TypeOK /\ wpc = "term_fence" /\ SameProducers /\ Settling
  BY DEF IInv, TerminalStops, EndUnchanged, SameProducers, Settling
<1>2. CASE ~producers_closed
  <2>1. wpc' = "term_records" /\ UNCHANGED <<lane, input, pending, stack, depth, outcome, trackerVars>>
    BY <1>2 DEF TerminalStops, EndUnchanged
  <2>2. WorkerInv' /\ (Alive' => Alive)
    BY <1>1, <2>1 DEF WorkerInv, Filling, Exporting, Ended, Alive
  <2> QED BY <1>1, <2>1, <2>2, QuietKeeps
<1>3. CASE producers_closed
  <2>1. /\ lane' = NoLanes /\ input' = [q \in Queue |-> <<>>] /\ pending' = <<>> /\ stack' = <<>>
        /\ depth' = [q \in Queue |-> 0] /\ wpc' = "stopped"
    BY <1>3 DEF TerminalStops
  <2>2. DataTypes'
    BY <2>1 DEF DataTypes, NoLanes
  <2>3. WorkerInv' /\ PipelineInv'
    BY <2>1 DEF WorkerInv, PipelineInv, Filling, Exporting, Ended
  <2> QED BY <1>1, <2>2, <2>3 DEF WorkKeeps
<1> QED BY <1>2, <1>3

(* Every step of the worker keeps the producers' and the pipeline's parts  *)
(* of the invariant.                                                       *)
LEMMA WorkPipeline == ASSUME IInv, Work PROVE WorkKeeps
<1>1. CASE QuietWork
  BY <1>1, QuietWorkKeeps
<1>2. CASE Top \/ Fill \/ GatherReceives
  BY <1>2, TopKeeps, FillKeeps, GatherReceivesKeeps
<1>3. CASE SendAccepted \/ SendInvalid \/ TerminalStops
  BY <1>3, SendAcceptedKeeps, SendInvalidKeeps, TerminalStopsKeeps
<1> QED BY <1>1, <1>2, <1>3 DEF Work, QuietWork

Flushing == \E f \in Flusher : FlushCalls(f) \/ Flush(f) \/ FlushTimesOut(f)
Handling == (\E c \in ClosingKinds : Close(c)) \/ Handle \/ JoinTimesOut

(* A flush caller moves no record.                                         *)
LEMMA FlushPipeline == ASSUME IInv, Flushing PROVE WorkKeeps /\ FlushUnchanged
<1>1. FlushUnchanged
  BY DEF Flushing, Flush, FlushCalls, FlushArms, FlushChecks, FlushChecksStatus, FlushWakes, FlushTimesOut
<1>2. /\ SameProducers /\ UNCHANGED <<lane, input, pending, stack, depth, outcome, trackerVars>> /\ wpc' = wpc
  BY <1>1 DEF FlushUnchanged, producerVars, workerVars, SameProducers
<1>3. WorkerInv' /\ (Alive' => Alive)
  BY <1>2 DEF IInv, WorkerInv, Alive
<1> QED BY <1>1, <1>2, <1>3, QuietKeeps

(* The owner of the exporter moves no record.                              *)
LEMMA HandlePipeline == ASSUME IInv, Handling PROVE WorkKeeps
<1> USE DEF HandleUnchanged, producerVars, workerVars, trackerVars, SameProducers, WorkerInv, Alive
<1>1. WorkerInv /\ TypeOK
  BY DEF IInv
<1>2. CASE \/ \E c \in ClosingKinds : Close(c)
           \/ StopAccepting \/ MarkShuttingDown \/ ReleaseSink \/ Joins \/ DropAborts \/ ShutdownDropsHandle
           \/ JoinTimesOut
  <2>1. /\ SameProducers /\ UNCHANGED <<lane, input, pending, stack, depth, outcome, trackerVars>> /\ wpc' = wpc
    BY <1>2 DEF Close, StopAccepting, MarkShuttingDown, ReleaseSink, Joins, DropAborts, ShutdownDropsHandle, JoinTimesOut
  <2>2. WorkerInv' /\ (Alive' => Alive)
    BY <1>1, <2>1
  <2> QED BY <2>1, <2>2, QuietKeeps
<1>3. CASE WorkerAborts
  <2>1. /\ SameProducers /\ UNCHANGED <<lane, input, pending, stack, depth, outcome, trackerVars>>
        /\ wpc' = "aborted" /\ wpc \in Awaiting
    BY <1>3 DEF WorkerAborts
  <2>2. WorkerInv' /\ (Alive' => Alive)
    BY <2>1 DEF Filling, Exporting, Ended
  <2> QED BY <2>1, <2>2, QuietKeeps
<1>4. CASE DrainFails
  <2>1. /\ SameProducers /\ UNCHANGED <<lane, input, pending, stack, outcome, trackerVars>>
        /\ depth' = [q \in Queue |-> 0] /\ wpc' = wpc /\ wpc \in Ended
    BY <1>4 DEF DrainFails, Ended
  <2>2. DataTypes' /\ Settling /\ WorkerInv' /\ PipelineInv'
    BY <1>1, <2>1 DEF TypeOK, DataTypes, Settling, PipelineInv
  <2> QED BY <2>1, <2>2 DEF WorkKeeps
<1> QED BY <1>2, <1>3, <1>4 DEF Handling, Handle
-----------------------------------------------------------------------------
(* The producers.                                                           *)

(* A producer at work has a record of its own.                             *)
LEMMA CurrentRecord ==
  ASSUME IInv, NEW p \in Producer, ppc[p] # "idle"
  PROVE  current[p] \in Log /\ Thread[current[p]] = p
BY DEF IInv, RecordInv

(* A step that accepts no record and settles none keeps the pipeline.      *)
LEMMA SameAccepted ==
  ASSUME NEW la, NEW in, NEW pe, NEW st, NEW out, NEW dp, NEW new,
         Pipeline(la, in, pe, st, out), DepthExact(dp, pe, st, out), Pushing \subseteq Log,
         \A r \in Log : new[r] = "accepted" <=> out[r] = "accepted"
  PROVE  Pipeline(la, in, pe, st, new) /\ DepthExact(dp, pe, st, new)
<1>1. InGroups(st) \cup InPending(pe) \cup InInbox(in) \cup InLanes(la) \cup Pushing \subseteq Log
  BY DEF InGroups, InPending, InInbox, InLanes
<1>2. Chain(InGroups(st), InPending(pe), InInbox(in), InLanes(la), Pushing, new)
  BY <1>1 DEF Pipeline, Chain
<1>3. \A q \in Queue : Waiting(q, pe, st, new) = Waiting(q, pe, st, out)
  BY DEF Waiting
<1> QED BY <1>2, <1>3 DEF Pipeline, DepthExact

(* Steps that change no ticket, kind, lane or count of accepted records.    *)
LEMMA QuietProducer ==
  ASSUME IInv, Pushing' = Pushing, UNCHANGED <<ticket, kind, lane, input, pending, stack, depth, wpc>>,
         \A r \in Log : outcome'[r] = "accepted" <=> outcome[r] = "accepted"
  PROVE  PipelineInv'
<1>1. CASE Alive
  <2>1. Pipeline(lane, input, pending, stack, outcome) /\ DepthExact(depth, pending, stack, outcome)
    BY <1>1, AliveState
  <2>2. Pushing \subseteq Log
    BY PushingRecords DEF IInv
  <2>3. Pipeline(lane, input, pending, stack, outcome') /\ DepthExact(depth, pending, stack, outcome')
    BY <2>1, <2>2, SameAccepted
  <2> QED BY <2>3, PipelineFrame
<1>2. CASE ~Alive
  BY <1>2 DEF Alive, PipelineInv
<1> QED BY <1>1, <1>2

ProducerKeeps == RecordInv' /\ TrackerInv' /\ LaneOrderKept' /\ PipelineInv' /\ WorkerInv'

(* A producer's step leaves the worker alone.                              *)
LEMMA WorkerSame ==
  ASSUME IInv, ProducerUnchanged PROVE WorkerInv' /\ UNCHANGED <<input, pending, stack, wpc>>
BY DEF IInv, WorkerInv, ProducerUnchanged, workerVars

(* The core logger dispatches a record to a producer.                      *)
LEMMA DispatchKeeps ==
  ASSUME IInv, NEW p \in Producer, NEW r \in Log, Dispatch(p, r) PROVE ProducerKeeps
<1>1. /\ ppc[p] = "idle" /\ outcome[r] = "none" /\ Thread[r] = p
      /\ ppc' = [ppc EXCEPT ![p] = "loaded"] /\ current' = [current EXCEPT ![p] = r]
      /\ UNCHANGED <<lane, ticket, kind, next_ticket, outcome, depth, permit>> /\ ProducerUnchanged
  BY DEF Dispatch
<1>2. TypeOK /\ RecordInv /\ TrackerInv /\ LaneOrderKept
  BY DEF IInv
<1>3. \A p2 \in Producer : IF p2 = p THEN ppc'[p2] = "loaded" /\ current'[p2] = r
                                     ELSE ppc'[p2] = ppc[p2] /\ current'[p2] = current[p2]
  BY <1>1, <1>2 DEF TypeOK
<1>4. Pushing' = Pushing
  BY <1>1, <1>3 DEF Pushing
<1>5. RecordInv'
  BY <1>1, <1>2, <1>3 DEF RecordInv, AcceptedRecords
<1>6. TrackerInv' /\ LaneOrderKept'
  BY <1>1, <1>2 DEF TrackerInv, LaneOrderKept, ProducerUnchanged, trackerVars
<1> QED BY <1>1, <1>4, <1>5, <1>6, WorkerSame, QuietProducer DEF ProducerKeeps

(* Wake and Leave change the producer's place only.                         *)
MovesTo(p, place) ==
    /\ ppc[p] \in {"wake", "leave"} /\ place \in {"leave", "idle"} /\ ppc' = [ppc EXCEPT ![p] = place]
    /\ \A p2 \in Producer \ {p} : current'[p2] = current[p2]
    /\ current'[p] = IF place = "idle" THEN None ELSE current[p]
    /\ UNCHANGED <<lane, ticket, kind, next_ticket, outcome, depth, workerVars, trackerVars>>

(* A producer only moves on in its code.                                   *)
LEMMA PlaceKeeps ==
  ASSUME IInv, NEW p \in Producer, NEW place, MovesTo(p, place) PROVE ProducerKeeps
<1> USE DEF MovesTo
<1>2. TypeOK /\ RecordInv /\ TrackerInv /\ LaneOrderKept /\ WorkerInv
  BY DEF IInv
<1>3. \A p2 \in Producer : IF p2 = p THEN ppc'[p2] = place /\ current'[p2] = (IF place = "idle" THEN None ELSE current[p2])
                                     ELSE ppc'[p2] = ppc[p2] /\ current'[p2] = current[p2]
  BY <1>2 DEF TypeOK
<1>4. Pushing' = Pushing
  BY <1>3 DEF Pushing
<1>5. RecordInv'
  BY <1>2, <1>3 DEF RecordInv, AcceptedRecords
<1>6. TrackerInv' /\ LaneOrderKept' /\ WorkerInv'
  BY <1>2 DEF TrackerInv, LaneOrderKept, trackerVars, workerVars, WorkerInv
<1> QED BY <1>4, <1>5, <1>6, QuietProducer DEF ProducerKeeps, workerVars

(* A producer wakes the worker.                                            *)
LEMMA WakeKeeps == ASSUME IInv, NEW p \in Producer, Wake(p) PROVE ProducerKeeps
<1>1. MovesTo(p, "leave")
  BY DEF Wake, ProducerUnchanged, MovesTo
<1> QED BY <1>1, PlaceKeeps

(* A producer returns from its dispatch.                                   *)
LEMMA LeaveKeeps == ASSUME IInv, NEW p \in Producer, Leave(p) PROVE ProducerKeeps
<1>1. current \in [Producer -> Log \cup {None}]
  BY DEF IInv, TypeOK
<1>2. MovesTo(p, "idle")
  BY <1>1 DEF Leave, MovesTo
<1> QED BY <1>2, PlaceKeeps

(* A producer finds the generation closed and drops its record, or goes    *)
(* on.                                                                     *)
LEMMA CheckAcceptingKeeps ==
  ASSUME IInv, NEW p \in Producer, CheckAccepting(p) PROVE ProducerKeeps
<1> DEFINE r == current[p]
<1>1. /\ ppc[p] = "loaded" /\ UNCHANGED <<current, lane, ticket, kind, next_ticket, depth, permit>> /\ ProducerUnchanged
  BY DEF CheckAccepting
<1>2. TypeOK /\ RecordInv /\ TrackerInv /\ LaneOrderKept
  BY DEF IInv
<1>3. r \in Log /\ Thread[r] = p /\ outcome[r] = "none"
  BY <1>1, <1>2, CurrentRecord DEF RecordInv
<1>4. PICK place \in {"leave", "claim"}, o \in {"dropped_stopped", "filtered", "none"} :
         /\ ppc' = [ppc EXCEPT ![p] = place] /\ outcome' = [outcome EXCEPT ![r] = o]
         /\ place = "claim" => o = "none"
  BY DEF CheckAccepting
<1> HIDE DEF r
<1>5. /\ \A p2 \in Producer : IF p2 = p THEN ppc'[p2] = place ELSE ppc'[p2] = ppc[p2]
      /\ \A s \in Log : IF s = r THEN outcome'[s] = o ELSE outcome'[s] = outcome[s]
  BY <1>2, <1>3, <1>4 DEF TypeOK
<1>6. Pushing' = Pushing
  BY <1>1, <1>5 DEF Pushing
<1>7. AcceptedRecords' = AcceptedRecords
  BY <1>3, <1>4, <1>5 DEF AcceptedRecords, Resolved
<1>8. RecordInv'
  <2>1. ASSUME NEW p2 \in Producer
        PROVE  /\ ppc'[p2] = "idle" => current'[p2] = None
               /\ ppc'[p2] # "idle" => current'[p2] \in Log /\ Thread[current'[p2]] = p2
               /\ ppc'[p2] \in {"loaded", "claim"} => outcome'[current'[p2]] = "none"
    BY <1>1, <1>2, <1>3, <1>4, <1>5 DEF RecordInv, r
  <2> QED BY <1>1, <1>2, <1>7, <2>1 DEF RecordInv
<1>9. TrackerInv' /\ LaneOrderKept'
  BY <1>1, <1>2, <1>3, <1>4, <1>5 DEF TrackerInv, LaneOrderKept, ProducerUnchanged, trackerVars, Resolved
<1>10. \A s \in Log : outcome'[s] = "accepted" <=> outcome[s] = "accepted"
  BY <1>3, <1>4, <1>5
<1> QED BY <1>1, <1>6, <1>8, <1>9, <1>10, WorkerSame, QuietProducer DEF ProducerKeeps

(* A record pushed at the end of a lane joins the records in the lanes.     *)
LEMMA LanesGrow ==
  ASSUME lane \in [Producer -> [Queue -> Seq(Log)]], NEW p \in Producer, NEW q \in Queue, NEW r \in Log,
         lane' = [lane EXCEPT ![p][q] = Append(@, r)]
  PROVE  InLanes(lane') = InLanes(lane) \cup {r}
<1> DEFINE a == lane[p][q]
           b == Append(a, r)
<1>1. /\ lane'[p][q] = b
      /\ \A p2 \in Producer, q2 \in Queue : (p2 # p \/ q2 # q) => lane'[p2][q2] = lane[p2][q2]
  BY DEF a, b
<1>2. a \in Seq(Log)
  OBVIOUS
<1> HIDE DEF a
<1>3. /\ DOMAIN b = 1 .. Len(a) + 1 /\ b[Len(a) + 1] = r
      /\ DOMAIN a = 1 .. Len(a) /\ Len(a) \in Nat
      /\ \A i \in DOMAIN a : b[i] = a[i]
  BY <1>2
<1> HIDE DEF b
<1>4. \A i \in DOMAIN b : (i \in DOMAIN a /\ b[i] = a[i]) \/ b[i] = r
  BY <1>3
<1>5. ASSUME NEW s \in InLanes(lane') PROVE s \in InLanes(lane) \/ s = r
  <2>1. PICK p2 \in Producer, q2 \in Queue : \E i \in DOMAIN lane'[p2][q2] : lane'[p2][q2][i] = s
    BY DEF InLanes
  <2>2. s \in Log
    BY DEF InLanes
  <2>3. CASE p2 = p /\ q2 = q
    BY <1>1, <1>4, <2>1, <2>2, <2>3 DEF InLanes, a
  <2>4. CASE p2 # p \/ q2 # q
    BY <1>1, <2>1, <2>2, <2>4 DEF InLanes
  <2> QED BY <2>3, <2>4
<1>6. ASSUME NEW s \in InLanes(lane) PROVE s \in InLanes(lane')
  <2>1. PICK p2 \in Producer, q2 \in Queue : \E i \in DOMAIN lane[p2][q2] : lane[p2][q2][i] = s
    BY DEF InLanes
  <2>2. s \in Log
    BY DEF InLanes
  <2>3. CASE p2 = p /\ q2 = q
    <3>1. PICK i \in DOMAIN a : a[i] = s
      BY <2>1, <2>3 DEF a
    <3>2. i \in DOMAIN b /\ b[i] = s
      BY <1>3, <3>1
    <3>3. \E j \in DOMAIN lane'[p][q] : lane'[p][q][j] = s
      BY <1>1, <3>2
    <3> QED BY <2>2, <3>3 DEF InLanes
  <2>4. CASE p2 # p \/ q2 # q
    <3>1. \E i \in DOMAIN lane'[p2][q2] : lane'[p2][q2][i] = s
      BY <1>1, <2>1, <2>4
    <3> QED BY <2>2, <3>1 DEF InLanes
  <2> QED BY <2>3, <2>4
<1>7. r \in InLanes(lane')
  <2>1. Len(a) + 1 \in DOMAIN b /\ b[Len(a) + 1] = r
    BY <1>3
  <2> QED BY <1>1, <2>1 DEF InLanes
<1> QED BY <1>5, <1>6, <1>7

(* The record leaves the producer's hands and joins the end of its lane.    *)
LEMMA PushKeeps == ASSUME IInv, NEW p \in Producer, Push(p) PROVE ProducerKeeps
<1> DEFINE r == current[p]
           q == kind[r]
<1>1. /\ ppc[p] = "push" /\ lane' = [lane EXCEPT ![p][q] = Append(@, r)]
      /\ ppc' = [ppc EXCEPT ![p] = IF LaneIsEmpty(p) THEN "wake" ELSE "leave"]
      /\ UNCHANGED <<current, ticket, kind, next_ticket, outcome, depth, permit>> /\ ProducerUnchanged
  BY DEF Push
<1>2. TypeOK /\ RecordInv /\ TrackerInv /\ LaneOrderKept
  BY DEF IInv
<1>3. r \in Log /\ Thread[r] = p /\ q \in Queue /\ lane \in [Producer -> [Queue -> Seq(Log)]]
  BY <1>1, <1>2, CurrentRecord DEF TypeOK
<1>4. \A p2 \in Producer : IF p2 = p THEN ppc'[p2] \in {"wake", "leave"} ELSE ppc'[p2] = ppc[p2]
  BY <1>1, <1>2 DEF TypeOK
<1>5. RecordInv'
  BY <1>1, <1>2, <1>4 DEF RecordInv, AcceptedRecords
<1>6. TrackerInv' /\ LaneOrderKept'
  BY <1>1, <1>2 DEF TrackerInv, LaneOrderKept, ProducerUnchanged, trackerVars
<1>7. Pushing \subseteq Log /\ r \in Pushing
  BY <1>1, <1>2, PushingRecords DEF Pushing
<1>8. Pushing' = Pushing \ {r} /\ \A s \in Pushing' : Thread[s] # p
  <2>1. \A p2 \in Producer : ppc[p2] = "push" => Thread[current[p2]] = p2
    BY <1>2 DEF RecordInv
  <2>2. ASSUME NEW s PROVE s \in Pushing' <=> \E p2 \in Producer : p2 # p /\ ppc[p2] = "push" /\ s = current[p2]
    BY <1>1, <1>4 DEF Pushing
  <2>3. ASSUME NEW s PROVE s \in Pushing <=> \E p2 \in Producer : ppc[p2] = "push" /\ s = current[p2]
    BY DEF Pushing
  <2>4. \A s \in Pushing' : Thread[s] # p
    BY <2>1, <2>2
  <2>5. ASSUME NEW s PROVE s \in Pushing' <=> s \in Pushing \ {r}
    <3>1. ASSUME s \in Pushing' PROVE s \in Pushing \ {r}
      <4>1. PICK p2 \in Producer : p2 # p /\ ppc[p2] = "push" /\ s = current[p2]
        BY <2>2, <3>1
      <4>2. Thread[s] = p2 /\ s # r
        BY <4>1, <2>1, <1>3
      <4> QED BY <4>1, <4>2, <2>3
    <3>2. ASSUME s \in Pushing \ {r} PROVE s \in Pushing'
      BY <2>2, <2>3, <3>2
    <3> QED BY <3>1, <3>2
  <2> QED BY <2>4, <2>5
<1> HIDE DEF r, q
<1>9. ASSUME Alive PROVE PipelineInv'
  <2> DEFINE a == lane[p][q]
             b == Append(a, r)
  <2>1. Pipeline(lane, input, pending, stack, outcome) /\ DepthExact(depth, pending, stack, outcome)
    BY <1>9, AliveState
  <2>2. /\ LanesOK(lane) /\ AllAhead(InLanes(lane), Pushing)
        /\ Chain(InGroups(stack), InPending(pending), InInbox(input), InLanes(lane), Pushing, outcome)
    BY <2>1 DEF Pipeline, Chain
  <2>3. a \in Seq(Log) /\ Sorted(a) /\ (\A i \in DOMAIN a : Thread[a[i]] = p /\ kind[a[i]] = q)
    BY <1>3, <2>2 DEF LanesOK
  <2>4. \A i \in DOMAIN a : a[i] \in InLanes(lane)
    BY <1>3, <2>3 DEF InLanes
  <2>5. /\ lane'[p][q] = b
        /\ \A p2 \in Producer, q2 \in Queue : (p2 # p \/ q2 # q) => lane'[p2][q2] = lane[p2][q2]
    BY <1>1, <1>3
  <2> HIDE DEF a
  <2>6. \A i \in DOMAIN a : Ahead(a[i], r)
    BY <1>7, <2>2, <2>4 DEF AllAhead
  <2>7. /\ b \in Seq(Log) /\ Sorted(b) /\ DOMAIN b = 1 .. Len(a) + 1 /\ b[Len(a) + 1] = r
        /\ \A i \in DOMAIN a : b[i] = a[i]
    BY <1>3, <2>3, <2>6, SortedAppend
  <2>8. DOMAIN a = 1 .. Len(a) /\ Len(a) \in Nat
    BY <2>3
  <2> HIDE DEF b
  <2>9. \A i \in DOMAIN b : (i \in DOMAIN a /\ b[i] = a[i]) \/ (i = Len(a) + 1 /\ b[i] = r)
    BY <2>7, <2>8
  <2>10. \A i \in DOMAIN b : Thread[b[i]] = p /\ kind[b[i]] = q
    BY <1>3, <2>3, <2>9 DEF q
  <2>11. lane' \in [Producer -> [Queue -> Seq(Log)]]
    BY <1>1, <1>3, <2>7 DEF b, a
  <2>12. LanesOK(lane')
    <3>1. ASSUME NEW p2 \in Producer, NEW q2 \in Queue
          PROVE  /\ \A i \in DOMAIN lane'[p2][q2] : Thread[lane'[p2][q2][i]] = p2 /\ kind[lane'[p2][q2][i]] = q2
                 /\ Sorted(lane'[p2][q2])
      <4>1. CASE p2 = p /\ q2 = q
        BY <4>1, <2>5, <2>7, <2>10
      <4>2. CASE p2 # p \/ q2 # q
        BY <4>2, <2>2, <2>5 DEF LanesOK
      <4> QED BY <4>1, <4>2
    <3> QED BY <2>11, <3>1 DEF LanesOK
  <2>13. InLanes(lane') = InLanes(lane) \cup {r}
    BY <1>1, <1>2, <1>3, LanesGrow
  <2>14. \A s \in Pushing' : Ahead(r, s)
    BY <1>3, <1>7, <1>8 DEF Ahead
  <2>15. Chain(InGroups(stack), InPending(pending), InInbox(input), InLanes(lane'), Pushing', outcome)
    <3> DEFINE S == InGroups(stack)
               P == InPending(pending)
               I == InInbox(input)
               L == InLanes(lane)
    <3>1. Chain(S, P, I, L, Pushing, outcome) /\ r \in Pushing /\ Pushing' = Pushing \ {r}
      BY <1>7, <1>8, <2>2
    <3> HIDE DEF S, P, I, L
    <3>2. Chain(S, P, I, L \cup {r}, Pushing', outcome)
      BY <3>1, <2>14 DEF Chain, AllAhead
    <3> QED BY <3>2, <2>13 DEF S, P, I, L
  <2>16. UNCHANGED <<input, pending, stack, depth, outcome, ticket, kind>>
    BY <1>1, WorkerSame
  <2> QED BY <2>1, <2>12, <2>15, <2>16, PipelinePrimed DEF Pipeline
<1>10. PipelineInv'
  BY <1>1, <1>9, WorkerSame DEF PipelineInv, Alive
<1> QED BY <1>1, <1>5, <1>6, <1>10, WorkerSame DEF ProducerKeeps
-----------------------------------------------------------------------------
(* Admission: the record takes the next ticket and joins those being pushed. *)

(* The producer's record r, none of the accepted ones, becomes the last of  *)
(* them.                                                                    *)
Granted(p, r, q) ==
    /\ ppc[p] = "claim" /\ r \in Log /\ r = current[p] /\ outcome[r] = "none" /\ q \in Queue
    /\ ppc' = [ppc EXCEPT ![p] = "push"]
    /\ kind' = [kind EXCEPT ![r] = q]
    /\ next_ticket' = next_ticket + 1
    /\ ticket' = [ticket EXCEPT ![r] = next_ticket + 1]
    /\ outcome' = [outcome EXCEPT ![r] = "accepted"]
    /\ depth' = [depth EXCEPT ![q] = @ + 1]
    /\ UNCHANGED <<current, lane>> /\ ProducerUnchanged

(* What Granted changes, record by record.                                  *)
OneMore(r, q) ==
    /\ \A s \in Log : IF s = r
                      THEN kind'[s] = q /\ ticket'[s] = next_ticket + 1 /\ outcome'[s] = "accepted"
                      ELSE kind'[s] = kind[s] /\ ticket'[s] = ticket[s] /\ outcome'[s] = outcome[s]
    /\ \A q2 \in Queue : depth'[q2] = IF q2 = q THEN depth[q2] + 1 ELSE depth[q2]
    /\ next_ticket' = next_ticket + 1
    /\ \A s \in Log : ticket[s] <= next_ticket

(* An admission changes the outcome, kind and ticket of one record.        *)
LEMMA GrantedOne ==
  ASSUME IInv, NEW p \in Producer, NEW r, NEW q, Granted(p, r, q)
  PROVE  /\ OneMore(r, q) /\ r \in Log /\ q \in Queue
         /\ ticket[r] = 0 /\ next_ticket \in Nat /\ ticket \in [Log -> Nat] /\ outcome[r] = "none"
<1>1. TypeOK /\ RecordInv
  BY DEF IInv
<1>2. OneMore(r, q)
  BY <1>1 DEF Granted, OneMore, TypeOK, RecordInv
<1>3. next_ticket \in Nat /\ ticket \in [Log -> Nat] /\ outcome[r] = "none" /\ r \in Log /\ q \in Queue
  BY <1>1 DEF Granted, TypeOK
<1>4. r \notin AcceptedRecords
  BY <1>3 DEF AcceptedRecords, Resolved
<1>5. ~(ticket[r] > 0)
  BY <1>1, <1>3, <1>4 DEF RecordInv
<1> QED BY <1>2, <1>3, <1>5

(* An admission keeps the tickets dense, the tracker exact and the lanes   *)
(* in order.                                                               *)
LEMMA GrantedRecords ==
  ASSUME IInv, NEW p \in Producer, NEW r, NEW q, Granted(p, r, q)
  PROVE  RecordInv' /\ TrackerInv' /\ LaneOrderKept' /\ AcceptedRecords' = AcceptedRecords \cup {r}
<1>1. /\ OneMore(r, q) /\ r \in Log /\ q \in Queue
      /\ ticket[r] = 0 /\ next_ticket \in Nat /\ ticket \in [Log -> Nat] /\ outcome[r] = "none"
  BY GrantedOne
<1>2. TypeOK /\ RecordInv /\ TrackerInv /\ LaneOrderKept
  BY DEF IInv
<1>3. AcceptedRecords' = AcceptedRecords \cup {r}
  <2>1. \A s \in Log : s # r => outcome'[s] = outcome[s]
    BY <1>1 DEF OneMore
  <2>2. outcome'[r] = "accepted"
    BY <1>1 DEF OneMore
  <2> QED BY <1>1, <2>1, <2>2 DEF AcceptedRecords
<1>4. RecordInv'
  <2>1. ASSUME NEW p2 \in Producer
        PROVE  /\ ppc'[p2] = "idle" => current'[p2] = None
               /\ ppc'[p2] # "idle" => current'[p2] \in Log /\ Thread[current'[p2]] = p2
               /\ ppc'[p2] \in {"loaded", "claim"} => outcome'[current'[p2]] = "none"
    <3>1. /\ current' = current /\ ppc[p] = "claim"
          /\ ppc'[p2] = (IF p2 = p THEN "push" ELSE ppc[p2])
          /\ current[p] = r
      BY <1>2 DEF Granted, TypeOK
    <3>2. /\ ppc[p2] = "idle" => current[p2] = None
          /\ ppc[p2] # "idle" => current[p2] \in Log /\ Thread[current[p2]] = p2
          /\ ppc[p2] \in {"loaded", "claim"} => outcome[current[p2]] = "none"
      BY <1>2 DEF RecordInv
    <3>3. Thread[r] = p
      BY <1>2, <3>1 DEF RecordInv
    <3>4. p2 # p /\ ppc[p2] # "idle" => current[p2] # r
      BY <3>2, <3>3
    <3> QED BY <1>1, <3>1, <3>2, <3>4 DEF OneMore
  <2>2. \A s \in Log : ticket'[s] <= next_ticket' /\ (ticket'[s] > 0 <=> s \in AcceptedRecords')
    BY <1>1, <1>2, <1>3 DEF OneMore, RecordInv
  <2>3. \A s, t \in Log : ticket'[s] = ticket'[t] /\ ticket'[s] > 0 => s = t
    BY <1>1, <1>2 DEF OneMore, RecordInv
  <2>4. ASSUME NEW i \in 1 .. next_ticket' PROVE \E s \in Log : ticket'[s] = i
    <3>1. CASE i = next_ticket + 1
      BY <1>1, <3>1 DEF OneMore
    <3>2. CASE i # next_ticket + 1
      <4>1. i \in 1 .. next_ticket
        BY <1>1, <3>2 DEF OneMore
      <4>2. PICK s \in Log : ticket[s] = i
        BY <1>2, <4>1 DEF RecordInv
      <4>3. s # r
        BY <1>1, <4>1, <4>2
      <4> QED BY <1>1, <4>2, <4>3 DEF OneMore
    <3> QED BY <3>1, <3>2
  <2> QED BY <2>1, <2>2, <2>3, <2>4 DEF RecordInv
<1>5. TrackerInv'
  <2>1. completed_ticket' = completed_ticket /\ out_of_order' = out_of_order /\ completed_ticket \in Nat
    BY <1>2 DEF Granted, ProducerUnchanged, trackerVars, TypeOK
  <2>2. completed_ticket <= next_ticket /\ out_of_order \subseteq (completed_ticket + 2) .. next_ticket
    BY <1>2 DEF TrackerInv
  <2>3. out_of_order \subseteq (completed_ticket + 2) .. next_ticket'
    BY <1>1, <2>1, <2>2 DEF OneMore
  <2>4. completed_ticket <= next_ticket'
    BY <1>1, <2>1, <2>2 DEF OneMore
  <2>5. ASSUME NEW s \in Log
        PROVE  outcome'[s] \in Resolved <=> ticket'[s] \in (1 .. completed_ticket) \cup out_of_order
    <3>1. outcome[s] \in Resolved <=> ticket[s] \in (1 .. completed_ticket) \cup out_of_order
      BY <1>2 DEF TrackerInv
    <3>2. CASE s = r
      <4>1. outcome'[s] \notin Resolved /\ ticket'[s] = next_ticket + 1
        BY <1>1, <3>2 DEF OneMore, Resolved
      <4> QED BY <1>1, <2>1, <2>2, <4>1
    <3>3. CASE s # r
      BY <1>1, <3>1, <3>3 DEF OneMore
    <3> QED BY <3>2, <3>3
  <2> QED BY <2>1, <2>3, <2>4, <2>5 DEF TrackerInv
<1>6. LaneOrderKept'
  <2>1. ASSUME NEW s \in Log, NEW t \in Log,
               /\ Thread[s] = Thread[t] /\ kind'[s] = kind'[t]
               /\ 0 < ticket'[s] /\ ticket'[s] < ticket'[t]
               /\ outcome'[t] = "exported"
        PROVE  outcome'[s] \in Resolved
    <3>1. t # r /\ outcome[t] = "exported" /\ ticket'[t] = ticket[t] /\ ticket[t] <= next_ticket /\ kind'[t] = kind[t]
      BY <1>1, <2>1 DEF OneMore
    <3>2. s # r
      BY <1>1, <2>1, <3>1 DEF OneMore
    <3>3. outcome'[s] = outcome[s] /\ ticket'[s] = ticket[s] /\ kind'[s] = kind[s]
      BY <1>1, <3>2 DEF OneMore
    <3> QED BY <1>2, <2>1, <3>1, <3>3 DEF LaneOrderKept
  <2> QED BY <2>1 DEF LaneOrderKept
<1> QED BY <1>3, <1>4, <1>5, <1>6

(* Records other than the new one are ahead of each other as before, and    *)
(* every accepted record is ahead of the new one.                           *)
LEMMA GrantedAhead ==
  ASSUME NEW r \in Log, NEW q, OneMore(r, q), next_ticket \in Nat, ticket \in [Log -> Nat]
  PROVE  /\ \A s, t \in Log \ {r} : Ahead(s, t) => Ahead(s, t)'
         /\ \A s \in Log \ {r} : Ahead(s, r)'
BY DEF OneMore, Ahead

(* An admission keeps every stage in order.                                *)
LEMMA GrantedStages ==
  ASSUME NEW r \in Log, NEW q, OneMore(r, q), next_ticket \in Nat, ticket \in [Log -> Nat], outcome[r] = "none",
         Pipeline(lane, input, pending, stack, outcome), UNCHANGED <<lane, input, pending, stack>>
  PROVE  LanesOK(lane)' /\ InboxOK(input)' /\ PendingOK(pending)' /\ GroupsOK(stack)'
<1>1. /\ LanesOK(lane) /\ InboxOK(input) /\ PendingOK(pending) /\ GroupsOK(stack)
      /\ \A s \in InGroups(stack) \cup InInbox(input) \cup InLanes(lane) : s # r
  BY DEF Pipeline, Chain
<1>2. \A s, t \in Log \ {r} : Ahead(s, t) => Ahead(s, t)'
  BY GrantedAhead
<1>3. \A s \in Log \ {r} : kind'[s] = kind[s]
  BY DEF OneMore
<1>4. LanesOK(lane)'
  <2>1. ASSUME NEW p2 \in Producer, NEW q2 \in Queue, NEW i \in DOMAIN lane[p2][q2]
        PROVE  lane[p2][q2][i] \in Log \ {r}
    <3>1. lane[p2][q2] \in Seq(Log)
      BY <1>1 DEF LanesOK
    <3>2. lane[p2][q2][i] \in Log
      BY <3>1
    <3> QED BY <1>1, <3>2 DEF InLanes
  <2>2. ASSUME NEW p2 \in Producer, NEW q2 \in Queue
        PROVE  /\ \A i \in DOMAIN lane[p2][q2] : Thread[lane[p2][q2][i]] = p2 /\ kind'[lane[p2][q2][i]] = q2
               /\ Sorted(lane[p2][q2])'
    BY <1>1, <1>2, <1>3, <2>1, SMTT(40) DEF LanesOK, Sorted
  <2> QED BY <1>1, <2>2 DEF LanesOK
<1>5. InboxOK(input)'
  <2>1. ASSUME NEW q2 \in Queue, NEW i \in DOMAIN input[q2]
        PROVE  input[q2][i] \in Log \ {r}
    <3>1. input[q2] \in Seq(Log)
      BY <1>1 DEF InboxOK
    <3>2. input[q2][i] \in Log
      BY <3>1
    <3> QED BY <1>1, <3>2 DEF InInbox
  <2>2. ASSUME NEW q2 \in Queue
        PROVE  Sorted(input[q2])' /\ \A i \in DOMAIN input[q2] : kind'[input[q2][i]] = q2
    BY <1>1, <1>2, <1>3, <2>1 DEF InboxOK, Sorted
  <2> QED BY <1>1, <2>2 DEF InboxOK
<1>6. GroupsOK(stack)'
  <2>1. ASSUME NEW g \in DOMAIN stack, NEW i \in DOMAIN stack[g]
        PROVE  stack[g][i] \in Log \ {r}
    <3>1. stack[g] \in Seq(Log)
      BY <1>1 DEF GroupsOK
    <3>2. stack[g][i] \in Log
      BY <3>1
    <3> QED BY <1>1, <3>2 DEF InGroups
  <2>2. \A g \in DOMAIN stack : stack[g] # <<>> /\ Sorted(stack[g])'
    BY <1>1, <1>2, <2>1 DEF GroupsOK, Sorted
  <2>3. \A g, k \in DOMAIN stack : g < k =>
          \A i \in DOMAIN stack[g], j \in DOMAIN stack[k] : Ahead(stack[g][i], stack[k][j])'
    BY <1>1, <1>2, <2>1 DEF GroupsOK
  <2> QED BY <1>1, <2>2, <2>3 DEF GroupsOK
<1> QED BY <1>1, <1>4, <1>5, <1>6 DEF PendingOK

(* The record admitted joins those being pushed, behind all that were      *)
(* accepted before.                                                        *)
LEMMA GrantedChain ==
  ASSUME NEW r \in Log, NEW q, OneMore(r, q), next_ticket \in Nat, ticket \in [Log -> Nat], outcome[r] = "none",
         Pushing' = Pushing \cup {r}, Pushing \subseteq Log,
         Pipeline(lane, input, pending, stack, outcome), UNCHANGED <<lane, input, pending, stack>>
  PROVE  Chain(InGroups(stack), InPending(pending), InInbox(input), InLanes(lane), Pushing, outcome)'
<1> DEFINE S == InGroups(stack)
           P == InPending(pending)
           I == InInbox(input)
           L == InLanes(lane)
<1>1. Chain(S, P, I, L, Pushing, outcome)
  BY DEF Pipeline
<1>2. S \cup P \cup I \cup L \cup Pushing \subseteq Log
  BY DEF InGroups, InPending, InInbox, InLanes
<1>3. S' = S /\ P' = P /\ I' = I /\ L' = L
  BY DEF InGroups, InPending, InInbox, InLanes
<1>4. /\ \A s, t \in Log \ {r} : Ahead(s, t) => Ahead(s, t)'
      /\ \A s \in Log \ {r} : Ahead(s, r)'
  BY GrantedAhead
<1>5. \A s \in S \cup P \cup I \cup L \cup Pushing : s \in Log \ {r}
  BY <1>1, <1>2 DEF Chain
<1>6. \A s \in Log : IF s = r THEN outcome'[s] = "accepted" ELSE outcome'[s] = outcome[s]
  BY DEF OneMore
<1> HIDE DEF S, P, I, L
<1>7. /\ \A s \in S, t \in P \cup I \cup L \cup Pushing \cup {r} : Ahead(s, t)'
      /\ \A s \in P, t \in I \cup L \cup Pushing \cup {r} : Ahead(s, t)'
      /\ \A s \in I, t \in L \cup Pushing \cup {r} : Ahead(s, t)'
      /\ \A s \in L, t \in Pushing \cup {r} : Ahead(s, t)'
  BY <1>1, <1>4, <1>5 DEF Chain, AllAhead
<1> QED BY <1>1, <1>3, <1>5, <1>6, <1>7 DEF Chain, AllAhead, S, P, I, L

(* The gauge of a queue counts the record admitted.                        *)
LEMMA GrantedDepth ==
  ASSUME NEW r \in Log, NEW q \in Queue, OneMore(r, q), outcome[r] = "none",
         Pipeline(lane, input, pending, stack, outcome), DepthExact(depth, pending, stack, outcome),
         UNCHANGED <<lane, input, pending, stack>>
  PROVE  DepthExact(depth, pending, stack, outcome)'
<1>1. r \notin InPending(pending) \cup InGroups(stack)
  BY DEF Pipeline, Chain
<1>2. InPending(pending)' = InPending(pending) /\ InGroups(stack)' = InGroups(stack)
  BY DEF InPending, InGroups
<1>3. ASSUME NEW q2 \in Queue
      PROVE  depth'[q2] = Cardinality(Waiting(q2, pending, stack, outcome)')
  <2> DEFINE W == Waiting(q2, pending, stack, outcome)
  <2>1. IsFiniteSet(W) /\ depth[q2] = Cardinality(W) /\ r \notin W
    <3>1. IsFiniteSet(W)
      BY WaitingFinite
    <3>2. depth[q2] = Cardinality(W)
      BY DEF DepthExact
    <3> QED BY <3>1, <3>2 DEF Waiting
  <2>2. CASE q2 = q
    <3>1. W' = W \cup {r}
      BY <1>1, <1>2, <2>2 DEF Waiting, OneMore
    <3> HIDE DEF W
    <3>2. Cardinality(W \cup {r}) = Cardinality(W) + 1
      BY <2>1, FS_AddElement
    <3>3. depth'[q2] = depth[q2] + 1
      BY <2>2 DEF OneMore
    <3> QED BY <2>1, <3>1, <3>2, <3>3 DEF W
  <2>3. CASE q2 # q
    <3>1. W' = W
      BY <1>1, <1>2, <2>3 DEF Waiting, OneMore
    <3>2. depth'[q2] = depth[q2]
      BY <2>3 DEF OneMore
    <3> QED BY <2>1, <3>1, <3>2
  <2> QED BY <2>2, <2>3
<1> QED BY <1>3 DEF DepthExact

(* An admission keeps the invariant.                                       *)
LEMMA GrantedKeeps ==
  ASSUME IInv, NEW p \in Producer, NEW r, NEW q, Granted(p, r, q) PROVE ProducerKeeps
<1>1. /\ OneMore(r, q) /\ r \in Log /\ q \in Queue
      /\ ticket[r] = 0 /\ next_ticket \in Nat /\ ticket \in [Log -> Nat] /\ outcome[r] = "none"
  BY GrantedOne
<1>2. RecordInv' /\ TrackerInv' /\ LaneOrderKept'
  BY GrantedRecords
<1>3. TypeOK /\ RecordInv
  BY DEF IInv
<1>4. WorkerInv' /\ UNCHANGED <<lane, input, pending, stack, wpc>>
  BY WorkerSame DEF Granted
<1>5. Pushing' = Pushing \cup {r}
  <2>1. \A p2 \in Producer : ppc'[p2] = (IF p2 = p THEN "push" ELSE ppc[p2]) /\ current'[p2] = current[p2]
    BY <1>3 DEF Granted, TypeOK
  <2>2. ppc[p] = "claim" /\ current[p] = r
    BY DEF Granted
  <2> QED BY <2>1, <2>2 DEF Pushing
<1>6. Pushing \subseteq Log
  BY <1>3, PushingRecords
<1>7. CASE Alive
  <2>1. Pipeline(lane, input, pending, stack, outcome) /\ DepthExact(depth, pending, stack, outcome)
    BY <1>7, AliveState
  <2>2. LanesOK(lane)' /\ InboxOK(input)' /\ PendingOK(pending)' /\ GroupsOK(stack)'
    BY <1>1, <1>4, <2>1, GrantedStages
  <2>3. Chain(InGroups(stack), InPending(pending), InInbox(input), InLanes(lane), Pushing, outcome)'
    BY <1>1, <1>4, <1>5, <1>6, <2>1, GrantedChain
  <2>4. DepthExact(depth, pending, stack, outcome)'
    BY <1>1, <1>4, <2>1, GrantedDepth
  <2> QED BY <1>2, <1>4, <2>2, <2>3, <2>4 DEF ProducerKeeps, PipelineInv, Pipeline
<1>8. CASE ~Alive
  BY <1>2, <1>4, <1>8 DEF ProducerKeeps, PipelineInv, Alive
<1> QED BY <1>7, <1>8

Refused(p, r) ==
    /\ ppc[p] = "claim" /\ r = current[p]
    /\ outcome' = [outcome EXCEPT ![r] = "dropped_full"]
    /\ ppc' = [ppc EXCEPT ![p] = "leave"]
    /\ UNCHANGED <<depth, kind, next_ticket, ticket, current, lane>> /\ ProducerUnchanged

(* A refusal for want of a slot keeps the invariant.                       *)
LEMMA RefusedKeeps ==
  ASSUME IInv, NEW p \in Producer, NEW r, Refused(p, r) PROVE ProducerKeeps
<1>1. /\ ppc[p] = "claim" /\ r = current[p]
      /\ UNCHANGED <<depth, kind, next_ticket, ticket, current, lane>> /\ ProducerUnchanged
  BY DEF Refused
<1>2. TypeOK /\ RecordInv /\ TrackerInv /\ LaneOrderKept
  BY DEF IInv
<1>3. r \in Log /\ Thread[r] = p /\ outcome[r] = "none"
  BY <1>1, <1>2, CurrentRecord DEF RecordInv
<1>4. /\ \A p2 \in Producer : ppc'[p2] = IF p2 = p THEN "leave" ELSE ppc[p2]
      /\ \A s \in Log : outcome'[s] = IF s = r THEN "dropped_full" ELSE outcome[s]
  BY <1>2, <1>3 DEF TypeOK, Refused
<1>5. Pushing' = Pushing
  BY <1>1, <1>4 DEF Pushing
<1>6. AcceptedRecords' = AcceptedRecords
  BY <1>3, <1>4 DEF AcceptedRecords, Resolved
<1>7. RecordInv'
  <2>1. ASSUME NEW p2 \in Producer
        PROVE  /\ ppc'[p2] = "idle" => current'[p2] = None
               /\ ppc'[p2] # "idle" => current'[p2] \in Log /\ Thread[current'[p2]] = p2
               /\ ppc'[p2] \in {"loaded", "claim"} => outcome'[current'[p2]] = "none"
    BY <1>1, <1>2, <1>3, <1>4 DEF RecordInv
  <2> QED BY <1>1, <1>2, <1>6, <2>1 DEF RecordInv
<1>8. TrackerInv' /\ LaneOrderKept'
  BY <1>1, <1>2, <1>3, <1>4 DEF TrackerInv, LaneOrderKept, ProducerUnchanged, trackerVars, Resolved
<1>9. \A s \in Log : outcome'[s] = "accepted" <=> outcome[s] = "accepted"
  BY <1>3, <1>4
<1> QED BY <1>1, <1>5, <1>7, <1>8, <1>9, WorkerSame, QuietProducer DEF ProducerKeeps

(* A claim is an admission to one queue or a refusal.                      *)
LEMMA ClaimCases ==
  ASSUME IInv, NEW p \in Producer, ClaimSlot(p)
  PROVE  \E r \in Log : /\ outcome[r] = "none"
                        /\ Refused(p, r) \/ \E q \in Queue : Granted(p, r, q)
<1>1. ppc[p] = "claim"
  BY DEF ClaimSlot
<1>2. PICK r \in Log : r = current[p] /\ outcome[r] = "none"
  BY <1>1, CurrentRecord DEF IInv, RecordInv
<1>3. Refused(p, r) \/ \E q \in Queue : Granted(p, r, q)
  BY <1>1, <1>2 DEF ClaimSlot, Refused, Granted, Queue
<1> QED BY <1>2, <1>3

(* Every step of a producer keeps the invariant.                           *)
LEMMA ProducePipeline ==
  ASSUME IInv, NEW p \in Producer, Produce(p) PROVE ProducerKeeps
<1>1. CASE ClaimSlot(p)
  BY <1>1, ClaimCases, RefusedKeeps, GrantedKeeps
<1> QED BY <1>1, CheckAcceptingKeeps, PushKeeps, WakeKeeps, LeaveKeeps DEF Produce
-----------------------------------------------------------------------------
(* Type correctness.                                                        *)

Counters == [exported : Nat, rejected : Nat, dropped_oversize : Nat, dropped_shutdown : Nat]

Reports == [by : {None, "worker", "handle"}, timed_out : BOOLEAN, remaining : Nat]

WorkerTypes ==
    /\ permit \in [shutdown : BOOLEAN, records : BOOLEAN, flush : BOOLEAN]
    /\ wpc \in WorkerPlace /\ shutting_down \in BOOLEAN
    /\ status \in Status /\ inflight \in Nat
    /\ counted \in Counters
    /\ woken \in [Flusher -> BOOLEAN]
    /\ report \in Reports
CallerTypes ==
    /\ accepting \in BOOLEAN /\ slot \in BOOLEAN /\ producers_closed \in BOOLEAN
    /\ fpc \in [Flusher -> {"idle", "arm", "done"} \cup Armed]
    /\ target \in [Flusher -> Nat]
    /\ result \in [Flusher -> {None, "Flushed", "TimedOut", "TerminalFailure", "Stopped"}]
    /\ hpc \in {"open", "stop_first", "mark_first", "release", "stop_again", "mark_again",
                "join", "aborting", "reported", "abort", "dropped"}
    /\ closing \in ClosingKinds \cup {None} /\ seen \in Status
    /\ promised \subseteq Log

(* The type invariant from its parts.                                      *)
LEMMA TypeParts ==
  ASSUME IInv, WorkKeeps, WorkerTypes', CallerTypes' PROVE TypeOK'
<1>1. outcome' \in [Log -> Outcome] /\ completed_ticket' \in Nat /\ out_of_order' \subseteq Nat
  BY SettlingKeeps DEF WorkKeeps
<1>2. DataTypes' /\ SameProducers
  BY DEF WorkKeeps
<1> QED BY <1>1, <1>2 DEF IInv, TypeOK, DataTypes, SameProducers, WorkerTypes, CallerTypes, Counters, Reports

(* The types of the wake marks after notify_waiters.                       *)
LEMMA WakeTypes == ASSUME TypeOK, WakeFlushers PROVE woken' \in [Flusher -> BOOLEAN]
BY DEF TypeOK, WakeFlushers

(* The types of the wake marks after a completion.                         *)
LEMMA CompleteTypes == ASSUME TypeOK, NEW T, Complete(T) PROVE woken' \in [Flusher -> BOOLEAN]
BY WakeTypes DEF Complete

(* Counters of outcomes stay counters.                                     *)
LEMMA CountersGrow ==
  ASSUME NEW c \in Counters, NEW m \in Nat, NEW n \in Nat
  PROVE  /\ [c EXCEPT !.exported = @ + m, !.rejected = @ + n] \in Counters
         /\ [c EXCEPT !.dropped_oversize = @ + m, !.rejected = @ + n] \in Counters
         /\ [c EXCEPT !.dropped_shutdown = @ + m] \in Counters
<1>1. c.exported + m \in Nat /\ c.rejected + n \in Nat /\ c.dropped_oversize + m \in Nat /\ c.dropped_shutdown + m \in Nat
  BY DEF Counters
<1> QED BY <1>1 DEF Counters

(* The types of counters and wake marks after a resolution.                *)
LEMMA ResolveTypes ==
  ASSUME TypeOK, NEW S, NEW lost, S \subseteq Log, lost \subseteq Log, Resolve(S, lost)
  PROVE  /\ counted' \in Counters
         /\ woken' \in [Flusher -> BOOLEAN]
<1>1. IsFiniteSet(S \ lost) /\ IsFiniteSet(lost)
  BY FS_Subset, ExporterAssumption
<1>2. Cardinality(S \ lost) \in Nat /\ Cardinality(lost) \in Nat
  BY <1>1, FS_CardinalityType
<1>3. counted' = [counted EXCEPT !.exported = @ + Cardinality(S \ lost), !.rejected = @ + Cardinality(lost)]
  BY DEF Resolve
<1>4. counted \in Counters
  BY DEF TypeOK, Counters
<1>5. Complete(Tickets(S))
  BY DEF Resolve
<1>6. counted' \in Counters
  BY <1>2, <1>3, <1>4, CountersGrow
<1> QED BY <1>5, <1>6, CompleteTypes

(* The types of counters and wake marks after an oversize record.          *)
LEMMA OversizeTypes ==
  ASSUME TypeOK, NEW r, RejectOversize(r)
  PROVE  /\ counted' \in Counters
         /\ woken' \in [Flusher -> BOOLEAN]
<1>1. Complete({ticket[r]})
  BY DEF RejectOversize
<1>2. woken' \in [Flusher -> BOOLEAN]
  BY <1>1, CompleteTypes
<1>3. counted \in Counters
  BY DEF TypeOK, Counters
<1>4. counted' = [counted EXCEPT !.dropped_oversize = @ + 1, !.rejected = @ + 1]
  BY DEF RejectOversize
<1> QED BY <1>2, <1>3, <1>4, CountersGrow

(* What the batching steps may change of the worker's own variables.        *)
Batching ==
    /\ wpc' \in {"top", "fill", "batched", "panicked", "drained", "receive", "gather"}
    /\ counted' \in Counters
    /\ woken' \in [Flusher -> BOOLEAN]

(* The types of the worker's own variables after a batching step.          *)
LEMMA BatchingTypes ==
  ASSUME TypeOK
  PROVE  /\ \A r, rest : StartBatch(r, rest) => Batching
         /\ \A r, rest : AddToBatch(r, rest) => Batching
         /\ \A r : MappingPanics(r) => Batching
<1>1. ASSUME NEW r, NEW rest, StartBatch(r, rest) PROVE Batching
  <2>1. CASE Oversize(r)
    BY <1>1, <2>1, OversizeTypes DEF StartBatch, Batching
  <2>2. CASE ~Oversize(r)
    BY <1>1, <2>2 DEF StartBatch, Batching, PlaceAfter, TypeOK, Counters
  <2> QED BY <2>1, <2>2
<1>2. ASSUME NEW r, NEW rest, AddToBatch(r, rest) PROVE Batching
  <2>1. CASE Oversize(r)
    BY <1>2, <2>1, OversizeTypes DEF AddToBatch, Batching
  <2>2. CASE ~Oversize(r)
    BY <1>2, <2>2 DEF AddToBatch, Batching, PlaceAfter, TypeOK, Counters
  <2> QED BY <2>1, <2>2
<1>3. ASSUME NEW r, MappingPanics(r) PROVE Batching
  BY <1>3 DEF MappingPanics, Batching, TypeOK, Counters
<1> QED BY <1>1, <1>2, <1>3

(* The batching steps keep the worker's types.                             *)
LEMMA BatchingSteps ==
  ASSUME IInv, Top \/ Fill \/ GatherReceives PROVE WorkerTypes'
<1>1. TypeOK
  BY DEF IInv
<1>2. /\ UNCHANGED <<shutting_down, status, inflight, report>>
      /\ permit' = permit \/ permit' = [permit EXCEPT !.records = FALSE]
  BY DEF Top, Fill, GatherReceives, WorkerUnchanged, handleVars
<1>3. Batching
  <2>1. CASE Top
    BY <1>1, <2>1, BatchingTypes DEF Top, Batching, TypeOK, Counters
  <2>2. CASE Fill
    BY <1>1, <2>2, BatchingTypes DEF Fill, Batching, TypeOK, Counters
  <2>3. CASE GatherReceives
    BY <1>1, <2>3, BatchingTypes DEF GatherReceives, Batching, TypeOK, Counters
  <2> QED BY <2>1, <2>2, <2>3
<1> QED BY <1>1, <1>2, <1>3 DEF TypeOK, WorkerTypes, Batching, Counters, Reports, WorkerPlace, Awaiting, Ended

(* A stack of non-empty groups holds records: what a failed drain reports  *)
(* as remaining is positive.                                               *)
LEMMA RecordsInGroups ==
  ASSUME NEW st \in Seq(Seq(Log))
  PROVE  /\ RecordsIn(st) \in Nat
         /\ (st # <<>> /\ (\A g \in DOMAIN st : st[g] # <<>>)) => RecordsIn(st) > 0
<1>1. FlattenSeq(st) \in Seq(Log)
  BY FlattenPlaces
<1>2. PICK G, I \in [DOMAIN FlattenSeq(st) -> Nat] : Places(FlattenSeq(st), Len(st), st, G, I)
  BY FlattenPlaces
<1>3. RecordsIn(st) = Len(FlattenSeq(st)) /\ Len(FlattenSeq(st)) \in Nat
  BY <1>1 DEF RecordsIn
<1>4. ASSUME st # <<>>, \A g \in DOMAIN st : st[g] # <<>> PROVE RecordsIn(st) > 0
  <2>1. 1 \in 1 .. Len(st) /\ 1 \in DOMAIN st /\ st[1] \in Seq(Log)
    BY <1>4
  <2>2. 1 \in DOMAIN st[1]
    BY <1>4, <2>1
  <2>3. \E k \in DOMAIN FlattenSeq(st) : G[k] = 1 /\ I[k] = 1
    BY <1>2, <2>1, <2>2 DEF Places
  <2> HIDE DEF RecordsIn
  <2> QED BY <1>1, <1>3, <2>3
<1> QED BY <1>3, <1>4

(* A report is one of the reports.                                         *)
LEMMA ReportTypes ==
  ASSUME NEW b \in {None, "worker", "handle"}, NEW t \in BOOLEAN, NEW n \in Nat
  PROVE  [by |-> b, timed_out |-> t, remaining |-> n] \in Reports
BY DEF Reports

(* The answers of the collector keep the worker's types.                   *)
LEMMA SendSteps == ASSUME IInv, SendAccepted \/ SendInvalid PROVE WorkerTypes'
<1>1. TypeOK /\ WorkerInv
  BY DEF IInv
<1>2. wpc = "send" /\ UNCHANGED <<permit, shutting_down, status, inflight, report>> /\ wpc' \in {"exported", "send"}
  BY DEF SendAccepted, SendInvalid, SendUnchanged, WorkerUnchanged, handleVars, NextGroup
<1>3. Head(stack) \in Seq(Log)
  <2>1. stack # <<>> /\ stack \in Seq(Seq(Log))
    BY <1>1, <1>2 DEF WorkerInv, Exporting, TypeOK
  <2> QED BY <2>1
<1>4. ToSet(Head(stack)) \subseteq Log
  BY <1>3 DEF ToSet
<1>5. counted' \in Counters /\ woken' \in [Flusher -> BOOLEAN]
  <2>1. CASE SendAccepted
    <3>1. PICK lost \in SUBSET ToSet(Head(stack)) : Resolve(ToSet(Head(stack)), lost)
      BY <2>1 DEF SendAccepted
    <3> QED BY <1>1, <1>4, <3>1, ResolveTypes
  <2>2. CASE SendInvalid
    <3>1. Resolve(ToSet(Head(stack)), ToSet(Head(stack))) \/ UNCHANGED <<counted, woken>>
      BY <2>2 DEF SendInvalid
    <3> QED BY <1>1, <1>4, <3>1, ResolveTypes DEF TypeOK, Counters
  <2> QED BY <2>1, <2>2
<1> QED BY <1>1, <1>2, <1>5 DEF TypeOK, WorkerTypes, WorkerPlace, Awaiting, Ended, Counters, Reports

(* A terminal failure keeps the worker's types.                            *)
LEMMA TerminalStopsTypes == ASSUME IInv, TerminalStops PROVE WorkerTypes'
<1>1. TypeOK
  BY DEF IInv
<1>2. UNCHANGED <<permit, shutting_down>>
  BY DEF TerminalStops, EndUnchanged
<1>3. CASE ~producers_closed
  BY <1>1, <1>2, <1>3 DEF TerminalStops, TypeOK, WorkerTypes, WorkerPlace, Awaiting, Ended, Counters, Reports
<1>4. CASE producers_closed
  <2> DEFINE remaining == RecordsIn(stack) + QueuedRecords
  <2>1. /\ counted' = [counted EXCEPT !.dropped_shutdown = @ + remaining]
        /\ report' = [by |-> "worker", timed_out |-> FALSE, remaining |-> remaining]
        /\ inflight' = 0 /\ status' = "Stopped" /\ wpc' = "stopped" /\ WakeFlushers
    BY <1>4 DEF TerminalStops
  <2>2. remaining \in Nat
    BY <1>1, RecordsInGroups DEF TypeOK, QueuedRecords, Queue
  <2> HIDE DEF remaining
  <2>3. counted' \in Counters /\ woken' \in [Flusher -> BOOLEAN]
    BY <1>1, <2>1, <2>2, CountersGrow, WakeTypes DEF TypeOK, Counters
  <2> QED BY <1>1, <1>2, <2>1, <2>2, <2>3 DEF TypeOK, WorkerTypes, WorkerPlace, Status, Ended, Reports
<1> QED BY <1>3, <1>4

(* The other steps of the worker keep its types.                           *)
LEMMA QuietTypes == ASSUME IInv, QuietWork PROVE WorkerTypes'
<1> USE DEF WorkerUnchanged, SendUnchanged, EndUnchanged, AwaitUnchanged, AwaitNotified, handleVars
<1>1. TypeOK
  BY DEF IInv
<1>2. /\ permit' \in [shutdown : BOOLEAN, records : BOOLEAN, flush : BOOLEAN]
      /\ shutting_down' \in BOOLEAN
  BY <1>1 DEF QuietWork, AwaitReceive, GatherEnds, StartExport, SendRetryable, BackoffEnds, SendTerminal, BatchExported,
         DrainCompletes, AwaitRecords, TerminalParks, AwaitShutdown, AwaitFence, TypeOK
<1>3. wpc' \in WorkerPlace /\ status' \in Status
  BY <1>1 DEF QuietWork, AwaitReceive, GatherEnds, StartExport, SendRetryable, BackoffEnds, SendTerminal, BatchExported,
         DrainCompletes, AwaitRecords, TerminalParks, AwaitShutdown, AwaitFence, TypeOK, WorkerPlace, Awaiting, Ended, Status
<1>4. inflight' \in Nat
  <2>1. CASE StartExport
    <3>1. stack # <<>> /\ stack \in Seq(Seq(Log))
      <4>1. wpc = "batched"
        BY <2>1 DEF StartExport
      <4>2. Len(stack) = 1
        BY <4>1 DEF IInv, WorkerInv, Filling
      <4>3. stack \in Seq(Seq(Log))
        BY <1>1 DEF TypeOK
      <4>4. stack # <<>>
        BY <4>2
      <4> QED BY <4>3, <4>4
    <3>2. Head(stack) \in Seq(Log)
      BY <3>1
    <3> QED BY <2>1, <3>2 DEF StartExport
  <2>2. CASE SendTerminal
    BY <1>1, <2>2, RecordsInGroups DEF SendTerminal, TypeOK
  <2>3. CASE ~StartExport /\ ~SendTerminal
    BY <1>1, <2>3 DEF QuietWork, AwaitReceive, GatherEnds, SendRetryable, BackoffEnds, BatchExported,
         DrainCompletes, AwaitRecords, TerminalParks, AwaitShutdown, AwaitFence, TypeOK
  <2> QED BY <2>1, <2>2, <2>3
<1>5. /\ counted' = counted
      /\ woken' = woken \/ WakeFlushers
      /\ report' = report \/ report' = [by |-> "worker", timed_out |-> FALSE, remaining |-> 0]
  BY DEF QuietWork, AwaitReceive, GatherEnds, StartExport, SendRetryable, BackoffEnds, SendTerminal, BatchExported,
         DrainCompletes, AwaitRecords, TerminalParks, AwaitShutdown, AwaitFence
<1>6. woken' \in [Flusher -> BOOLEAN]
  BY <1>1, <1>5, WakeTypes DEF TypeOK
<1>7. report' \in Reports
  BY <1>1, <1>5, ReportTypes DEF TypeOK, Reports
<1> QED BY <1>1, <1>2, <1>3, <1>4, <1>5, <1>6, <1>7 DEF TypeOK, WorkerTypes, Counters, Reports

(* Every step of the worker keeps all types.                               *)
LEMMA WorkTypes == ASSUME IInv, Work PROVE TypeOK'
<1>1. WorkerTypes'
  <2>1. CASE QuietWork
    BY <2>1, QuietTypes
  <2>2. CASE Top \/ Fill \/ GatherReceives
    BY <2>2, BatchingSteps
  <2>3. CASE SendAccepted \/ SendInvalid \/ TerminalStops
    BY <2>3, SendSteps, TerminalStopsTypes
  <2> QED BY <2>1, <2>2, <2>3 DEF Work, QuietWork
<1>2. UNCHANGED <<sharedVars, flushVars, hpc, closing, seen, promised>>
  BY DEF Work, Top, AwaitReceive, Fill, GatherEnds, GatherReceives, StartExport, SendAccepted, SendInvalid,
         SendRetryable, BackoffEnds, SendTerminal, BatchExported, DrainCompletes, AwaitRecords, TerminalParks,
         AwaitShutdown, AwaitFence, TerminalStops, WorkerUnchanged, SendUnchanged, AwaitUnchanged, AwaitNotified, handleVars
<1>3. CallerTypes'
  BY <1>2 DEF IInv, TypeOK, CallerTypes, sharedVars, flushVars
<1> QED BY <1>1, <1>3, WorkPipeline, TypeParts

(* Every step of a flush caller keeps all types.                           *)
LEMMA FlushTypes == ASSUME IInv, Flushing PROVE TypeOK'
<1>1. WorkKeeps /\ FlushUnchanged /\ TypeOK
  BY FlushPipeline DEF IInv
<1>2. PICK f \in Flusher : FlushCalls(f) \/ Flush(f) \/ FlushTimesOut(f)
  BY DEF Flushing
<1>3. /\ permit' \in [shutdown : BOOLEAN, records : BOOLEAN, flush : BOOLEAN]
      /\ woken' \in [Flusher -> BOOLEAN] /\ target' \in [Flusher -> Nat]
  <2>1. /\ permit' = permit \/ permit' = [permit EXCEPT !.flush = TRUE]
        /\ woken' = woken \/ woken' = [woken EXCEPT ![f] = FALSE]
        /\ target' = target \/ target' = [target EXCEPT ![f] = next_ticket]
    BY <1>2 DEF FlushCalls, Flush, FlushArms, FlushChecks, FlushChecksStatus, FlushWakes, FlushTimesOut
  <2>2. permit' \in [shutdown : BOOLEAN, records : BOOLEAN, flush : BOOLEAN]
    BY <1>1, <2>1 DEF TypeOK
  <2>3. woken' \in [Flusher -> BOOLEAN]
    <3>1. woken \in [Flusher -> BOOLEAN]
      BY <1>1 DEF TypeOK
    <3>2. [woken EXCEPT ![f] = FALSE] \in [Flusher -> BOOLEAN]
      BY <3>1, Zenon
    <3> QED BY <2>1, <3>1, <3>2
  <2>4. target' \in [Flusher -> Nat]
    BY <1>1, <2>1 DEF TypeOK
  <2> QED BY <2>2, <2>3, <2>4
<1>4. /\ fpc' \in [Flusher -> {"idle", "arm", "done"} \cup Armed]
      /\ result' \in [Flusher -> {None, "Flushed", "TimedOut", "TerminalFailure", "Stopped"}]
  BY <1>1, <1>2, ZenonT(40) DEF FlushCalls, Flush, FlushArms, FlushChecks, FlushChecksStatus, FlushWakes, FlushTimesOut, FlushReturns, TypeOK, Armed
<1>5. WorkerTypes' /\ CallerTypes'
  BY <1>1, <1>3, <1>4 DEF FlushUnchanged, TypeOK, WorkerTypes, CallerTypes, sharedVars, workerVars, handleVars, Counters, Reports
<1> QED BY <1>1, <1>5, TypeParts

(* Every step of the owner keeps all types.                                *)
LEMMA HandleTypes == ASSUME IInv, Handling PROVE TypeOK'
<1> USE DEF HandleUnchanged, workerVars, flushVars, sharedVars, handleVars
<1>1. WorkKeeps /\ TypeOK
  BY HandlePipeline DEF IInv
<1>2. /\ UNCHANGED <<shutting_down, flushVars>> /\ (wpc' = wpc \/ wpc' = "aborted")
      /\ (accepting' = accepting \/ accepting' = FALSE) /\ (slot' = slot \/ slot' = FALSE)
  BY DEF Handling, Handle, Close, StopAccepting, MarkShuttingDown, ReleaseSink, Joins, DropAborts, ShutdownDropsHandle,
         JoinTimesOut, WorkerAborts, DrainFails
<1>3. /\ permit' \in [shutdown : BOOLEAN, records : BOOLEAN, flush : BOOLEAN] /\ producers_closed' \in BOOLEAN
      /\ status' \in Status /\ inflight' \in Nat
  <2>1. /\ \/ permit' = permit \/ permit' = [permit EXCEPT !.records = TRUE]
           \/ permit' = [shutdown |-> TRUE, records |-> TRUE, flush |-> TRUE]
        /\ producers_closed' = producers_closed \/ producers_closed' = TRUE
        /\ inflight' = inflight \/ inflight' = 0
        /\ status' = status \/ status' \in {"ShuttingDown", "Stopped"}
    BY DEF Handling, Handle, Close, StopAccepting, MarkShuttingDown, ReleaseSink, Joins, DropAborts, ShutdownDropsHandle,
         JoinTimesOut, WorkerAborts, DrainFails, FenceDrops
  <2>2. permit' \in [shutdown : BOOLEAN, records : BOOLEAN, flush : BOOLEAN]
    <3>1. permit \in [shutdown : BOOLEAN, records : BOOLEAN, flush : BOOLEAN]
      BY <1>1 DEF TypeOK
    <3>2. [permit EXCEPT !.records = TRUE] \in [shutdown : BOOLEAN, records : BOOLEAN, flush : BOOLEAN]
      BY <3>1
    <3>3. [shutdown |-> TRUE, records |-> TRUE, flush |-> TRUE] \in [shutdown : BOOLEAN, records : BOOLEAN, flush : BOOLEAN]
      OBVIOUS
    <3> QED BY <2>1, <3>1, <3>2, <3>3
  <2>3. producers_closed \in BOOLEAN /\ inflight \in Nat /\ status \in Status
    BY <1>1 DEF TypeOK
  <2>4. producers_closed' \in BOOLEAN
    BY <2>1, <2>3
  <2>5. inflight' \in Nat /\ status' \in Status
    BY <2>1, <2>3 DEF Status
  <2> QED BY <2>2, <2>4, <2>5
<1>4. Remaining \in Nat
  BY <1>1 DEF TypeOK, Remaining, QueuedRecords, Queue
<1>5. counted' \in Counters /\ woken' \in [Flusher -> BOOLEAN]
  <2>1. counted' = counted \/ counted' = [counted EXCEPT !.dropped_shutdown = @ + Remaining]
    BY DEF Handling, Handle, Close, StopAccepting, MarkShuttingDown, ReleaseSink, Joins, DropAborts, ShutdownDropsHandle,
         JoinTimesOut, WorkerAborts, DrainFails, CountRemaining
  <2>2. woken' = woken \/ WakeFlushers
    BY DEF Handling, Handle, Close, StopAccepting, MarkShuttingDown, ReleaseSink, Joins, DropAborts, ShutdownDropsHandle,
         JoinTimesOut, WorkerAborts, DrainFails
  <2> QED BY <1>1, <1>4, <2>1, <2>2, CountersGrow, WakeTypes, ZenonT(40) DEF TypeOK, Counters
<1>6. /\ report' \in Reports /\ closing' \in ClosingKinds \cup {None} /\ seen' \in Status
  <2>1. /\ \/ report' = report
           \/ report' = [by |-> "handle", timed_out |-> hpc = "aborting", remaining |-> Remaining]
        /\ closing' = closing \/ closing' \in Closings
        /\ seen' = seen \/ seen' = status
    BY DEF Handling, Handle, Close, StopAccepting, MarkShuttingDown, ReleaseSink, Joins, DropAborts, ShutdownDropsHandle,
         JoinTimesOut, WorkerAborts, DrainFails
  <2>2. hpc = "aborting" => (hpc = "aborting") = TRUE
    OBVIOUS
  <2>3. hpc # "aborting" => (hpc = "aborting") = FALSE
    OBVIOUS
  <2>4. \/ report' = report
        \/ report' = [by |-> "handle", timed_out |-> TRUE, remaining |-> Remaining]
        \/ report' = [by |-> "handle", timed_out |-> FALSE, remaining |-> Remaining]
    BY <2>1, <2>2, <2>3
  <2>5. report' \in Reports
    BY ZenonT(40), <1>1, <1>4, <2>4, ReportTypes DEF TypeOK, Reports
  <2> QED BY <1>1, <2>1, <2>5, ExporterAssumption DEF TypeOK
<1>7. /\ hpc' \in {"open", "stop_first", "mark_first", "release", "stop_again", "mark_again",
                "join", "aborting", "reported", "abort", "dropped"}
      /\ promised' \subseteq Log
  BY <1>1 DEF Handling, Handle, Close, StopAccepting, MarkShuttingDown, ReleaseSink, Joins, DropAborts, ShutdownDropsHandle,
         JoinTimesOut, WorkerAborts, DrainFails, TypeOK, AcceptedRecords
<1>8. WorkerTypes' /\ CallerTypes'
  BY <1>1, <1>2, <1>3, <1>5, <1>6, <1>7 DEF TypeOK, WorkerTypes, CallerTypes, WorkerPlace, Ended, Reports
<1> QED BY <1>1, <1>8, TypeParts

Producing == \E p \in Producer : Produce(p) \/ \E r \in Log : Dispatch(p, r)

(* ProducePipeline and DispatchKeeps for some producer.                    *)
LEMMA ProducingPipeline == ASSUME IInv, Producing PROVE ProducerKeeps
BY ProducePipeline, DispatchKeeps DEF Producing

(* What a producer's step leaves alone.                                     *)
ProducerFrame ==
    /\ UNCHANGED <<workerVars, trackerVars, status, inflight, counted, flushVars, woken, handleVars, accepting, slot>>
    /\ permit' = permit \/ permit' = [permit EXCEPT !.records = TRUE]
    /\ producers_closed' = producers_closed \/ producers_closed' = TRUE

(* What every step of a producer leaves alone.                             *)
LEMMA ProducingFrame == ASSUME Producing PROVE ProducerFrame
BY DEF Producing, Produce, Dispatch, CheckAccepting, ClaimSlot, Push, Wake, Leave, ProducerUnchanged, FenceDrops,
       ProducerFrame, sharedVars

(* Every step of a producer keeps all types.                               *)
LEMMA ProducingTypes == ASSUME IInv, Producing PROVE TypeOK'
<1>1. TypeOK /\ ProducerFrame
  BY ProducingFrame DEF IInv
<1>2. PICK p \in Producer : Produce(p) \/ \E r \in Log : Dispatch(p, r)
  BY DEF Producing
<1>3. ppc' \in [Producer -> {"idle"} \cup InCallback]
  <2>1. \E place \in {"idle"} \cup InCallback : ppc' = [ppc EXCEPT ![p] = place]
    BY <1>2 DEF Produce, Dispatch, CheckAccepting, ClaimSlot, Push, Wake, Leave, InCallback
  <2> QED BY <1>1, <2>1 DEF TypeOK
<1>4. current' \in [Producer -> Log \cup {None}]
  BY <1>1, <1>2, ZenonT(40) DEF Produce, Dispatch, CheckAccepting, ClaimSlot, Push, Wake, Leave, TypeOK
<1>5. outcome' \in [Log -> Outcome]
  <2>1. outcome' = outcome \/ \E o \in Outcome : outcome' = [outcome EXCEPT ![current[p]] = o]
    BY <1>2 DEF Produce, Dispatch, CheckAccepting, ClaimSlot, Push, Wake, Leave, Outcome
  <2> QED BY <1>1, <2>1 DEF TypeOK
<1>6. /\ ticket' \in [Log -> Nat] /\ next_ticket' \in Nat
  <2>1. \/ UNCHANGED <<ticket, next_ticket>>
        \/ /\ ticket' = [ticket EXCEPT ![current[p]] = next_ticket + 1]
           /\ next_ticket' = next_ticket + 1
    BY <1>2 DEF Produce, Dispatch, CheckAccepting, ClaimSlot, Push, Wake, Leave
  <2>2. ticket \in [Log -> Nat] /\ next_ticket \in Nat /\ next_ticket + 1 \in Nat
    BY <1>1 DEF TypeOK
  <2>3. \A n \in Nat : [ticket EXCEPT ![current[p]] = n] \in [Log -> Nat]
    BY <2>2
  <2> QED BY <2>1, <2>2, <2>3
<1>7. kind' \in [Log -> Queue] /\ depth' \in [Queue -> Nat]
  <2>1. \/ UNCHANGED <<kind, depth>>
        \/ \E q \in Queue : /\ kind' = [kind EXCEPT ![current[p]] = q]
                            /\ depth' = [depth EXCEPT ![q] = @ + 1]
    BY <1>2 DEF Produce, Dispatch, CheckAccepting, ClaimSlot, Push, Wake, Leave, Queue
  <2>2. kind \in [Log -> Queue] /\ depth \in [Queue -> Nat]
    BY <1>1 DEF TypeOK
  <2>3. ASSUME NEW q \in Queue
        PROVE  [kind EXCEPT ![current[p]] = q] \in [Log -> Queue] /\ [depth EXCEPT ![q] = @ + 1] \in [Queue -> Nat]
    <3>1. depth[q] + 1 \in Nat
      BY <2>2
    <3>2. [depth EXCEPT ![q] = depth[q] + 1] \in [Queue -> Nat]
      BY <2>2, <3>1
    <3>3. [kind EXCEPT ![current[p]] = q] \in [Log -> Queue]
      BY <2>2
    <3> QED BY <3>2, <3>3
  <2> QED BY <2>1, <2>2, <2>3
<1>8. lane' \in [Producer -> [Queue -> Seq(Log)]]
  <2>1. CASE Push(p)
    <3>1. ppc[p] # "idle" /\ lane' = [lane EXCEPT ![p][kind[current[p]]] = Append(@, current[p])]
      BY <2>1 DEF Push
    <3>2. current[p] \in Log
      BY <3>1, CurrentRecord
    <3> QED BY <1>1, <3>1, <3>2 DEF TypeOK
  <2>2. CASE ~Push(p)
    BY <1>1, <1>2, <2>2 DEF Produce, Dispatch, CheckAccepting, ClaimSlot, Wake, Leave, TypeOK
  <2> QED BY <2>1, <2>2
<1>9. permit' \in [shutdown : BOOLEAN, records : BOOLEAN, flush : BOOLEAN] /\ producers_closed' \in BOOLEAN
  BY <1>1 DEF ProducerFrame, TypeOK
<1> QED BY <1>1, <1>3, <1>4, <1>5, <1>6, <1>7, <1>8, <1>9, SMTT(40)
        DEF TypeOK, ProducerFrame, workerVars, trackerVars, flushVars, handleVars

(* A record that was accepted before the step is neither lost nor pushed    *)
(* again by it.                                                             *)
LEMMA ProducingRecords ==
  ASSUME IInv, Producing
  PROVE  \A r \in AcceptedRecords : outcome'[r] = outcome[r] /\ (r \in Pushing' => r \in Pushing)
<1>1. TypeOK /\ RecordInv
  BY DEF IInv
<1>2. PICK p \in Producer : Produce(p) \/ \E r \in Log : Dispatch(p, r)
  BY DEF Producing
<1>3. /\ \A r \in Log : outcome'[r] = outcome[r] \/ (r = current[p] /\ ppc[p] \in {"loaded", "claim"})
      /\ ppc[p] \in {"loaded", "claim"} => outcome[current[p]] = "none"
  <2>1. \/ outcome' = outcome
        \/ ppc[p] \in {"loaded", "claim"} /\ \E o : outcome' = [outcome EXCEPT ![current[p]] = o]
    BY <1>2 DEF Produce, Dispatch, CheckAccepting, ClaimSlot, Push, Wake, Leave
  <2> QED BY <1>1, <2>1 DEF TypeOK, RecordInv
<1>4. /\ \A p2 \in Producer \ {p} : ppc'[p2] = ppc[p2] /\ current'[p2] = current[p2]
      /\ ppc'[p] = "push" => ppc[p] = "claim" /\ current'[p] = current[p]
  <2>1. /\ \E place : ppc' = [ppc EXCEPT ![p] = place] /\ (place = "push" => ppc[p] = "claim" /\ current' = current)
        /\ current' = current \/ \E r : current' = [current EXCEPT ![p] = r]
    BY <1>2 DEF Produce, Dispatch, CheckAccepting, ClaimSlot, Push, Wake, Leave
  <2> QED BY <1>1, <2>1 DEF TypeOK
<1>5. ASSUME NEW r \in AcceptedRecords PROVE outcome'[r] = outcome[r] /\ (r \in Pushing' => r \in Pushing)
  <2>1. r \in Log /\ outcome[r] # "none"
    BY DEF AcceptedRecords, Resolved
  <2>2. outcome'[r] = outcome[r]
    BY <1>3, <2>1
  <2>3. ASSUME r \in Pushing' PROVE r \in Pushing
    <3>1. PICK p2 \in Producer : ppc'[p2] = "push" /\ r = current'[p2]
      BY <2>3 DEF Pushing
    <3>2. p2 # p
      BY <1>3, <1>4, <2>1, <3>1
    <3> QED BY <1>4, <3>1, <3>2 DEF Pushing
  <2> QED BY <2>2, <2>3
<1> QED BY <1>5

-----------------------------------------------------------------------------
(* The promise of a drain.                                                  *)

PromiseKept == PromiseInv' /\ DrainKeepsPromise'

(* No step of a producer breaks the promise of a drain.                    *)
LEMMA ProducingPromise == ASSUME IInv, Producing PROVE PromiseKept
<1>1. TypeOK /\ PromiseInv /\ DrainKeepsPromise /\ ProducerFrame
  BY ProducingFrame DEF IInv
<1>2. \A r \in AcceptedRecords : outcome'[r] = outcome[r] /\ (r \in Pushing' => r \in Pushing)
  BY ProducingRecords
<1>3. UNCHANGED <<wpc, shutting_down, hpc, report, promised>> /\ permit'.shutdown = permit.shutdown
  BY <1>1 DEF ProducerFrame, workerVars, handleVars, TypeOK
<1>4. \A r \in AcceptedRecords : r \in AcceptedRecords'
  BY <1>2 DEF AcceptedRecords
<1>5. promised \subseteq AcceptedRecords \ Pushing
  BY <1>1 DEF PromiseInv
<1>6. promised' \subseteq AcceptedRecords' \ Pushing'
  BY <1>2, <1>3, <1>4, <1>5
<1>7. \A r \in promised : outcome'[r] = outcome[r]
  BY <1>2, <1>5
<1> QED BY <1>1, <1>3, <1>6, <1>7 DEF PromiseInv, DrainKeepsPromise, PromiseKept

(* Steps that settle records or none, and neither report nor drain.         *)
LEMMA PromiseFrame ==
  ASSUME IInv, SameProducers, Settling, UNCHANGED <<hpc, promised>>, permit'.shutdown => permit.shutdown,
         shutting_down' => shutting_down \/ permit.shutdown,
         wpc' = "drained" => hpc # "open" /\ \A r \in promised : outcome'[r] \in Resolved,
         report' = report \/ (report'.by = "worker" => report'.remaining > 0) \/ (wpc = "drained")
  PROVE  PromiseKept
<1>1. PromiseInv /\ DrainKeepsPromise
  BY DEF IInv
<1>2. /\ \A r \in Log : outcome[r] \in Resolved => outcome'[r] \in Resolved
      /\ AcceptedRecords' = AcceptedRecords /\ Pushing' = Pushing /\ promised \subseteq Log
  BY SettlingKeeps DEF IInv, TypeOK
<1>3. hpc = "open" => (report'.by = "worker" => report'.remaining > 0)
  BY <1>1 DEF PromiseInv
<1>4. PromiseInv'
  BY <1>1, <1>2, <1>3 DEF PromiseInv
<1>5. DrainKeepsPromise'
  <2>1. CASE report' = report
    BY <1>1, <1>2, <2>1 DEF DrainKeepsPromise
  <2>2. CASE report'.by = "worker" => report'.remaining > 0
    BY <2>2 DEF DrainKeepsPromise
  <2>3. CASE wpc = "drained"
    BY <1>1, <1>2, <2>3 DEF DrainKeepsPromise, PromiseInv
  <2> QED BY <2>1, <2>2, <2>3
<1> QED BY <1>4, <1>5 DEF PromiseKept

(* A worker that finds nothing at hand has settled all that was promised.   *)
LEMMA DrainedState ==
  ASSUME IInv, Top, wpc' = "drained" PROVE hpc # "open" /\ \A r \in promised : outcome'[r] \in Resolved
<1>1. /\ wpc = "top" /\ Alive /\ lane' = NoLanes
      /\ TypeOK /\ RecordInv /\ WorkerInv /\ Pipeline(lane, input, pending, stack, outcome)
      /\ DepthExact(depth, pending, stack, outcome)
  BY AliveState DEF Top, Alive, Ended
<1>2. PICK in \in Refreshed :
         /\ pending = <<>> /\ IsDry(in) /\ shutting_down
         /\ UNCHANGED <<input, pending, stack, depth, outcome, counted, trackerVars, woken>>
  <2>1. \A r, rest : StartBatch(r, rest) => wpc' # "drained"
    BY DEF StartBatch, PlaceAfter
  <2>2. \A r : MappingPanics(r) => wpc' # "drained"
    BY DEF MappingPanics
  <2> QED BY <2>1, <2>2 DEF Top
<1>3. Pipeline(NoLanes, in, pending, stack, outcome)
  BY <1>1, RefreshState
<1>4. stack = <<>>
  BY <1>1 DEF WorkerInv, Filling, Exporting, Ended
<1>5. Chain(InGroups(<<>>), InPending(<<>>), InInbox(in), InLanes(NoLanes), Pushing, outcome)
  BY <1>2, <1>3, <1>4 DEF Pipeline
<1>6. InGroups(<<>>) = {} /\ InPending(<<>>) = {} /\ InInbox(in) = {} /\ InLanes(NoLanes) = {}
  BY <1>2 DEF InGroups, InPending, InInbox, InLanes, IsDry, NoLanes
<1>7. \A r \in Log : outcome[r] = "accepted" => r \in Pushing
  BY <1>5, <1>6 DEF Chain
<1>8. PromiseInv
  BY DEF IInv
<1>9. ASSUME NEW r \in promised PROVE outcome'[r] \in Resolved
  <2>1. r \in AcceptedRecords /\ r \notin Pushing
    BY <1>8 DEF PromiseInv
  <2> QED BY <1>2, <1>7, <2>1 DEF AcceptedRecords
<1> QED BY <1>2, <1>8, <1>9 DEF PromiseInv

(* No step of the worker breaks the promise of a drain.                    *)
LEMMA WorkPromise == ASSUME IInv, Work PROVE PromiseKept
<1> USE DEF WorkerUnchanged, SendUnchanged, AwaitUnchanged, AwaitNotified, EndUnchanged, handleVars
<1>1. SameProducers /\ Settling /\ TypeOK /\ PromiseInv
  BY WorkPipeline DEF WorkKeeps, IInv
<1>2. UNCHANGED <<hpc, promised>>
  BY DEF Work, Top, AwaitReceive, Fill, GatherEnds, GatherReceives, StartExport, SendAccepted, SendInvalid,
         SendRetryable, BackoffEnds, SendTerminal, BatchExported, DrainCompletes, AwaitRecords, TerminalParks,
         AwaitShutdown, AwaitFence, TerminalStops
<1>3. permit'.shutdown => permit.shutdown
  <2>1. \/ permit' = permit \/ permit' = [permit EXCEPT !.records = FALSE] \/ permit' = [permit EXCEPT !.flush = FALSE]
        \/ permit' = [permit EXCEPT !.shutdown = FALSE]
    BY DEF Work, Top, AwaitReceive, Fill, GatherEnds, GatherReceives, StartExport, SendAccepted, SendInvalid,
         SendRetryable, BackoffEnds, SendTerminal, BatchExported, DrainCompletes, AwaitRecords, TerminalParks,
         AwaitShutdown, AwaitFence, TerminalStops
  <2> QED BY <1>1, <2>1 DEF TypeOK
<1>4. shutting_down' => shutting_down \/ permit.shutdown
  BY DEF Work, Top, AwaitReceive, Fill, GatherEnds, GatherReceives, StartExport, SendAccepted, SendInvalid,
         SendRetryable, BackoffEnds, SendTerminal, BatchExported, DrainCompletes, AwaitRecords, TerminalParks,
         AwaitShutdown, AwaitFence, TerminalStops
<1>5. wpc' = "drained" => hpc # "open" /\ \A r \in promised : outcome'[r] \in Resolved
  <2>1. wpc' = "drained" => Top
    <3>1. /\ \A r, rest : AddToBatch(r, rest) => wpc' # "drained"
          /\ \A r : MappingPanics(r) => wpc' # "drained"
      BY DEF AddToBatch, PlaceAfter, MappingPanics
    <3> QED BY <3>1 DEF Work, AwaitReceive, Fill, GatherEnds, GatherReceives, StartExport, SendAccepted, SendInvalid,
         SendRetryable, BackoffEnds, SendTerminal, BatchExported, DrainCompletes, AwaitRecords, TerminalParks,
         AwaitShutdown, AwaitFence, TerminalStops, NextGroup
  <2> QED BY <2>1, DrainedState
<1>6. report' = report \/ (report'.by = "worker" => report'.remaining > 0) \/ (wpc = "drained")
  <2>1. CASE TerminalStops /\ producers_closed
    <3>1. report'.remaining = RecordsIn(stack) + QueuedRecords
      BY <2>1 DEF TerminalStops
    <3>2. /\ stack \in Seq(Seq(Log)) /\ stack # <<>> /\ \A g \in DOMAIN stack : stack[g] # <<>>
      <4>1. wpc = "term_fence"
        BY <2>1 DEF TerminalStops
      <4> QED BY <4>1 DEF IInv, WorkerInv, PipelineInv, Pipeline, GroupsOK, Exporting, Ended
    <3>3. RecordsIn(stack) \in Nat /\ RecordsIn(stack) > 0 /\ QueuedRecords \in Nat
      BY <1>1, <3>2, RecordsInGroups, SMTT(40) DEF QueuedRecords, Queue, TypeOK
    <3> QED BY <3>1, <3>3
  <2>2. CASE ~(TerminalStops /\ producers_closed)
    BY <2>2 DEF Work, Top, AwaitReceive, Fill, GatherEnds, GatherReceives, StartExport, SendAccepted, SendInvalid,
         SendRetryable, BackoffEnds, SendTerminal, BatchExported, DrainCompletes, AwaitRecords, TerminalParks,
         AwaitShutdown, AwaitFence, TerminalStops
  <2> QED BY <2>1, <2>2
<1> QED BY <1>1, <1>2, <1>3, <1>4, <1>5, <1>6, PromiseFrame

(* No step of a flush caller breaks the promise of a drain.                *)
LEMMA FlushPromise == ASSUME IInv, Flushing PROVE PromiseKept
<1>1. WorkKeeps /\ FlushUnchanged /\ TypeOK /\ PromiseInv
  BY FlushPipeline DEF IInv
<1>2. permit' = permit \/ permit' = [permit EXCEPT !.flush = TRUE]
  BY DEF Flushing, Flush, FlushCalls, FlushArms, FlushChecks, FlushChecksStatus, FlushWakes, FlushTimesOut
<1>3. permit'.shutdown = permit.shutdown
  BY <1>1, <1>2 DEF TypeOK
<1>4. UNCHANGED <<hpc, promised, shutting_down, wpc, report, outcome>>
  BY <1>1 DEF FlushUnchanged, handleVars, workerVars
<1> QED BY <1>1, <1>3, <1>4, PromiseFrame DEF WorkKeeps, PromiseInv

(* No step of the owner breaks the promise of a drain: it promises what is *)
(* accepted and no longer pushed when it takes the permit away.            *)
LEMMA HandlePromise == ASSUME IInv, Handling PROVE PromiseKept
<1> USE DEF HandleUnchanged, workerVars, producerVars
<1>1. TypeOK /\ PromiseInv /\ DrainKeepsPromise
  BY DEF IInv
<1>2. /\ UNCHANGED <<ppc, current, outcome, shutting_down>>
      /\ (wpc' = wpc \/ wpc' = "aborted")
  BY DEF Handling, Handle, Close, StopAccepting, MarkShuttingDown, ReleaseSink, Joins, DropAborts, ShutdownDropsHandle,
         JoinTimesOut, WorkerAborts, DrainFails, handleVars
<1>3. AcceptedRecords' = AcceptedRecords /\ Pushing' = Pushing
  BY <1>2 DEF AcceptedRecords, Pushing
<1>4. CASE \E c \in ClosingKinds : Close(c)
  <2>1. /\ hpc = "open" /\ hpc' # "open" /\ report' = report /\ wpc' = wpc
        /\ promised' = AcceptedRecords \ {current[p] : p \in Holders}
    BY <1>4 DEF Close
  <2>2. Pushing \subseteq {current[p] : p \in Holders}
    BY DEF Pushing, Holders, InCallback
  <2> QED BY <1>1, <1>3, <2>1, <2>2 DEF PromiseInv, DrainKeepsPromise, PromiseKept
<1>5. CASE Handle \/ JoinTimesOut
  <2>1. /\ hpc # "open" /\ hpc' # "open" /\ promised' = promised
        /\ report' = report \/ report'.by = "handle"
    BY <1>5 DEF Handle, StopAccepting, MarkShuttingDown, ReleaseSink, Joins, DropAborts, ShutdownDropsHandle,
         JoinTimesOut, WorkerAborts, DrainFails, handleVars
  <2> QED BY <1>1, <1>2, <1>3, <2>1 DEF PromiseInv, DrainKeepsPromise, PromiseKept
<1> QED BY <1>4, <1>5 DEF Handling

-----------------------------------------------------------------------------
(* The inductive invariant.                                                 *)

(* The invariant holds of a fresh generation.                              *)
LEMMA InitInvariant == Init => IInv
<1> SUFFICES ASSUME Init PROVE IInv
  OBVIOUS
<1> USE DEF Init
<1>1. TypeOK
  <2>1. /\ ppc \in [Producer -> {"idle"} \cup InCallback] /\ current \in [Producer -> Log \cup {None}]
        /\ lane \in [Producer -> [Queue -> Seq(Log)]] /\ input \in [Queue -> Seq(Log)]
        /\ pending \in Seq(Log) /\ stack \in Seq(Seq(Log))
    OBVIOUS
  <2>2. /\ ticket \in [Log -> Nat] /\ kind \in [Log -> Queue] /\ outcome \in [Log -> Outcome]
        /\ next_ticket \in Nat /\ depth \in [Queue -> Nat] /\ completed_ticket \in Nat /\ out_of_order \subseteq Nat
    BY DEF Outcome, Queue
  <2>3. CallerTypes
    BY DEF CallerTypes, Armed, Status, None, ClosingKinds
  <2>4. WorkerTypes
    <3>1. report \in Reports
      BY ReportTypes DEF NoReport
    <3>2. permit \in [shutdown : BOOLEAN, records : BOOLEAN, flush : BOOLEAN] /\ counted \in Counters
      BY DEF Counters
    <3>3. woken \in [Flusher -> BOOLEAN]
      OBVIOUS
    <3> QED BY <3>1, <3>2, <3>3 DEF WorkerTypes, WorkerPlace, Status
  <2> HIDE DEF Init
  <2> QED BY <2>1, <2>2, <2>3, <2>4 DEF TypeOK, CallerTypes, WorkerTypes, Counters, Reports
<1>2. AcceptedRecords = {} /\ Pushing = {}
  BY DEF AcceptedRecords, Resolved, Pushing
<1>3. RecordInv
  BY <1>2 DEF RecordInv
<1>4. WorkerInv
  BY DEF WorkerInv, Filling, Exporting, Ended
<1>5. PipelineInv
  <2>1. /\ InGroups(stack) = {} /\ InPending(pending) = {} /\ InInbox(input) = {} /\ InLanes(lane) = {}
    BY DEF InGroups, InPending, InInbox, InLanes
  <2>2. LanesOK(lane) /\ InboxOK(input)
    BY DEF LanesOK, InboxOK, Sorted
  <2>3. PendingOK(pending) /\ GroupsOK(stack)
    BY DEF PendingOK, GroupsOK
  <2>4. Chain(InGroups(stack), InPending(pending), InInbox(input), InLanes(lane), Pushing, outcome)
    BY <1>2, <2>1 DEF Chain, AllAhead
  <2>5. DepthExact(depth, pending, stack, outcome)
    <3>1. \A q \in Queue : Waiting(q, pending, stack, outcome) = {}
      BY DEF Waiting
    <3>2. Cardinality({}) = 0
      BY FS_EmptySet
    <3> QED BY <3>1, <3>2 DEF DepthExact
  <2> QED BY <2>2, <2>3, <2>4, <2>5 DEF PipelineInv, Pipeline
<1>6. TrackerInv
  BY DEF TrackerInv, Resolved
<1>7. LaneOrderKept /\ PromiseInv /\ DrainKeepsPromise
  BY DEF LaneOrderKept, PromiseInv, DrainKeepsPromise, NoReport, None
<1> QED BY <1>1, <1>3, <1>4, <1>5, <1>6, <1>7 DEF IInv

(* Every step keeps the invariant.                                         *)
LEMMA StepInvariant == ASSUME IInv, Next PROVE IInv'
<1>1. CASE Producing
  BY <1>1, ProducingPipeline, ProducingTypes, ProducingPromise DEF ProducerKeeps, PromiseKept, IInv
<1>2. CASE Work \/ Flushing \/ Handling
  <2>1. WorkKeeps
    BY <1>2, WorkPipeline, FlushPipeline, HandlePipeline
  <2>2. TypeOK' /\ PromiseKept
    BY <1>2, WorkTypes, FlushTypes, HandleTypes, WorkPromise, FlushPromise, HandlePromise
  <2>3. RecordInv' /\ TrackerInv' /\ LaneOrderKept'
    BY <2>1, SettlingKeeps DEF WorkKeeps
  <2> QED BY <2>1, <2>2, <2>3 DEF WorkKeeps, PromiseKept, IInv
<1> QED BY <1>1, <1>2 DEF Next, Producing, Flushing, Handling

(* A step that changes nothing keeps the invariant.                        *)
LEMMA StutterInvariant == ASSUME IInv, UNCHANGED vars PROVE IInv'
<1>1. WorkKeeps
  <2>1. SameProducers /\ UNCHANGED <<lane, input, pending, stack, depth, outcome, trackerVars, wpc>>
    BY DEF vars, producerVars, workerVars, SameProducers
  <2>2. WorkerInv' /\ (Alive' => Alive)
    BY <2>1 DEF IInv, WorkerInv, Alive
  <2> QED BY <2>1, <2>2, QuietKeeps
<1>2. TypeOK' /\ PromiseInv' /\ DrainKeepsPromise'
  BY SMTT(40) DEF IInv, vars, producerVars, workerVars, trackerVars, sharedVars, flushVars, handleVars,
         TypeOK, PromiseInv, DrainKeepsPromise, AcceptedRecords, Pushing
<1>3. RecordInv' /\ TrackerInv' /\ LaneOrderKept'
  BY <1>1, SettlingKeeps DEF WorkKeeps
<1> QED BY <1>1, <1>2, <1>3 DEF WorkKeeps, IInv

(* The inductive invariant of one exporter generation: every accepted      *)
(* record is in exactly one stage of the pipeline and ahead of the later   *)
(* ones of its producer and queue, the gauges count what is queued, and    *)
(* the watermark with the set beyond it are the tickets settled.           *)
THEOREM InductiveInvariant == Spec => []IInv
<1>1. IInv /\ [Next]_vars => IInv'
  BY StepInvariant, StutterInvariant
<1> QED BY <1>1, InitInvariant, PTL DEF Spec

(* Every variable of a generation has its type.                            *)
THEOREM TypeCorrect == Spec => []TypeOK
<1>1. IInv => TypeOK
  BY DEF IInv
<1> QED BY <1>1, InductiveInvariant, PTL

(* When a record has been exported, every record its thread logged to the  *)
(* same queue before it is settled: drain, batching, retries, splits and   *)
(* early oversize rejections overtake nothing.                             *)
THEOREM LaneOrder == Spec => []LaneOrderKept
<1>1. IInv => LaneOrderKept
  BY DEF IInv
<1> QED BY <1>1, InductiveInvariant, PTL

(* A drain that reports success has settled every record whose push had    *)
(* ended when acceptance stopped (the report run_worker leaves for         *)
(* shutdown and reconfigure).                                              *)
THEOREM PromiseHolds == Spec => []DrainKeepsPromise
<1>1. IInv => DrainKeepsPromise
  BY DEF IInv
<1> QED BY <1>1, InductiveInvariant, PTL

(* Every ticket up to the completed ticket that flush waits for belongs to *)
(* a settled record (CompletionTracker).                                   *)
THEOREM WatermarkIsSound == Spec => []WatermarkSound
<1>1. IInv => WatermarkSound
  BY DEF IInv, TrackerInv, WatermarkSound
<1> QED BY <1>1, InductiveInvariant, PTL

(* No record is in an ordered sequence twice.                              *)
LEMMA SortedDistinct ==
  ASSUME NEW s \in Seq(Log), Sorted(s), NEW i \in DOMAIN s, NEW j \in DOMAIN s, s[i] = s[j] PROVE i = j
<1>1. i \in Nat /\ j \in Nat
  OBVIOUS
<1>2. ~(i < j) /\ ~(j < i)
  BY DEF Sorted, Ahead
<1> QED BY <1>1, <1>2

(* A container is a lane, an inbox, the overflow slot or a group, and is   *)
(* ordered.                                                                *)
LEMMA ContentsIn ==
  ASSUME Pipeline(lane, input, pending, stack, outcome), NEW c \in Container
  PROVE  /\ Contents(c) \in Seq(Log) /\ Sorted(Contents(c))
         /\ \/ \E p \in Producer, q \in Queue : c = <<"lane", p, q>> /\ Contents(c) = lane[p][q]
            \/ \E q \in Queue : c = <<"inbox", q>> /\ Contents(c) = input[q]
            \/ c = <<"pending">> /\ Contents(c) = pending
            \/ \E g \in DOMAIN stack : c = <<"group", g>> /\ Contents(c) = stack[g]
<1>1. /\ LanesOK(lane) /\ InboxOK(input) /\ PendingOK(pending) /\ GroupsOK(stack)
  BY DEF Pipeline
<1>2. CASE \E p \in Producer, q \in Queue : c = <<"lane", p, q>>
  <2>1. PICK p \in Producer, q \in Queue : c = <<"lane", p, q>>
    BY <1>2
  <2>2. Contents(c) = lane[p][q]
    BY <2>1 DEF Contents
  <2>3. lane[p][q] \in Seq(Log) /\ Sorted(lane[p][q])
    BY <1>1 DEF LanesOK
  <2> QED BY <2>1, <2>2, <2>3
<1>3. CASE \E q \in Queue : c = <<"inbox", q>>
  <2>1. PICK q \in Queue : c = <<"inbox", q>>
    BY <1>3
  <2>2. Contents(c) = input[q]
    BY <2>1 DEF Contents
  <2> QED BY <1>1, <2>1, <2>2 DEF InboxOK
<1>4. CASE c = <<"pending">>
  <2>1. Contents(c) = pending
    BY <1>4 DEF Contents
  <2>2. Sorted(pending) /\ pending \in Seq(Log)
    BY <1>1 DEF PendingOK, Sorted
  <2> QED BY <1>4, <2>1, <2>2
<1>5. CASE \E g \in DOMAIN stack : c = <<"group", g>>
  <2>1. PICK g \in DOMAIN stack : c = <<"group", g>>
    BY <1>5
  <2>2. Contents(c) = stack[g]
    BY <2>1 DEF Contents
  <2>3. stack[g] \in Seq(Log)
    BY <1>1, <2>1 DEF GroupsOK
  <2> QED BY <1>1, <2>1, <2>2, <2>3 DEF GroupsOK
<1> QED BY <1>2, <1>3, <1>4, <1>5 DEF Container

(* A record of a container is in the stage the container belongs to.       *)
LEMMA StageOf ==
  ASSUME Pipeline(lane, input, pending, stack, outcome), NEW c \in Container, NEW i \in DOMAIN Contents(c)
  PROVE  LET r == Contents(c)[i]
         IN  /\ r \in Log
             /\ c[1] = "lane" => r \in InLanes(lane)
             /\ c[1] = "inbox" => r \in InInbox(input)
             /\ c[1] = "pending" => r \in InPending(pending)
             /\ c[1] = "group" => r \in InGroups(stack)
             /\ c[1] \in {"lane", "inbox", "pending", "group"}
<1>1. Contents(c) \in Seq(Log) /\ Contents(c)[i] \in Log
  <2>1. Contents(c) \in Seq(Log)
    BY ContentsIn
  <2> QED BY <2>1
<1>2. CASE \E p \in Producer, q \in Queue : c = <<"lane", p, q>> /\ Contents(c) = lane[p][q]
  <2>1. PICK p \in Producer, q \in Queue : c = <<"lane", p, q>> /\ Contents(c) = lane[p][q]
    BY <1>2
  <2>2. i \in DOMAIN lane[p][q] /\ lane[p][q][i] = Contents(c)[i] /\ c[1] = "lane"
    BY <2>1
  <2> QED BY <1>1, <2>2 DEF InLanes
<1>3. CASE \E q \in Queue : c = <<"inbox", q>> /\ Contents(c) = input[q]
  <2>1. PICK q \in Queue : c = <<"inbox", q>> /\ Contents(c) = input[q]
    BY <1>3
  <2>2. i \in DOMAIN input[q] /\ input[q][i] = Contents(c)[i] /\ c[1] = "inbox"
    BY <2>1
  <2> QED BY <1>1, <2>2 DEF InInbox
<1>4. CASE c = <<"pending">> /\ Contents(c) = pending
  <2>1. c[1] = "pending"
    BY <1>4
  <2> QED BY <1>1, <1>4, <2>1 DEF InPending
<1>5. CASE \E g \in DOMAIN stack : c = <<"group", g>> /\ Contents(c) = stack[g]
  <2>1. PICK g \in DOMAIN stack : c = <<"group", g>> /\ Contents(c) = stack[g]
    BY <1>5
  <2>2. i \in DOMAIN stack[g] /\ stack[g][i] = Contents(c)[i] /\ c[1] = "group"
    BY <2>1
  <2> QED BY <1>1, <2>2 DEF InGroups
<1> QED BY <1>2, <1>3, <1>4, <1>5, ContentsIn

(* The first part of a container's name says which one it is.              *)
LEMMA ByKind ==
  ASSUME Pipeline(lane, input, pending, stack, outcome), NEW c \in Container
  PROVE  /\ c[1] = "lane" => \E p \in Producer, q \in Queue : c = <<"lane", p, q>> /\ Contents(c) = lane[p][q]
         /\ c[1] = "inbox" => \E q \in Queue : c = <<"inbox", q>> /\ Contents(c) = input[q]
         /\ c[1] = "pending" => c = <<"pending">>
         /\ c[1] = "group" => \E g \in DOMAIN stack : c = <<"group", g>> /\ Contents(c) = stack[g]
<1>1. \A p, q : <<"lane", p, q>>[1] = "lane" /\ <<"inbox", q>>[1] = "inbox" /\ <<"group", q>>[1] = "group"
  OBVIOUS
<1>2. <<"pending">>[1] = "pending"
  OBVIOUS
<1> QED BY <1>1, <1>2, ContentsIn

(* Containers of one kind that share a record are the same.                 *)
LEMMA SameKind ==
  ASSUME Pipeline(lane, input, pending, stack, outcome), NEW c \in Container, NEW d \in Container,
         c[1] = d[1], NEW i \in DOMAIN Contents(c), NEW j \in DOMAIN Contents(d), Contents(c)[i] = Contents(d)[j]
  PROVE  c = d
<1>1. /\ LanesOK(lane) /\ InboxOK(input) /\ GroupsOK(stack)
  BY DEF Pipeline
<1>c. /\ c[1] = "lane" => \E p \in Producer, q \in Queue : c = <<"lane", p, q>> /\ Contents(c) = lane[p][q]
      /\ c[1] = "inbox" => \E q \in Queue : c = <<"inbox", q>> /\ Contents(c) = input[q]
      /\ c[1] = "pending" => c = <<"pending">>
      /\ c[1] = "group" => \E g \in DOMAIN stack : c = <<"group", g>> /\ Contents(c) = stack[g]
  BY ByKind
<1>d. /\ d[1] = "lane" => \E p \in Producer, q \in Queue : d = <<"lane", p, q>> /\ Contents(d) = lane[p][q]
      /\ d[1] = "inbox" => \E q \in Queue : d = <<"inbox", q>> /\ Contents(d) = input[q]
      /\ d[1] = "pending" => d = <<"pending">>
      /\ d[1] = "group" => \E g \in DOMAIN stack : d = <<"group", g>> /\ Contents(d) = stack[g]
  BY ByKind
<1>2. CASE c[1] = "lane"
  <2>1. PICK p \in Producer, q \in Queue : c = <<"lane", p, q>> /\ Contents(c) = lane[p][q]
    BY <1>2, <1>c
  <2>2. PICK p2 \in Producer, q2 \in Queue : d = <<"lane", p2, q2>> /\ Contents(d) = lane[p2][q2]
    BY <1>2, <1>d
  <2>3. Thread[Contents(c)[i]] = p /\ kind[Contents(c)[i]] = q
    BY <1>1, <2>1 DEF LanesOK
  <2>4. Thread[Contents(d)[j]] = p2 /\ kind[Contents(d)[j]] = q2
    BY <1>1, <2>2 DEF LanesOK
  <2> QED BY <2>1, <2>2, <2>3, <2>4
<1>3. CASE c[1] = "inbox"
  <2>1. PICK q \in Queue : c = <<"inbox", q>> /\ Contents(c) = input[q]
    BY <1>3, <1>c
  <2>2. PICK q2 \in Queue : d = <<"inbox", q2>> /\ Contents(d) = input[q2]
    BY <1>3, <1>d
  <2>3. kind[Contents(c)[i]] = q /\ kind[Contents(d)[j]] = q2
    BY <1>1, <2>1, <2>2 DEF InboxOK
  <2> QED BY <2>1, <2>2, <2>3
<1>4. CASE c[1] = "pending"
  BY <1>4, <1>c, <1>d
<1>5. CASE c[1] = "group"
  <2>1. PICK g \in DOMAIN stack : c = <<"group", g>> /\ Contents(c) = stack[g]
    BY <1>5, <1>c
  <2>2. PICK k \in DOMAIN stack : d = <<"group", k>> /\ Contents(d) = stack[k]
    BY <1>5, <1>d
  <2>3. ~(g < k) /\ ~(k < g)
    <3>1. ASSUME g < k PROVE FALSE
      <4>1. Ahead(Contents(c)[i], Contents(d)[j])
        BY <1>1, <2>1, <2>2, <3>1 DEF GroupsOK
      <4> QED BY <4>1 DEF Ahead
    <3>2. ASSUME k < g PROVE FALSE
      <4>1. Ahead(Contents(d)[j], Contents(c)[i])
        BY <1>1, <2>1, <2>2, <3>2 DEF GroupsOK
      <4> QED BY <4>1 DEF Ahead
    <3> QED BY <3>1, <3>2
  <2>4. g \in Nat /\ k \in Nat
    BY <1>1 DEF GroupsOK
  <2> QED BY <2>1, <2>2, <2>3, <2>4
<1> QED BY <1>2, <1>3, <1>4, <1>5, StageOf

(* A record is in one container only, and there once.                       *)
LEMMA NoSecondPlace ==
  ASSUME Pipeline(lane, input, pending, stack, outcome), NEW c \in Container, NEW d \in Container,
         NEW i \in DOMAIN Contents(c), NEW j \in DOMAIN Contents(d), Contents(c)[i] = Contents(d)[j]
  PROVE  c = d /\ i = j
<1>1. c[1] = d[1]
  <2> DEFINE r == Contents(c)[i]
  <2>1. /\ r \in Log
        /\ c[1] = "lane" => r \in InLanes(lane)
        /\ c[1] = "inbox" => r \in InInbox(input)
        /\ c[1] = "pending" => r \in InPending(pending)
        /\ c[1] = "group" => r \in InGroups(stack)
        /\ c[1] \in {"lane", "inbox", "pending", "group"}
    BY StageOf
  <2>2. /\ d[1] = "lane" => r \in InLanes(lane)
        /\ d[1] = "inbox" => r \in InInbox(input)
        /\ d[1] = "pending" => r \in InPending(pending)
        /\ d[1] = "group" => r \in InGroups(stack)
        /\ d[1] \in {"lane", "inbox", "pending", "group"}
    BY StageOf
  <2>3. ~Ahead(r, r)
    BY DEF Ahead
  <2> HIDE DEF r
  <2>4. Chain(InGroups(stack), InPending(pending), InInbox(input), InLanes(lane), Pushing, outcome)
    BY DEF Pipeline
  <2> QED BY <2>1, <2>2, <2>3, <2>4 DEF Chain, AllAhead
<1>2. c = d
  BY <1>1, SameKind
<1>3. Contents(c) \in Seq(Log) /\ Sorted(Contents(c))
  BY ContentsIn
<1>4. i = j
  BY <1>2, <1>3, SortedDistinct
<1> QED BY <1>2, <1>4

(* The containers hold the accepted records that are no longer pushed.      *)
LEMMA Everywhere ==
  ASSUME Pipeline(lane, input, pending, stack, outcome)
  PROVE  UNION {ToSet(Contents(c)) : c \in Container} = {r \in Log : outcome[r] = "accepted"} \ Pushing
<1>1. Chain(InGroups(stack), InPending(pending), InInbox(input), InLanes(lane), Pushing, outcome)
  BY DEF Pipeline
<1>2. ASSUME NEW r PROVE r \in UNION {ToSet(Contents(c)) : c \in Container}
                         <=> \E c \in Container : \E i \in DOMAIN Contents(c) : r = Contents(c)[i]
  BY DEF ToSet
<1>3. ASSUME NEW c \in Container, NEW i \in DOMAIN Contents(c)
      PROVE  Contents(c)[i] \in {r \in Log : outcome[r] = "accepted"} \ Pushing
  <2> DEFINE r == Contents(c)[i]
  <2>1. r \in Log /\ r \in InLanes(lane) \cup InInbox(input) \cup InPending(pending) \cup InGroups(stack)
    BY StageOf
  <2>2. ~Ahead(r, r)
    BY DEF Ahead
  <2> HIDE DEF r
  <2>3. outcome[r] = "accepted" /\ r \notin Pushing
    BY <1>1, <2>1, <2>2 DEF Chain, AllAhead
  <2> QED BY <2>1, <2>3 DEF r
<1>4. ASSUME NEW r \in Log, outcome[r] = "accepted", r \notin Pushing
      PROVE  \E c \in Container : \E i \in DOMAIN Contents(c) : r = Contents(c)[i]
  <2>1. r \in InGroups(stack) \cup InPending(pending) \cup InInbox(input) \cup InLanes(lane)
    BY <1>1, <1>4 DEF Chain
  <2>2. CASE r \in InGroups(stack)
    <3>1. PICK g \in DOMAIN stack : \E i \in DOMAIN stack[g] : stack[g][i] = r
      BY <2>2 DEF InGroups
    <3>2. <<"group", g>> \in Container /\ Contents(<<"group", g>>) = stack[g]
      BY DEF Container, Contents
    <3> QED BY <3>1, <3>2
  <2>3. CASE r \in InPending(pending)
    <3>1. <<"pending">> \in Container /\ Contents(<<"pending">>) = pending
      BY DEF Container, Contents
    <3> QED BY <2>3, <3>1 DEF InPending
  <2>4. CASE r \in InInbox(input)
    <3>1. PICK q \in Queue : \E i \in DOMAIN input[q] : input[q][i] = r
      BY <2>4 DEF InInbox
    <3>2. <<"inbox", q>> \in Container /\ Contents(<<"inbox", q>>) = input[q]
      BY DEF Container, Contents
    <3> QED BY <3>1, <3>2
  <2>5. CASE r \in InLanes(lane)
    <3>1. PICK p \in Producer, q \in Queue : \E i \in DOMAIN lane[p][q] : lane[p][q][i] = r
      BY <2>5 DEF InLanes
    <3>2. <<"lane", p, q>> \in Container /\ Contents(<<"lane", p, q>>) = lane[p][q]
      BY DEF Container, Contents
    <3> QED BY <3>1, <3>2
  <2> QED BY <2>1, <2>2, <2>3, <2>4, <2>5
<1> QED BY <1>2, <1>3, <1>4

(* While the worker runs, each accepted record whose push has ended is in  *)
(* exactly one lane, inbox, overflow slot or group, once: none is lost or  *)
(* doubled between the lanes and the answer.                               *)
THEOREM OnePlace == Spec => []ExactlyOnePlace
<1>1. ASSUME IInv PROVE ExactlyOnePlace
  <2>1. TypeOK
    BY <1>1 DEF IInv
  <2>2. ASSUME wpc \notin Ended PROVE Pipeline(lane, input, pending, stack, outcome)
    BY <1>1, <2>2 DEF IInv, PipelineInv
  <2>3. wpc \notin Ended =>
          /\ UNION {ToSet(Contents(c)) : c \in Container} = {r \in Log : outcome[r] = "accepted"} \ Pushing
          /\ \A c, d \in Container : \A i \in DOMAIN Contents(c), j \in DOMAIN Contents(d) :
                Contents(c)[i] = Contents(d)[j] => c = d /\ i = j
    BY <2>2, Everywhere, NoSecondPlace
  <2> QED BY <2>1, <2>3 DEF ExactlyOnePlace
<1> QED BY <1>1, InductiveInvariant, PTL

-----------------------------------------------------------------------------
(* The generation implements Delivery.                                      *)

OrderOf(t, n) == [i \in 1 .. n |-> CHOOSE r \in Log : t[r] = i]
Order == OrderOf(ticket, next_ticket)
Fates == [r \in Log |-> Fate(outcome[r])]
Replies == [f \in Flusher |-> IF fpc[f] = "done" THEN result[f]
                               ELSE IF fpc[f] = "idle" THEN "idle" ELSE "waiting"]
Abstract == <<Order, Fates, completed_ticket, Replies, target>>

TicketsDense(t, n) ==
    /\ \A r, s \in Log : t[r] = t[s] /\ t[r] > 0 => r = s
    /\ \A i \in 1 .. n : \E r \in Log : t[r] = i
InOrder(t, n, O) ==
    /\ O \in Seq(Log) /\ Len(O) = n /\ DOMAIN O = 1 .. n
    /\ \A i \in 1 .. n : O[i] \in Log /\ t[O[i]] = i
    /\ \A i \in 1 .. n, r \in Log : t[r] = i => O[i] = r

(* Dense tickets put the records in an order.                              *)
LEMMA OrderIs ==
  ASSUME NEW t, NEW n \in Nat, TicketsDense(t, n) PROVE InOrder(t, n, OrderOf(t, n))
<1> DEFINE O == OrderOf(t, n)
<1>2. ASSUME NEW i \in 1 .. n PROVE O[i] \in Log /\ t[O[i]] = i
  BY DEF OrderOf, TicketsDense
<1>3. O = [i \in 1 .. n |-> O[i]]
  BY DEF OrderOf
<1> HIDE DEF O
<1>4. ASSUME NEW i \in 1 .. n, NEW r \in Log, t[r] = i PROVE O[i] = r
  <2>1. O[i] \in Log /\ t[O[i]] = t[r] /\ t[O[i]] > 0
    BY <1>2, <1>4
  <2> QED BY <2>1 DEF TicketsDense
<1>5. O \in Seq(Log) /\ Len(O) = n /\ DOMAIN O = 1 .. n
  BY <1>2, <1>3
<1> QED BY <1>2, <1>4, <1>5 DEF O, InOrder

(* The accepted records in the order of their tickets.                     *)
LEMMA OrderNow == ASSUME TypeOK, RecordInv PROVE next_ticket \in Nat /\ InOrder(ticket, next_ticket, Order)
<1>1. next_ticket \in Nat /\ TicketsDense(ticket, next_ticket)
  BY DEF TypeOK, RecordInv, TicketsDense
<1> QED BY <1>1, OrderIs DEF Order

(* The same after a step.                                                  *)
LEMMA OrderNext == ASSUME TypeOK', RecordInv' PROVE next_ticket' \in Nat /\ InOrder(ticket', next_ticket', Order')
<1>1. next_ticket' \in Nat /\ TicketsDense(ticket', next_ticket')
  BY DEF TypeOK, RecordInv, TicketsDense
<1>2. Order' = OrderOf(ticket', next_ticket')
  BY DEF Order, OrderOf
<1> QED BY <1>1, <1>2, OrderIs

(* What the abstract specification sees of an outcome.                     *)
LEMMA FateTypes ==
  ASSUME NEW o \in Outcome
  PROVE  /\ Fate(o) = "none" <=> o = "none"
         /\ Fate(o) = "accepted" <=> o = "accepted"
         /\ Fate(o) = "settled" <=> o \in Resolved
         /\ Fate(o) = "refused" <=> o \in {"filtered", "dropped_stopped", "dropped_full"}
BY DEF Fate, Outcome, Resolved

(* A fresh generation is an initial state of Delivery.                     *)
LEMMA DeliveryInit == ASSUME Init PROVE Promise!Init
<1>1. Order = <<>>
  <2>1. Order = [i \in 1 .. 0 |-> CHOOSE r \in Log : ticket[r] = i]
    BY DEF Init, Order, OrderOf
  <2> QED BY <2>1
<1>2. Fates = [r \in Log |-> "none"]
  BY DEF Fates, Fate, Init, Resolved
<1>3. Replies = [f \in Flusher |-> "idle"]
  BY DEF Init, Replies
<1>4. completed_ticket = 0 /\ target = [f \in Flusher |-> 0]
  BY DEF Init
<1> QED BY <1>1, <1>2, <1>3, <1>4 DEF Promise!Init, Order, OrderOf, Fates, Replies

(* The ticket after the watermark is neither below it nor out of order.    *)
LEMMA NextAfter ==
  ASSUME NEW k \in Nat, NEW m \in Nat, k < m
  PROVE  k + 1 \in 1 .. m /\ k + 1 \notin 1 .. k /\ k + 1 \notin (k + 2) .. m
OBVIOUS

(* Settling a batch is the step Settle of Delivery.                        *)
LEMMA SettleStep ==
  ASSUME IInv, IInv', SameProducers, NEW S \in SUBSET Log, SettlesBatch(S), UNCHANGED <<flushVars>>
  PROVE  Promise!Settle(S)
<1>1. /\ TypeOK /\ RecordInv /\ TrackerInv' /\ TypeOK' /\ RecordInv'
  BY DEF IInv
<1>2. Order' = Order /\ next_ticket' = next_ticket /\ ticket' = ticket
  BY DEF Order, SameProducers
<1>3. /\ Len(Order) = next_ticket
      /\ \A i \in 1 .. next_ticket : Order[i] \in Log /\ ticket[Order[i]] = i
  BY <1>1, OrderNow DEF InOrder
<1>4. \A r \in Log : outcome[r] \in Outcome /\ outcome'[r] \in Outcome
  BY <1>1 DEF TypeOK
<1>5. Fates' = [r \in Log |-> IF r \in S THEN "settled" ELSE Fates[r]]
  BY <1>4, FateTypes DEF Fates, SettlesBatch
<1>6. \A r \in S : Fates[r] = "accepted"
  <2>1. ASSUME NEW r \in S PROVE Fates[r] = "accepted"
    <3>1. r \in Log /\ outcome[r] = "accepted"
      BY DEF SettlesBatch
    <3> QED BY <3>1 DEF Fates, Fate, Resolved
  <2> QED BY <2>1
<1>7. \A r \in Log : Fates'[r] = "settled" <=> outcome'[r] \in Resolved
  BY <1>4, FateTypes DEF Fates
<1>8. /\ completed_ticket' \in 0 .. next_ticket
      /\ out_of_order' \subseteq (completed_ticket' + 2) .. next_ticket
      /\ \A r \in Log : outcome'[r] \in Resolved <=> ticket[r] \in (1 .. completed_ticket') \cup out_of_order'
  <2>1. next_ticket \in Nat /\ completed_ticket' \in Nat /\ completed_ticket' <= next_ticket
    BY <1>1, <1>2 DEF TrackerInv, TypeOK
  <2>2. completed_ticket' \in 0 .. next_ticket
    BY <2>1
  <2> QED BY <1>1, <1>2, <2>2 DEF TrackerInv
<1>9. \A i \in 1 .. completed_ticket' : Fates'[Order[i]] = "settled"
  <2>1. next_ticket \in Nat
    BY <1>1 DEF TypeOK
  <2>2. ASSUME NEW i \in 1 .. completed_ticket' PROVE Fates'[Order[i]] = "settled"
    <3>1. i \in 1 .. next_ticket
      BY <1>8, <2>1
    <3> QED BY <1>3, <1>7, <1>8, <3>1
  <2> QED BY <2>2
<1>10. completed_ticket' < next_ticket => Fates'[Order[completed_ticket' + 1]] # "settled"
  <2> DEFINE n == completed_ticket' + 1
  <2>1. SUFFICES ASSUME completed_ticket' < next_ticket PROVE Fates'[Order[n]] # "settled"
    OBVIOUS
  <2>2. next_ticket \in Nat
    BY <1>1 DEF TypeOK
  <2>3. completed_ticket' \in Nat
    BY <1>8
  <2>4. n \in 1 .. next_ticket /\ n \notin 1 .. completed_ticket' /\ n \notin (completed_ticket' + 2) .. next_ticket
    BY <2>1, <2>2, <2>3, NextAfter
  <2> HIDE DEF n
  <2>6. Order[n] \in Log /\ ticket[Order[n]] = n
    BY <1>3, <2>4
  <2>7. outcome'[Order[n]] \notin Resolved
    BY <1>8, <2>4, <2>6
  <2> QED BY <1>7, <2>6, <2>7
<1>11. Replies' = Replies /\ target' = target
  BY DEF Replies, flushVars
<1>12. \E k \in 0 .. Len(Order) :
          /\ \A i \in 1 .. k : Fates'[Order[i]] = "settled"
          /\ k < Len(Order) => Fates'[Order[k + 1]] # "settled"
          /\ completed_ticket' = k
  BY <1>3, <1>8, <1>9, <1>10
<1> QED BY <1>2, <1>5, <1>6, <1>11, <1>12 DEF Promise!Settle, Order, OrderOf, Fates, Replies

(* A step that accepts and settles nothing and answers no flush is no step *)
(* of Delivery.                                                            *)
LEMMA QuietDelivery ==
  ASSUME UNCHANGED <<ticket, next_ticket, outcome, completed_ticket, flushVars>> PROVE UNCHANGED Abstract
BY DEF Abstract, Order, Fates, Replies, flushVars

(* What the worker does is a step Settle or none.                          *)
LEMMA SettlingDelivery ==
  ASSUME IInv, IInv', SameProducers, Settling, UNCHANGED <<flushVars>>
  PROVE  Promise!Next \/ UNCHANGED Abstract
<1>1. CASE UNCHANGED <<outcome, trackerVars>>
  BY <1>1, QuietDelivery DEF SameProducers, trackerVars
<1>2. CASE \E S \in SUBSET Log : SettlesBatch(S)
  BY <1>2, SettleStep DEF Promise!Next
<1> QED BY <1>1, <1>2 DEF Settling

(* A flush call, its answer and its timeout are those of Delivery; a wait  *)
(* is none.                                                                *)
LEMMA FlushDelivery == ASSUME IInv, Flushing PROVE Promise!Next \/ UNCHANGED Abstract
<1>1. /\ TypeOK /\ RecordInv /\ UNCHANGED <<ticket, next_ticket, outcome, completed_ticket>>
  BY FlushPipeline DEF IInv, FlushUnchanged, producerVars, trackerVars
<1>2. Order' = Order /\ Fates' = Fates /\ completed_ticket' = completed_ticket /\ Len(Order) = next_ticket
  BY <1>1, OrderNow DEF Order, Fates, InOrder
<1>3. PICK f \in Flusher : FlushCalls(f) \/ Flush(f) \/ FlushTimesOut(f)
  BY DEF Flushing
<1>4. /\ fpc \in [Flusher -> {"idle", "arm", "done"} \cup Armed]
      /\ result \in [Flusher -> {None, "Flushed", "TimedOut", "TerminalFailure", "Stopped"}]
  BY <1>1 DEF TypeOK
<1>5. CASE FlushCalls(f)
  <2>1. /\ fpc[f] = "idle" /\ fpc' = [fpc EXCEPT ![f] = "arm"] /\ result' = result
        /\ target' = [target EXCEPT ![f] = next_ticket]
    BY <1>5 DEF FlushCalls
  <2>2. Replies[f] = "idle" /\ Replies' = [Replies EXCEPT ![f] = "waiting"]
    BY <1>4, <2>1 DEF Replies
  <2>3. Promise!Call(f)
    BY <1>2, <2>1, <2>2 DEF Promise!Call, Order, OrderOf, Fates, Replies
  <2> QED BY <2>3 DEF Promise!Next
<1>6. CASE FlushArms(f) \/ FlushWakes(f)
  <2>1. /\ fpc[f] \in {"arm", "wait"} /\ (\E place \in {"check", "arm"} : fpc' = [fpc EXCEPT ![f] = place])
        /\ UNCHANGED <<result, target>>
    BY <1>6 DEF FlushArms, FlushWakes
  <2>2. Replies' = Replies
    BY <1>4, <2>1 DEF Replies
  <2> QED BY <1>2, <2>1, <2>2 DEF Abstract
<1>7. CASE FlushChecks(f) \/ FlushChecksStatus(f) \/ FlushTimesOut(f)
  <2>1. fpc[f] \in {"check", "status", "wait"} /\ target' = target
    BY <1>7 DEF FlushChecks, FlushChecksStatus, FlushTimesOut
  <2>2. CASE \E place \in {"status", "wait"} : fpc' = [fpc EXCEPT ![f] = place] /\ result' = result
    <3>1. Replies' = Replies
      BY <1>4, <2>1, <2>2 DEF Replies
    <3> QED BY <1>2, <2>1, <3>1 DEF Abstract
  <2>3. CASE \E answer \in {"Flushed", "TimedOut", "TerminalFailure", "Stopped"} :
                FlushReturns(f, answer) /\ (answer = "Flushed" => target[f] <= completed_ticket)
    <3>1. PICK answer \in {"Flushed", "TimedOut", "TerminalFailure", "Stopped"} :
             FlushReturns(f, answer) /\ (answer = "Flushed" => target[f] <= completed_ticket)
      BY <2>3
    <3>2. Replies[f] = "waiting" /\ Replies' = [Replies EXCEPT ![f] = answer]
      BY <1>4, <2>1, <3>1 DEF Replies, FlushReturns
    <3>3. Promise!Return(f, answer)
      BY <1>2, <2>1, <3>1, <3>2 DEF Promise!Return, Order, OrderOf, Fates, Replies
    <3> QED BY <3>3 DEF Promise!Next, Promise!Answer
  <2>4. completed_ticket \in Nat /\ target[f] \in Nat
    BY <1>1 DEF TypeOK
  <2> QED BY <1>7, <2>2, <2>3, <2>4 DEF FlushChecks, FlushChecksStatus, FlushTimesOut
<1> QED BY <1>3, <1>5, <1>6, <1>7 DEF Flush

(* An admission is the step Accept of Delivery.                            *)
LEMMA GrantedDelivery ==
  ASSUME IInv, IInv', NEW p \in Producer, NEW r, NEW q, Granted(p, r, q) PROVE Promise!Accept(r)
<1>1. /\ OneMore(r, q) /\ r \in Log /\ next_ticket \in Nat /\ outcome[r] = "none"
  BY GrantedOne
<1>2. TypeOK /\ RecordInv /\ TypeOK' /\ RecordInv'
  BY DEF IInv
<1>3. /\ Order \in Seq(Log) /\ Len(Order) = next_ticket /\ DOMAIN Order = 1 .. next_ticket
      /\ \A i \in 1 .. next_ticket : Order[i] \in Log /\ ticket[Order[i]] = i
  BY <1>2, OrderNow DEF InOrder
<1>4. InOrder(ticket', next_ticket', Order')
  BY <1>2, OrderNext
<1>5. next_ticket' = next_ticket + 1 /\ Order'[next_ticket + 1] = r
  BY <1>1, <1>4 DEF OneMore, InOrder
<1>6. ASSUME NEW i \in 1 .. next_ticket PROVE Order'[i] = Order[i]
  <2>1. Order[i] \in Log /\ ticket[Order[i]] = i
    BY <1>3
  <2>2. Order[i] # r
    <3>1. ticket[r] = 0
      BY GrantedOne
    <3> QED BY <1>1, <2>1, <3>1
  <2>3. ticket'[Order[i]] = i
    BY <1>1, <2>1, <2>2 DEF OneMore
  <2> QED BY <1>1, <1>4, <1>5, <2>1, <2>3 DEF InOrder
<1>7. Order' = Append(Order, r)
  <2>1. /\ Append(Order, r) \in Seq(Log) /\ DOMAIN Append(Order, r) = 1 .. next_ticket + 1
        /\ \A i \in 1 .. next_ticket : Append(Order, r)[i] = Order[i]
        /\ Append(Order, r)[next_ticket + 1] = r
    <3> HIDE DEF Order
    <3> QED BY <1>1, <1>3
  <2>2. \A i \in 1 .. next_ticket + 1 : i \in 1 .. next_ticket \/ i = next_ticket + 1
    BY <1>1
  <2>3. \A i \in 1 .. next_ticket + 1 : Append(Order, r)[i] = Order'[i]
    BY <1>5, <1>6, <2>1, <2>2
  <2> HIDE DEF Order
  <2> QED BY <1>1, <1>4, <1>5, <2>1, <2>3 DEF InOrder
<1>8. Fates[r] = "none" /\ Fates' = [Fates EXCEPT ![r] = "accepted"]
  <2>1. \A s \in Log : outcome'[s] = (IF s = r THEN "accepted" ELSE outcome[s])
    BY <1>1 DEF OneMore
  <2>2. Fates[r] = "none"
    BY <1>1 DEF Fates, Fate, Resolved
  <2>3. Fate("accepted") = "accepted"
    BY DEF Fate, Resolved
  <2> QED BY <1>1, <2>1, <2>2, <2>3 DEF Fates
<1>9. UNCHANGED <<completed_ticket, Replies, target>>
  BY DEF Granted, ProducerUnchanged, trackerVars, flushVars, Replies
<1> QED BY <1>7, <1>8, <1>9 DEF Promise!Accept, Order, OrderOf, Fates, Replies

(* A refusal is the step Refuse of Delivery.                               *)
LEMMA RefusedDelivery ==
  ASSUME IInv, NEW r \in Log, outcome[r] = "none", NEW o \in {"filtered", "dropped_stopped", "dropped_full"},
         outcome' = [outcome EXCEPT ![r] = o], UNCHANGED <<ticket, next_ticket, completed_ticket, flushVars>>
  PROVE  Promise!Refuse(r)
<1>1. outcome \in [Log -> Outcome]
  BY DEF IInv, TypeOK
<1>2. Fates[r] = "none" /\ Fates' = [Fates EXCEPT ![r] = "refused"]
  <2>1. Fate("none") = "none" /\ Fate(o) = "refused"
    BY DEF Fate, Resolved
  <2> QED BY <1>1, <2>1 DEF Fates
<1>3. UNCHANGED <<Order, completed_ticket, Replies, target>>
  BY DEF Order, Replies, flushVars
<1> QED BY <1>2, <1>3 DEF Promise!Refuse, Order, OrderOf, Fates, Replies

(* What a producer does is a step Accept, a step Refuse or none.           *)
LEMMA ProducingDelivery ==
  ASSUME IInv, IInv', Producing PROVE Promise!Next \/ UNCHANGED Abstract
<1>1. UNCHANGED <<completed_ticket, flushVars>>
  BY ProducingFrame DEF ProducerFrame, trackerVars
<1>2. PICK p \in Producer : Produce(p) \/ \E r \in Log : Dispatch(p, r)
  BY DEF Producing
<1>3. CASE ClaimSlot(p)
  <2>1. PICK r \in Log : /\ outcome[r] = "none"
                         /\ Refused(p, r) \/ \E q \in Queue : Granted(p, r, q)
    BY <1>3, ClaimCases
  <2>2. CASE Refused(p, r)
    <3>1. Promise!Refuse(r)
      BY <1>1, <2>1, <2>2, RefusedDelivery DEF Refused
    <3> QED BY <3>1 DEF Promise!Next
  <2>3. CASE \E q \in Queue : Granted(p, r, q)
    <3>1. Promise!Accept(r)
      BY <2>3, GrantedDelivery
    <3> QED BY <3>1 DEF Promise!Next
  <2> QED BY <2>1, <2>2, <2>3
<1>4. CASE CheckAccepting(p)
  <2>1. /\ ppc[p] = "loaded" /\ UNCHANGED <<ticket, next_ticket>>
        /\ \E o \in {"filtered", "dropped_stopped", "none"} : outcome' = [outcome EXCEPT ![current[p]] = o]
    BY <1>4 DEF CheckAccepting
  <2>2. current[p] \in Log /\ outcome[current[p]] = "none"
    BY <2>1, CurrentRecord DEF IInv, RecordInv
  <2>3. CASE outcome' = [outcome EXCEPT ![current[p]] = "none"]
    <3>1. outcome' = outcome
      BY <2>2, <2>3 DEF IInv, TypeOK
    <3> QED BY <1>1, <2>1, <3>1, QuietDelivery
  <2>4. CASE \E o \in {"filtered", "dropped_stopped"} : outcome' = [outcome EXCEPT ![current[p]] = o]
    <3>1. Promise!Refuse(current[p])
      BY <1>1, <2>1, <2>2, <2>4, RefusedDelivery
    <3> QED BY <2>2, <3>1 DEF Promise!Next
  <2> QED BY <2>1, <2>3, <2>4
<1>5. CASE Push(p) \/ Wake(p) \/ Leave(p) \/ \E r \in Log : Dispatch(p, r)
  <2>1. UNCHANGED <<ticket, next_ticket, outcome>>
    BY <1>5 DEF Push, Wake, Leave, Dispatch
  <2> QED BY <1>1, <2>1, QuietDelivery
<1> QED BY <1>2, <1>3, <1>4, <1>5 DEF Produce

(* Every step of a generation is a step of Delivery or none.               *)
LEMMA StepDelivery == ASSUME IInv, IInv', [Next]_vars PROVE Promise!Next \/ UNCHANGED Abstract
<1>1. CASE Producing
  BY <1>1, ProducingDelivery
<1>2. CASE Work \/ Handling
  <2>1. SameProducers /\ Settling
    BY <1>2, WorkPipeline, HandlePipeline DEF WorkKeeps
  <2>2. UNCHANGED flushVars
    BY <1>2 DEF Work, Top, AwaitReceive, Fill, GatherEnds, GatherReceives, StartExport, SendAccepted, SendInvalid,
         SendRetryable, BackoffEnds, SendTerminal, BatchExported, DrainCompletes, AwaitRecords, TerminalParks,
         AwaitShutdown, AwaitFence, TerminalStops, WorkerUnchanged, SendUnchanged, AwaitUnchanged, AwaitNotified,
         Handling, Handle, Close, StopAccepting, MarkShuttingDown, ReleaseSink, Joins, DropAborts, ShutdownDropsHandle,
         JoinTimesOut, WorkerAborts, DrainFails, HandleUnchanged
  <2> QED BY <2>1, <2>2, SettlingDelivery
<1>3. CASE Flushing
  BY <1>3, FlushDelivery
<1>4. CASE UNCHANGED vars
  BY <1>4, QuietDelivery DEF vars, producerVars, trackerVars
<1> QED BY <1>1, <1>2, <1>3, <1>4 DEF Next, Producing, Flushing, Handling

(* A generation implements Delivery, step by step: records take their      *)
(* places in one order, each is settled at most once, the watermark is the *)
(* settled prefix exactly, and force_flush answers Flushed only behind it  *)
(* (dispatch, run_worker, CompletionTracker, force_flush).                 *)
THEOREM ExporterImplementsDelivery == Spec => ImplementsDelivery
<1>1. Init => Promise!Init
  BY DeliveryInit
<1>2. IInv /\ IInv' /\ [Next]_vars => [Promise!Next]_Abstract
  BY StepDelivery
<1> QED BY <1>1, <1>2, InductiveInvariant, PTL DEF Spec, ImplementsDelivery, Promise!Spec, Promise!vars, Abstract, Order, OrderOf, Fates, Replies
-----------------------------------------------------------------------------
(* What a closing that gives up reports.  The order of the pipeline ends   *)
(* with the worker, the count of what it left behind does not.              *)

Queued(la, in) == InInbox(in) \cup InLanes(la) \cup Pushing
OfKind(S, q) == {r \in S : kind[r] = q}
Accounted(la, in, dp, st, out) ==
    /\ \A r \in Queued(la, in) \cup InGroups(st) : out[r] = "accepted"
    /\ InGroups(st) \cap Queued(la, in) = {}
    /\ \A q \in Queue : dp[q] = Cardinality(OfKind(Queued(la, in), q))
    /\ RecordsIn(st) = Cardinality(InGroups(st))

(* Every accepted record is in one of the stages, but for n records.        *)
Staged(la, in, pe, st) == Queued(la, in) \cup InGroups(st) \cup InPending(pe)
Strays(la, in, pe, st, out) == {r \in Log : out[r] = "accepted" /\ r \notin Staged(la, in, pe, st)}
Whole(la, in, pe, st, out, n) ==
    /\ \A r \in InPending(pe) : out[r] = "accepted" /\ r \notin Queued(la, in) \cup InGroups(st)
    /\ Cardinality(Strays(la, in, pe, st, out)) = n

Parked == {"terminal", "term_shutdown", "term_fence", "term_records"}
ReportInv ==
    /\ report.by = "handle" => wpc \in Ended
    /\ producers_closed => ~slot /\ Holders = {}
    /\ wpc \in Parked => inflight = RecordsIn(stack)
    /\ inflight > 0 => stack # <<>> \/ wpc = "exported"
    /\ wpc \in Ended /\ report.by # "handle" => Accounted(lane, input, depth, stack, outcome)
    /\ wpc \in {"aborted", "panicked"} /\ report.by # "handle" =>
          Whole(lane, input, pending, stack, outcome, Panicked)

(* The number RecordsIn counts is that of the records in the groups.        *)
LEMMA GroupsCounted ==
  ASSUME NEW st, GroupsOK(st) PROVE RecordsIn(st) = Cardinality(InGroups(st))
<1> DEFINE f == FlattenSeq(st)
           n == Len(f)
<1>1. st \in Seq(Seq(Log))
  BY DEF GroupsOK
<1>2. f \in Seq(Log)
  BY <1>1, FlattenPlaces
<1>3. PICK G, I \in [DOMAIN f -> Nat] : Places(f, Len(st), st, G, I)
  BY <1>1, FlattenPlaces
<1>4. n \in Nat /\ DOMAIN f = 1 .. n /\ DOMAIN st = 1 .. Len(st)
  BY <1>1, <1>2
<1> HIDE DEF f
<1>5. /\ \A k \in DOMAIN f : G[k] \in DOMAIN st /\ I[k] \in DOMAIN st[G[k]] /\ f[k] = st[G[k]][I[k]]
      /\ \A g \in DOMAIN st : \A i \in DOMAIN st[g] : \E k \in DOMAIN f : G[k] = g /\ I[k] = i
      /\ \A k, l \in DOMAIN f : k < l => G[k] < G[l] \/ (G[k] = G[l] /\ I[k] < I[l])
  BY <1>3, <1>4 DEF Places
<1>6. ASSUME NEW k \in DOMAIN f, NEW l \in DOMAIN f, k < l PROVE f[k] # f[l]
  <2>1. CASE G[k] < G[l]
    <3>1. Ahead(st[G[k]][I[k]], st[G[l]][I[l]])
      BY <1>5, <2>1 DEF GroupsOK
    <3> QED BY <1>5, <3>1 DEF Ahead
  <2>2. CASE G[k] = G[l] /\ I[k] < I[l]
    <3>1. Sorted(st[G[k]])
      BY <1>5 DEF GroupsOK
    <3>2. Ahead(st[G[k]][I[k]], st[G[k]][I[l]])
      BY <1>5, <2>2, <3>1 DEF Sorted
    <3> QED BY <1>5, <2>2, <3>2 DEF Ahead
  <2> QED BY <1>5, <1>6, <2>1, <2>2
<1>7. \A k, l \in 1 .. n : f[k] = f[l] => k = l
  <2>1. \A k, l \in 1 .. n : k < l \/ l < k \/ k = l
    BY <1>4
  <2> QED BY <1>4, <1>6, <2>1
<1>8. f \in [1 .. n -> InGroups(st)] /\ \A r \in InGroups(st) : \E k \in 1 .. n : f[k] = r
  <2>1. \A k \in 1 .. n : f[k] \in InGroups(st)
    <3>1. \A k \in 1 .. n : f[k] \in Log
      BY <1>2, <1>4
    <3> QED BY <1>4, <1>5, <3>1 DEF InGroups
  <2>2. f \in [1 .. n -> InGroups(st)]
    BY <1>2, <1>4, <2>1
  <2>3. \A r \in InGroups(st) : \E k \in 1 .. n : f[k] = r
    BY <1>4, <1>5 DEF InGroups
  <2> QED BY <2>2, <2>3
<1> HIDE DEF n
<1>9. f \in Bijection(1 .. n, InGroups(st))
  BY <1>7, <1>8 DEF Bijection, Injection, Surjection, IsInjective
<1>10. ExistsBijection(1 .. n, InGroups(st))
  BY <1>9 DEF ExistsBijection
<1>11. IsFiniteSet(1 .. n) /\ Cardinality(1 .. n) = n
  <2>1. 1 \in Int /\ n \in Int
    BY <1>4
  <2>2. IsFiniteSet(1 .. n) /\ Cardinality(1 .. n) = IF 1 > n THEN 0 ELSE n - 1 + 1
    BY <2>1, FS_Interval
  <2> QED BY <1>4, <2>2
<1>12. Cardinality(InGroups(st)) = n
  BY <1>10, <1>11, FS_Bijection
<1> QED BY <1>12 DEF RecordsIn, f, n

(* While the worker lives, what it counts is what the pipeline says.        *)
LEMMA PipelineAccounts ==
  ASSUME NEW la, NEW in, NEW pe, NEW st, NEW out, NEW dp,
         Pipeline(la, in, pe, st, out), DepthExact(dp, pe, st, out), Pushing \subseteq Log
  PROVE  Accounted(la, in, dp, st, out)
<1> DEFINE S == InGroups(st)
           P == InPending(pe)
           I == InInbox(in)
           L == InLanes(la)
<1>1. Chain(S, P, I, L, Pushing, out) /\ GroupsOK(st)
  BY DEF Pipeline
<1>2. S \subseteq Log /\ I \cup L \cup Pushing \subseteq Log
  BY DEF InGroups, InInbox, InLanes
<1> HIDE DEF S, P, I, L
<1>3. /\ \A r \in I \cup L \cup Pushing \cup S : out[r] = "accepted"
      /\ \A r \in I \cup L \cup Pushing : r \notin S /\ r \notin P
      /\ \A r \in Log : out[r] = "accepted" /\ r \notin P \cup S => r \in I \cup L \cup Pushing
  BY <1>1 DEF Chain, AllAhead, Ahead
<1>4. \A q \in Queue : Waiting(q, pe, st, out) = OfKind(I \cup L \cup Pushing, q)
  BY <1>2, <1>3 DEF Waiting, OfKind, S, P
<1>5. \A q \in Queue : dp[q] = Cardinality(OfKind(I \cup L \cup Pushing, q))
  BY <1>4 DEF DepthExact
<1>6. RecordsIn(st) = Cardinality(S)
  BY <1>1, GroupsCounted DEF S
<1> QED BY <1>3, <1>5, <1>6 DEF Accounted, Queued, S, I, L

(* Nor does the pipeline leave a record out, or hold one in two stages.     *)
LEMMA PipelineWhole ==
  ASSUME NEW la, NEW in, NEW pe, NEW st, NEW out, Pipeline(la, in, pe, st, out)
  PROVE  Strays(la, in, pe, st, out) = {} /\ Whole(la, in, pe, st, out, 0)
<1>1. Chain(InGroups(st), InPending(pe), InInbox(in), InLanes(la), Pushing, out)
  BY DEF Pipeline
<1>2. Strays(la, in, pe, st, out) = {}
  BY <1>1 DEF Chain, Strays, Staged, Queued
<1>3. \A r \in InPending(pe) : out[r] = "accepted" /\ r \notin Queued(la, in) \cup InGroups(st)
  BY <1>1 DEF Chain, AllAhead, Ahead, Queued
<1>4. Cardinality(Strays(la, in, pe, st, out)) = 0
  BY <1>2, FS_EmptySet
<1> QED BY <1>2, <1>3, <1>4 DEF Whole

(* A record taken out of the overflow queue and put nowhere is a stray.     *)
LEMMA OneStray ==
  ASSUME NEW la, NEW in, NEW st, NEW out, NEW r \in Log, Pipeline(la, in, <<r>>, st, out)
  PROVE  Whole(la, in, <<>>, st, out, 1)
<1>1. Strays(la, in, <<r>>, st, out) = {} /\ Whole(la, in, <<r>>, st, out, 0)
  BY PipelineWhole
<1>2. InPending(<<>>) = {} /\ InPending(<<r>>) = {r}
  BY PendingSets
<1>3. Strays(la, in, <<>>, st, out) = {r}
  BY <1>1, <1>2 DEF Whole, Strays, Staged
<1>4. Cardinality({r}) = 1
  BY FS_Singleton
<1> QED BY <1>2, <1>3, <1>4 DEF Whole

(* The gauges and the queues after a step, part by part.                    *)
LEMMA AccountedPrimed ==
  ASSUME kind' = kind, Pushing' = Pushing, Accounted(lane', input', depth', stack', outcome')
  PROVE  Accounted(lane, input, depth, stack, outcome)'
<1>1. /\ InInbox(input)' = InInbox(input') /\ InLanes(lane)' = InLanes(lane') /\ InGroups(stack)' = InGroups(stack')
      /\ RecordsIn(stack)' = RecordsIn(stack')
  BY DEF InInbox, InLanes, InGroups, RecordsIn
<1>2. Queued(lane, input)' = Queued(lane', input')
  BY <1>1 DEF Queued
<1> QED BY <1>1, <1>2 DEF Accounted, OfKind

(* The stages after a step, part by part.                                   *)
LEMMA WholePrimed ==
  ASSUME Pushing' = Pushing, Whole(lane', input', pending', stack', outcome', Panicked')
  PROVE  Whole(lane, input, pending, stack, outcome, Panicked)'
<1>1. /\ InInbox(input)' = InInbox(input') /\ InLanes(lane)' = InLanes(lane') /\ InGroups(stack)' = InGroups(stack')
      /\ InPending(pending)' = InPending(pending')
  BY DEF InInbox, InLanes, InGroups, InPending
<1>2. Queued(lane, input)' = Queued(lane', input')
  BY <1>1 DEF Queued
<1>3. Strays(lane, input, pending, stack, outcome)' = Strays(lane', input', pending', stack', outcome')
  BY <1>1, <1>2 DEF Strays, Staged
<1> QED BY <1>1, <1>2, <1>3 DEF Whole

(* The same for a worker that lives.                                        *)
LEMMA AccountedAlive == ASSUME IInv, Alive PROVE Accounted(lane, input, depth, stack, outcome)
<1>1. /\ Pipeline(lane, input, pending, stack, outcome) /\ DepthExact(depth, pending, stack, outcome)
      /\ Pushing \subseteq Log
  BY AliveState, PushingRecords
<1> QED BY <1>1, PipelineAccounts

(* A record that panics in the mapper has left the queues and the gauges.   *)
LEMMA PanicAccounts ==
  ASSUME IInv, Alive, SameProducers, NEW la, NEW in,
         Pipeline(la, in, pending, stack, outcome), pending = <<>>, Receive(in),
         MappingPanics(Received(in)), lane' = la
  PROVE  /\ Accounted(lane, input, depth, stack, outcome)'
         /\ Whole(lane, input, pending, stack, outcome, Panicked)'
<1>1. TypeOK /\ DepthExact(depth, pending, stack, outcome) /\ Pushing \subseteq Log
  BY AliveState, PushingRecords
<1>2. PICK r \in Log : /\ Pipeline(la, input', <<r>>, stack, outcome)
                       /\ DepthExact(depth', <<r>>, stack, outcome)
  BY <1>1, ReceiveState
<1>3. Accounted(la, input', depth', stack, outcome)
  BY <1>1, <1>2, PipelineAccounts
<1>4. kind' = kind /\ Pushing' = Pushing
  BY SamePushing
<1>5. UNCHANGED <<pending, stack, outcome>> /\ Panicked' = 1
  BY DEF MappingPanics, Panicked
<1>6. Whole(la, input', <<>>, stack, outcome, 1)
  BY <1>2, OneStray
<1>7. Whole(lane, input, pending, stack, outcome, Panicked)'
  BY <1>4, <1>5, <1>6, WholePrimed
<1> QED BY <1>3, <1>4, <1>5, <1>7, AccountedPrimed

(* The steps that end the worker leave the gauges exact.                    *)
LEMMA EndAccounts ==
  ASSUME IInv, ReportInv, Alive, Work \/ WorkerAborts, wpc' \in Ended
  PROVE  /\ Accounted(lane, input, depth, stack, outcome)'
         /\ wpc' # "stopped" => Whole(lane, input, pending, stack, outcome, Panicked)'
<1>1. TypeOK /\ RecordInv /\ WorkerInv /\ Pipeline(lane, input, pending, stack, outcome)
  BY AliveState
<1>2. Accounted(lane, input, depth, stack, outcome)
  BY AccountedAlive
<1>3. CASE WorkerAborts \/ DrainCompletes
  <2>1. SameProducers /\ UNCHANGED <<lane, input, depth, stack, outcome>>
    BY <1>3 DEF WorkerAborts, DrainCompletes, EndUnchanged, SameProducers, producerVars, handleVars
  <2>2. CASE WorkerAborts
    <3>1. Panicked' = 0 /\ pending' = pending
      BY <2>2 DEF WorkerAborts, Panicked
    <3>2. Whole(lane, input, pending, stack, outcome, 0)
      BY <1>1, PipelineWhole
    <3> QED BY <1>2, <2>1, <3>1, <3>2, SamePushing, AccountedPrimed, WholePrimed
  <2>3. CASE DrainCompletes
    BY <1>2, <2>1, <2>3, SamePushing, AccountedPrimed DEF DrainCompletes, Ended
  <2> QED BY <1>3, <2>2, <2>3
<1>4. CASE TerminalStops
  <2>1. /\ producers_closed /\ SameProducers /\ UNCHANGED outcome
        /\ lane' = NoLanes /\ input' = [q \in Queue |-> <<>>] /\ stack' = <<>> /\ depth' = [q \in Queue |-> 0]
    BY <1>4 DEF TerminalStops, EndUnchanged, SameProducers, Ended
  <2>2. Pushing = {}
    BY <2>1 DEF ReportInv, Holders, Pushing, InCallback
  <2>3. InInbox(input') = {} /\ InLanes(lane') = {} /\ InGroups(stack') = {}
    BY <2>1 DEF InInbox, InLanes, InGroups, NoLanes
  <2>4. RecordsIn(stack') = Cardinality(InGroups(stack'))
    <3>1. GroupsOK(<<>>)
      BY DEF GroupsOK
    <3> QED BY <2>1, <3>1, GroupsCounted
  <2>5. \A q \in Queue : OfKind({}, q) = {} /\ depth'[q] = 0
    BY <2>1 DEF OfKind
  <2>6. Queued(lane', input') = {}
    BY <2>2, <2>3 DEF Queued
  <2>7. Accounted(lane', input', depth', stack', outcome')
    BY <2>3, <2>4, <2>5, <2>6, FS_EmptySet DEF Accounted
  <2>8. wpc' = "stopped"
    BY <1>4 DEF TerminalStops, Ended
  <2> QED BY <2>1, <2>7, <2>8, SamePushing, AccountedPrimed
<1>5. CASE Top \/ Fill \/ GatherReceives
  <2>1. SameProducers
    BY <1>5 DEF Top, Fill, GatherReceives, WorkerUnchanged, SameProducers
  <2>2. \A r, rest : ~StartBatch(r, rest) /\ ~AddToBatch(r, rest)
    BY DEF StartBatch, AddToBatch, PlaceAfter, Ended
  <2>3. \E la, in : /\ Pipeline(la, in, pending, stack, outcome) /\ pending = <<>>
                    /\ Receive(in) /\ MappingPanics(Received(in)) /\ lane' = la
    <3>1. \/ pending = <<>> /\ Receive(input) /\ MappingPanics(Received(input)) /\ UNCHANGED lane
          \/ /\ lane' = NoLanes
             /\ \E in \in Refreshed : pending = <<>> /\ Receive(in) /\ MappingPanics(Received(in))
      <4>1. CASE Top
        BY <2>2, <4>1 DEF Top, Ended
      <4>2. CASE Fill
        BY <2>2, <4>2 DEF Fill, Ended
      <4>3. CASE GatherReceives
        BY <1>1, <2>2, <4>3 DEF GatherReceives, WorkerInv, Ended
      <4> QED BY <1>5, <4>1, <4>2, <4>3
    <3>2. \A in \in Refreshed : Pipeline(NoLanes, in, pending, stack, outcome)
      BY <1>1, RefreshState
    <3> QED BY <1>1, <3>1, <3>2
  <2> QED BY <2>1, <2>3, PanicAccounts
<1> QED BY <1>3, <1>4, <1>5 DEF Work, AwaitReceive, GatherEnds, StartExport, SendAccepted, SendInvalid,
       SendRetryable, BackoffEnds, SendTerminal, BatchExported, AwaitRecords, AwaitNotified, TerminalParks,
       AwaitShutdown, AwaitFence, NextGroup, Ended, WorkerInv, Filling, Exporting

(* A step of a producer admits one record or none: what it admits it holds, *)
(* and what is queued is only moved.                                        *)
Admits(N) ==
    /\ Queued(lane, input)' = Queued(lane, input) \cup N
    /\ \A r \in Log : outcome'[r] = "accepted" <=> outcome[r] = "accepted" \/ r \in N
    /\ \A r \in N : outcome[r] # "accepted"

(* Producers go on after the worker has ended: what they admit is counted,  *)
(* what they push stays queued.                                             *)
LEMMA QuietAccounts ==
  ASSUME Accounted(lane, input, depth, stack, outcome), Pushing \subseteq Log, Pushing' = Pushing,
         UNCHANGED <<kind, lane, input, depth, stack>>,
         \A r \in Log : outcome'[r] = "accepted" <=> outcome[r] = "accepted"
  PROVE  Accounted(lane, input, depth, stack, outcome)' /\ Admits({})
<1>1. Queued(lane, input) \cup InGroups(stack) \subseteq Log
  BY DEF Queued, InInbox, InLanes, InGroups
<1>2. Accounted(lane', input', depth', stack', outcome')
  BY <1>1 DEF Accounted
<1>3. Admits({})
  BY DEF Admits, Queued, InInbox, InLanes
<1> QED BY <1>2, <1>3, AccountedPrimed

(* A slot granted after the worker has ended is counted as one more queued. *)
LEMMA GrantedAccounts ==
  ASSUME IInv, NEW p \in Producer, NEW r, NEW q, Granted(p, r, q),
         Accounted(lane, input, depth, stack, outcome)
  PROVE  Accounted(lane, input, depth, stack, outcome)' /\ Admits({r})
<1> DEFINE Q == Queued(lane, input)
           S == InGroups(stack)
<1>1. OneMore(r, q) /\ r \in Log /\ q \in Queue /\ outcome[r] = "none"
  BY GrantedOne
<1>2. TypeOK /\ UNCHANGED <<lane, input, stack>>
  BY DEF IInv, Granted, ProducerUnchanged, workerVars
<1>3. Pushing' = Pushing \cup {r}
  <2>1. \A p2 \in Producer : ppc'[p2] = (IF p2 = p THEN "push" ELSE ppc[p2]) /\ current'[p2] = current[p2]
    BY <1>2 DEF Granted, TypeOK
  <2>2. ppc[p] = "claim" /\ current[p] = r
    BY DEF Granted
  <2> QED BY <2>1, <2>2 DEF Pushing
<1>4. Q' = Q \cup {r} /\ S' = S /\ RecordsIn(stack)' = RecordsIn(stack)
  BY <1>2, <1>3 DEF Queued, InInbox, InLanes, InGroups, RecordsIn
<1>5. r \notin Q /\ r \notin S /\ Q \cup S \subseteq Log
  <2>1. Pushing \subseteq Log
    BY PushingRecords DEF IInv
  <2> QED BY <1>1, <2>1 DEF Accounted, Queued, InInbox, InLanes, InGroups
<1>6. /\ \A s \in Q \cup S : outcome[s] = "accepted"
      /\ S \cap Q = {}
      /\ \A q2 \in Queue : depth[q2] = Cardinality(OfKind(Q, q2))
      /\ RecordsIn(stack) = Cardinality(S)
  BY DEF Accounted
<1> HIDE DEF Q, S
<1>7. ASSUME NEW q2 \in Queue PROVE depth'[q2] = Cardinality(OfKind(Q, q2)')
  <2>1. IsFiniteSet(OfKind(Q, q2)) /\ r \notin OfKind(Q, q2)
    <3>1. OfKind(Q, q2) \subseteq Log
      BY <1>5 DEF OfKind
    <3> QED BY <1>5, <3>1, ExporterAssumption, FS_Subset DEF OfKind
  <2>2. \A s \in Q : kind'[s] = kind[s]
    BY <1>1, <1>5 DEF OneMore
  <2>3. OfKind(Q, q2)' = IF q2 = q THEN OfKind(Q, q2) \cup {r} ELSE OfKind(Q, q2)
    BY <1>1, <1>4, <2>2 DEF OfKind, OneMore
  <2>4. Cardinality(OfKind(Q, q2) \cup {r}) = Cardinality(OfKind(Q, q2)) + 1
    BY <2>1, FS_AddElement
  <2> QED BY <1>1, <1>6, <2>3, <2>4 DEF OneMore
<1>8. \A s \in (Q \cup S \cup {r}) : outcome'[s] = "accepted"
  BY <1>1, <1>5, <1>6 DEF OneMore
<1>9. RecordsIn(stack)' = Cardinality(S')
  BY <1>4, <1>6
<1>10. /\ \A s \in (Q' \cup S') : outcome'[s] = "accepted"
       /\ S' \cap Q' = {}
  BY <1>4, <1>5, <1>6, <1>8
<1>11. Admits({r})
  <2>1. \A s \in Log : outcome'[s] = "accepted" <=> outcome[s] = "accepted" \/ s = r
    BY <1>1 DEF OneMore
  <2> QED BY <1>1, <1>4, <2>1 DEF Admits, Q
<1> QED BY <1>7, <1>9, <1>10, <1>11 DEF Accounted, Q, S

(* A push moves its record from the hands of the producer to its lane.      *)
LEMMA PushAccounts ==
  ASSUME IInv, NEW p \in Producer, Push(p), Accounted(lane, input, depth, stack, outcome)
  PROVE  Accounted(lane, input, depth, stack, outcome)' /\ Admits({})
<1> DEFINE r == current[p]
           q == kind[r]
<1>1. /\ ppc[p] = "push" /\ lane' = [lane EXCEPT ![p][q] = Append(@, r)]
      /\ ppc' = [ppc EXCEPT ![p] = IF LaneIsEmpty(p) THEN "wake" ELSE "leave"]
      /\ UNCHANGED <<current, ticket, kind, outcome, depth, input, stack>>
  BY DEF Push, ProducerUnchanged, workerVars
<1>2. TypeOK /\ RecordInv
  BY DEF IInv
<1>3. r \in Log /\ q \in Queue /\ lane \in [Producer -> [Queue -> Seq(Log)]]
  BY <1>1, <1>2, CurrentRecord DEF TypeOK
<1>4. r \in Pushing /\ \A s : s \in Pushing <=> s = r \/ s \in Pushing'
  <2>1. \A p2 \in Producer : IF p2 = p THEN ppc'[p2] \in {"wake", "leave"} ELSE ppc'[p2] = ppc[p2]
    BY <1>1, <1>2 DEF TypeOK
  <2> QED BY <1>1, <2>1 DEF Pushing
<1> HIDE DEF r, q
<1>5. InLanes(lane') = InLanes(lane) \cup {r}
  BY <1>1, <1>3, LanesGrow
<1>6. Queued(lane, input)' = Queued(lane, input)
  <2>1. Queued(lane, input)' = InInbox(input) \cup InLanes(lane') \cup Pushing'
    BY <1>1 DEF Queued, InInbox, InLanes
  <2> QED BY <1>4, <1>5, <2>1 DEF Queued
<1>7. InGroups(stack)' = InGroups(stack) /\ RecordsIn(stack)' = RecordsIn(stack)
  BY <1>1 DEF InGroups, RecordsIn
<1>8. \A q2 \in Queue : OfKind(Queued(lane, input), q2)' = OfKind(Queued(lane, input), q2)
  BY <1>1, <1>6 DEF OfKind
<1>9. Admits({})
  BY <1>1, <1>6 DEF Admits
<1> QED BY <1>1, <1>6, <1>7, <1>8, <1>9 DEF Accounted

(* What one step of a producer changes of the records being pushed.         *)
LEMMA PushersSame ==
  ASSUME NEW p \in Producer, ppc[p] # "push", ppc'[p] # "push",
         \A p2 \in Producer \ {p} : ppc'[p2] = ppc[p2] /\ current'[p2] = current[p2]
  PROVE  Pushing' = Pushing
BY DEF Pushing

(* No step of a producer disturbs the count, worker or no worker.           *)
LEMMA ProducingAccounts ==
  ASSUME IInv, Producing, Accounted(lane, input, depth, stack, outcome)
  PROVE  Accounted(lane, input, depth, stack, outcome)' /\ \E N \in SUBSET Log : Admits(N)
<1>1. TypeOK /\ Pushing \subseteq Log
  BY PushingRecords DEF IInv
<1>2. PICK p \in Producer : Produce(p) \/ \E r \in Log : Dispatch(p, r)
  BY DEF Producing
<1>3. UNCHANGED <<input, stack>>
  BY ProducingFrame DEF ProducerFrame, workerVars
<1>4. CASE Push(p)
  BY <1>4, PushAccounts
<1>5. CASE \E r \in Log, q \in Queue : Granted(p, r, q)
  <2>1. PICK r \in Log, q \in Queue : Granted(p, r, q)
    BY <1>5
  <2>2. Accounted(lane, input, depth, stack, outcome)' /\ Admits({r})
    BY <2>1, GrantedAccounts
  <2> QED BY <2>2
<1>6. CASE \/ \E r \in Log : Dispatch(p, r)
           \/ CheckAccepting(p) \/ Wake(p) \/ Leave(p)
           \/ \E r \in Log : outcome[r] = "none" /\ Refused(p, r)
  <2>1. \E place : ppc' = [ppc EXCEPT ![p] = place] /\ place # "push" /\ ppc[p] # "push"
    BY <1>6 DEF Dispatch, CheckAccepting, Wake, Leave, Refused
  <2>2. current' = current \/ \E r : current' = [current EXCEPT ![p] = r]
    BY <1>6 DEF Dispatch, CheckAccepting, Wake, Leave, Refused
  <2>3. Pushing' = Pushing
    <3>1. /\ \A p2 \in Producer \ {p} : ppc'[p2] = ppc[p2] /\ current'[p2] = current[p2]
          /\ ppc'[p] # "push" /\ ppc[p] # "push"
      BY <1>1, <2>1, <2>2 DEF TypeOK
    <3> QED BY <3>1, PushersSame
  <2>4. UNCHANGED <<kind, lane, depth>>
    BY <1>6 DEF Dispatch, CheckAccepting, Wake, Leave, Refused
  <2>5. \A s \in Log : outcome'[s] = "accepted" <=> outcome[s] = "accepted"
    <3>1. CASE CheckAccepting(p)
      <4>1. ppc[p] = "loaded" /\ current[p] \in Log /\ outcome[current[p]] = "none"
        BY <3>1, CurrentRecord DEF CheckAccepting, IInv, RecordInv
      <4>2. \E o : outcome' = [outcome EXCEPT ![current[p]] = o] /\ o # "accepted"
        BY <3>1 DEF CheckAccepting
      <4> QED BY <1>1, <4>1, <4>2 DEF TypeOK
    <3>2. CASE \E r \in Log : outcome[r] = "none" /\ Refused(p, r)
      <4>1. PICK r \in Log : outcome[r] = "none" /\ outcome' = [outcome EXCEPT ![r] = "dropped_full"]
        BY <3>2 DEF Refused
      <4> QED BY <1>1, <4>1 DEF TypeOK
    <3>3. CASE Wake(p) \/ Leave(p) \/ \E r \in Log : Dispatch(p, r)
      BY <3>3 DEF Wake, Leave, Dispatch
    <3> QED BY <1>6, <3>1, <3>2, <3>3
  <2> QED BY <1>1, <1>3, <2>3, <2>4, <2>5, QuietAccounts
<1> QED BY <1>2, <1>4, <1>5, <1>6, ClaimCases DEF Produce

(* What a producer admits, it holds: no record goes astray.                 *)
LEMMA ProducingWhole ==
  ASSUME NEW N \in SUBSET Log, Admits(N), UNCHANGED <<wpc, pending, stack>>,
         Whole(lane, input, pending, stack, outcome, Panicked)
  PROVE  Whole(lane, input, pending, stack, outcome, Panicked)'
<1>1. InPending(pending)' = InPending(pending) /\ InGroups(stack)' = InGroups(stack) /\ Panicked' = Panicked
  BY DEF InPending, InGroups, Panicked
<1>2. \A r \in InPending(pending) : r \in Log /\ outcome[r] = "accepted" /\ r \notin Queued(lane, input) \cup InGroups(stack)
  BY DEF Whole, InPending
<1>3. \A r \in InPending(pending) :
         outcome'[r] = "accepted" /\ r \notin Queued(lane, input)' \cup InGroups(stack)
  BY <1>2 DEF Admits
<1>4. Strays(lane, input, pending, stack, outcome)' = Strays(lane, input, pending, stack, outcome)
  BY <1>1 DEF Strays, Staged, Admits
<1> QED BY <1>1, <1>3, <1>4 DEF Whole

(* Callers and the handle do not touch the queues, but for a failed drain.  *)
LEMMA OthersAccount ==
  ASSUME IInv, Flushing \/ Handling \/ UNCHANGED vars, ~DrainFails,
         Accounted(lane, input, depth, stack, outcome)
  PROVE  /\ Accounted(lane, input, depth, stack, outcome)'
         /\ Pushing' = Pushing /\ UNCHANGED <<lane, input, pending, stack, outcome>>
<1>1. SameProducers /\ UNCHANGED <<lane, input, depth, pending, stack, outcome>>
  BY DEF Flushing, Flush, FlushCalls, FlushArms, FlushChecks, FlushChecksStatus, FlushWakes, FlushTimesOut,
         FlushUnchanged, Handling, Handle, Close, StopAccepting, MarkShuttingDown, ReleaseSink, Joins, DropAborts,
         ShutdownDropsHandle, JoinTimesOut, WorkerAborts, HandleUnchanged, SameProducers, producerVars, workerVars, vars
<1> QED BY <1>1, SamePushing, AccountedPrimed

(* Nothing is parked, reported or in flight in the beginning.               *)
LEMMA InitReport == Init => ReportInv
BY DEF Init, ReportInv, Parked, Ended, NoReport, None

(* The gauges say what is queued whether the worker lives or not, until a   *)
(* failed drain has reported.                                               *)
LEMMA AccountedNow ==
  ASSUME IInv, ReportInv, report.by # "handle" PROVE Accounted(lane, input, depth, stack, outcome)
BY AccountedAlive DEF ReportInv, Alive

(* What no step of the worker touches, and what it may report.              *)
LEMMA WorkFrame ==
  ASSUME Work
  PROVE  Alive /\ UNCHANGED <<ppc, slot, producers_closed>> /\ (report' = report \/ report'.by = "worker")
<1>1. CASE Top \/ AwaitReceive \/ Fill \/ GatherEnds \/ GatherReceives \/ StartExport
  <2>1. WorkerUnchanged /\ Alive
    BY <1>1 DEF Top, AwaitReceive, Fill, GatherEnds, GatherReceives, StartExport, Alive, Ended
  <2> QED BY <2>1 DEF WorkerUnchanged, handleVars, sharedVars
<1>2. CASE SendAccepted \/ SendInvalid \/ SendRetryable \/ BackoffEnds \/ SendTerminal \/ BatchExported
  <2>1. SendUnchanged /\ Alive
    BY <1>2 DEF SendAccepted, SendInvalid, SendRetryable, BackoffEnds, SendTerminal, BatchExported, Alive, Ended
  <2> QED BY <2>1 DEF SendUnchanged, WorkerUnchanged, handleVars, sharedVars
<1>3. CASE AwaitRecords \/ TerminalParks \/ AwaitShutdown \/ AwaitFence
  <2>1. AwaitUnchanged /\ Alive
    BY <1>3 DEF AwaitRecords, TerminalParks, AwaitShutdown, AwaitFence, AwaitNotified, Alive, Ended
  <2> QED BY <2>1 DEF AwaitUnchanged, WorkerUnchanged, handleVars, sharedVars
<1>4. CASE DrainCompletes
  BY <1>4 DEF DrainCompletes, Alive, Ended, sharedVars
<1>5. CASE TerminalStops
  BY <1>5 DEF TerminalStops, Alive, Ended, sharedVars
<1> QED BY <1>1, <1>2, <1>3, <1>4, <1>5 DEF Work

(* Taking a record into the batch leaves the batch where it was, or grows   *)
(* it, and what is in flight is not touched.                                *)
LEMMA BatchReport ==
  ASSUME Top \/ Fill \/ GatherReceives
  PROVE  inflight' = inflight /\ (stack' # <<>> \/ stack' = stack) /\ wpc' \notin Parked /\ wpc # "exported"
<1>1. ASSUME NEW r, NEW rest, StartBatch(r, rest)
      PROVE  (stack' # <<>> \/ stack' = stack) /\ wpc' \notin Parked
  <2>1. Oversize(r) \/ ~Oversize(r)
    OBVIOUS
  <2> QED BY <1>1, <2>1 DEF StartBatch, PlaceAfter, Parked
<1>2. ASSUME NEW r, NEW rest, AddToBatch(r, rest)
      PROVE  (stack' # <<>> \/ stack' = stack) /\ wpc' \notin Parked
  <2> DEFINE batch == Append(Head(stack), r)
  <2>1. /\ stack' = stack \/ stack' = <<batch>>
        /\ wpc' \in {"fill", "batched", PlaceAfter(batch)}
    BY <1>2 DEF AddToBatch
  <2>2. <<batch>> # <<>> /\ {"fill", "batched", PlaceAfter(batch)} \cap Parked = {}
    BY DEF PlaceAfter, Parked
  <2> QED BY <2>1, <2>2
<1>3. ASSUME NEW r, MappingPanics(r) PROVE stack' = stack /\ wpc' \notin Parked
  BY <1>3 DEF MappingPanics, Parked
<1>4. CASE Top
  BY <1>1, <1>3, <1>4 DEF Top, Parked
<1>5. CASE Fill
  BY <1>2, <1>3, <1>5 DEF Fill, Parked
<1>6. CASE GatherReceives
  BY <1>2, <1>3, <1>6 DEF GatherReceives, Parked
<1> QED BY <1>4, <1>5, <1>6

(* A worker at work counts what it has in flight.                           *)
LEMMA WorkReport == ASSUME IInv, ReportInv, Work PROVE ReportInv'
<1> USE DEF WorkerUnchanged, SendUnchanged, AwaitUnchanged, AwaitNotified, EndUnchanged, handleVars
<1>1. TypeOK /\ WorkerInv
  BY DEF IInv
<1>2. Alive /\ UNCHANGED <<ppc, slot, producers_closed>> /\ (report' = report \/ report'.by = "worker")
  BY WorkFrame
<1>3. report'.by # "handle"
  BY <1>2 DEF ReportInv, Alive
<1>4. producers_closed' => ~slot' /\ Holders' = {}
  BY <1>2 DEF ReportInv, Holders
<1>5. CASE Top \/ Fill \/ GatherReceives
  <2>1. /\ inflight' = inflight /\ (stack' # <<>> \/ stack' = stack)
        /\ wpc' \notin Parked /\ wpc # "exported"
    BY <1>5, BatchReport
  <2>4. inflight' > 0 => stack' # <<>>
    BY <2>1 DEF ReportInv
  <2> QED BY <1>2, <1>3, <1>4, <2>1, <2>4, EndAccounts DEF ReportInv, Ended
<1>6. CASE StartExport \/ BatchExported \/ DrainCompletes
  <2>1. wpc' \notin Parked /\ stack' = stack
    BY <1>6 DEF StartExport, BatchExported, DrainCompletes, Parked
  <2>2. inflight' > 0 => stack' # <<>>
    BY <1>1, <1>6 DEF StartExport, BatchExported, DrainCompletes, WorkerInv, Filling, Exporting, Ended, ReportInv
  <2> QED BY <1>2, <1>3, <1>4, <2>1, <2>2, EndAccounts DEF ReportInv, Ended
<1>7. CASE SendAccepted \/ SendInvalid
  <2>1. wpc' \in {"send", "exported"} /\ inflight' = inflight
    BY <1>7 DEF SendAccepted, SendInvalid, NextGroup
  <2>2. wpc' = "send" => stack' # <<>>
    <3>1. CASE NextGroup
      BY <3>1 DEF NextGroup
    <3>2. CASE ~NextGroup
      <4>1. stack' = Split(Head(stack)) \o Tail(stack)
        BY <1>7, <3>2 DEF SendAccepted, SendInvalid
      <4>2. WorkerInv'
        BY WorkPipeline DEF WorkKeeps
      <4> QED BY <4>2 DEF WorkerInv, Exporting
    <3> QED BY <3>1, <3>2
  <2> QED BY <1>3, <1>4, <2>1, <2>2 DEF ReportInv, Parked, Ended
<1>8. CASE SendTerminal
  BY <1>1, <1>3, <1>4, <1>8 DEF SendTerminal, ReportInv, RecordsIn, Parked, Ended, WorkerInv, Exporting
<1>9. CASE SendRetryable \/ BackoffEnds \/ AwaitReceive \/ GatherEnds \/ AwaitRecords
  <2>1. UNCHANGED <<stack, inflight>> /\ wpc' \notin Parked \cup Ended /\ wpc # "exported"
    BY <1>9 DEF SendRetryable, BackoffEnds, AwaitReceive, GatherEnds, AwaitRecords, Parked, Ended
  <2> QED BY <1>3, <1>4, <2>1 DEF ReportInv, Ended
<1>10. CASE TerminalParks \/ AwaitShutdown \/ AwaitFence \/ (TerminalStops /\ ~producers_closed)
  <2>1. UNCHANGED <<stack, inflight>> /\ wpc' \notin Ended /\ wpc \in Parked /\ wpc # "exported"
    BY <1>10 DEF TerminalParks, AwaitShutdown, AwaitFence, TerminalStops, Parked, Ended
  <2>2. RecordsIn(stack)' = RecordsIn(stack)
    BY <2>1 DEF RecordsIn
  <2> QED BY <1>3, <1>4, <2>1, <2>2 DEF ReportInv, Ended
<1>11. CASE TerminalStops /\ producers_closed
  <2>1. inflight' = 0 /\ wpc' = "stopped"
    BY <1>11 DEF TerminalStops
  <2>2. Accounted(lane, input, depth, stack, outcome)'
    BY <1>2, <2>1, EndAccounts DEF Ended
  <2> QED BY <1>3, <1>4, <2>1, <2>2 DEF ReportInv, Parked
<1> QED BY <1>5, <1>6, <1>7, <1>8, <1>9, <1>10, <1>11 DEF Work

(* Once the fence is closed no producer is in the callback, and none enters. *)
LEMMA ProducingReport == ASSUME IInv, ReportInv, Producing PROVE ReportInv'
<1>1. TypeOK /\ ProducerFrame
  BY ProducingFrame DEF IInv
<1>2. UNCHANGED <<wpc, stack, inflight, report, slot>> /\ RecordsIn(stack)' = RecordsIn(stack)
  BY <1>1 DEF ProducerFrame, workerVars, handleVars, RecordsIn
<1>3. producers_closed' => ~slot' /\ Holders' = {}
  <2>1. PICK p \in Producer : Produce(p) \/ \E r \in Log : Dispatch(p, r)
    BY DEF Producing
  <2>2. ~producers_closed
    BY <2>1 DEF Produce, Dispatch, CheckAccepting, ClaimSlot, Push, Wake, Leave, Holders, InCallback, ReportInv
  <2>3. producers_closed' => Leave(p) /\ ~slot /\ Holders = {p}
    BY <2>1, <2>2 DEF Produce, Dispatch, CheckAccepting, ClaimSlot, Push, Wake, Leave, ProducerUnchanged, sharedVars
  <2>4. Leave(p) => \A p2 \in Producer : ppc'[p2] = IF p2 = p THEN "idle" ELSE ppc[p2]
    BY <1>1 DEF Leave, TypeOK
  <2> QED BY <1>2, <2>3, <2>4 DEF Holders, InCallback
<1>4. wpc \in Ended /\ report.by # "handle" =>
         Accounted(lane, input, depth, stack, outcome)' /\ \E N \in SUBSET Log : Admits(N)
  BY AccountedNow, ProducingAccounts
<1>5. wpc \in {"aborted", "panicked"} /\ report.by # "handle" =>
         Whole(lane, input, pending, stack, outcome, Panicked)'
  <2>1. pending' = pending
    BY <1>1 DEF ProducerFrame, workerVars
  <2> QED BY <1>2, <1>4, <2>1, ProducingWhole DEF ReportInv, Ended
<1> QED BY <1>2, <1>3, <1>4, <1>5 DEF ReportInv

(* The handle closes the fence when nobody is inside, and reports last.     *)
LEMMA OthersReport == ASSUME IInv, ReportInv, Flushing \/ Handling \/ UNCHANGED vars PROVE ReportInv'
<1>1. CASE DrainFails
  <2>1. /\ UNCHANGED <<ppc, slot, producers_closed, wpc, stack>> /\ inflight' = 0
        /\ wpc \in Ended /\ report'.by = "handle"
    BY <1>1 DEF DrainFails, HandleUnchanged, producerVars, sharedVars, workerVars, Ended
  <2> QED BY <2>1 DEF ReportInv, Holders, Parked, Ended
<1>2. CASE ~DrainFails
  <2>1. UNCHANGED <<ppc, stack, inflight, report>> /\ RecordsIn(stack)' = RecordsIn(stack)
    BY <1>2 DEF Flushing, Flush, FlushCalls, FlushArms, FlushChecks, FlushChecksStatus, FlushWakes, FlushTimesOut,
         FlushUnchanged, Handling, Handle, Close, StopAccepting, MarkShuttingDown, ReleaseSink, Joins, DropAborts,
         ShutdownDropsHandle, JoinTimesOut, WorkerAborts, HandleUnchanged, producerVars, workerVars, handleVars, vars,
         RecordsIn
  <2>2. producers_closed' => ~slot' /\ Holders' = {}
    <3>1. UNCHANGED <<slot, producers_closed>> \/ (slot' = FALSE /\ (Holders = {} \/ UNCHANGED producers_closed))
      BY <1>2 DEF Flushing, Flush, FlushCalls, FlushArms, FlushChecks, FlushChecksStatus, FlushWakes, FlushTimesOut,
         FlushUnchanged, Handling, Handle, Close, StopAccepting, MarkShuttingDown, ReleaseSink, Joins, DropAborts,
         ShutdownDropsHandle, JoinTimesOut, WorkerAborts, HandleUnchanged, sharedVars, vars
    <3>2. Holders' = Holders
      BY <2>1 DEF Holders
    <3> QED BY <3>1, <3>2 DEF ReportInv
  <2>3. wpc' = wpc \/ (WorkerAborts /\ wpc \in Awaiting /\ wpc' = "aborted")
    BY <1>2 DEF Flushing, Flush, FlushCalls, FlushArms, FlushChecks, FlushChecksStatus, FlushWakes, FlushTimesOut,
         FlushUnchanged, Handling, Handle, Close, StopAccepting, MarkShuttingDown, ReleaseSink, Joins, DropAborts,
         ShutdownDropsHandle, JoinTimesOut, WorkerAborts, HandleUnchanged, workerVars, vars
  <2>4. report.by # "handle" =>
           /\ Accounted(lane, input, depth, stack, outcome)'
           /\ Pushing' = Pushing /\ UNCHANGED <<lane, input, pending, stack, outcome>>
    BY <1>2, AccountedNow, OthersAccount
  <2>5. CASE wpc' = wpc
    <3>1. wpc \in {"aborted", "panicked"} /\ report.by # "handle" =>
             Whole(lane, input, pending, stack, outcome, Panicked)'
      <4>1. Panicked' = Panicked
        BY <2>5 DEF Panicked
      <4> QED BY <2>4, <4>1, WholePrimed DEF ReportInv
    <3> QED BY <2>1, <2>2, <2>4, <2>5, <3>1 DEF ReportInv
  <2>6. CASE WorkerAborts /\ wpc \in Awaiting /\ wpc' = "aborted"
    <3>1. Alive
      BY <2>6 DEF Alive, Awaiting, Ended
    <3>2. /\ Accounted(lane, input, depth, stack, outcome)'
          /\ Whole(lane, input, pending, stack, outcome, Panicked)'
      BY <2>6, <3>1, EndAccounts DEF Ended
    <3> QED BY <2>1, <2>2, <2>6, <3>2 DEF ReportInv, Awaiting, Parked, Ended
  <2> QED BY <2>3, <2>5, <2>6
<1> QED BY <1>1, <1>2

(* GivenUp and InHand are made of whole stages.                             *)
LEMMA InStages ==
  ASSUME TypeOK
  PROVE  /\ GivenUp = Queued(lane, input) \cup (IF inflight > 0 THEN InGroups(stack) ELSE {})
         /\ InHand = InPending(pending) \cup (IF inflight > 0 THEN {} ELSE InGroups(stack))
<1> DEFINE Q == Queued(lane, input)
           S == InGroups(stack)
<1>1. Batch = S
  <2>1. \A g \in DOMAIN stack : ToSet(stack[g]) = {stack[g][i] : i \in DOMAIN stack[g]} /\ ToSet(stack[g]) \subseteq Log
    BY DEF TypeOK, ToSet
  <2> QED BY <2>1 DEF InGroups, Batch
<1>2. ToSet(pending) = InPending(pending)
  BY SMTT(40) DEF TypeOK, ToSet, InPending
<1>3. GivenUp = Q \cup (IF inflight > 0 THEN S ELSE {})
  <2> DEFINE waiting(p) == ToSet(lane[p]["Normal"]) \cup ToSet(lane[p]["Reserved"])
             W == UNION {waiting(p) : p \in Producer}
             B == ToSet(input["Normal"]) \cup ToSet(input["Reserved"])
  <2>1. W = InLanes(lane)
    <3>1. \A p \in Producer, q \in Queue : lane[p][q] \in Seq(Log)
      BY DEF TypeOK
    <3>2. \A p \in Producer, q \in Queue : ToSet(lane[p][q]) = {lane[p][q][i] : i \in DOMAIN lane[p][q]} /\ ToSet(lane[p][q]) \subseteq Log
      BY <3>1 DEF ToSet
    <3>3. \A p \in Producer : \A r : r \in waiting(p) <=> \E q \in Queue : r \in ToSet(lane[p][q])
      BY DEF Queue
    <3>4. \A r : r \in InLanes(lane) <=> \E p \in Producer, q \in Queue : r \in ToSet(lane[p][q])
      <4>1. ASSUME NEW r, NEW p \in Producer, NEW q \in Queue
            PROVE  r \in ToSet(lane[p][q]) <=> r \in Log /\ \E i \in DOMAIN lane[p][q] : lane[p][q][i] = r
        BY <3>2
      <4> QED BY <4>1 DEF InLanes
    <3> HIDE DEF waiting
    <3> QED BY <3>3, <3>4
  <2>2. B = InInbox(input)
    <3>1. \A q \in Queue : ToSet(input[q]) = {input[q][i] : i \in DOMAIN input[q]} /\ ToSet(input[q]) \subseteq Log
      BY DEF TypeOK, ToSet
    <3> QED BY <3>1 DEF InInbox, Queue
  <2>3. GivenUp = Pushing \cup W \cup B \cup (IF inflight > 0 THEN Batch ELSE {})
    BY DEF GivenUp
  <2> HIDE DEF waiting, W, B, S
  <2>4. GivenUp = Pushing \cup InLanes(lane) \cup InInbox(input) \cup (IF inflight > 0 THEN S ELSE {})
    BY <1>1, <2>1, <2>2, <2>3
  <2>5. Pushing \cup InLanes(lane) \cup InInbox(input) = Q
    BY DEF Queued
  <2> QED BY <2>4, <2>5
<1> QED BY <1>1, <1>2, <1>3 DEF InHand

(* What is left behind is what GivenUp names, what the worker holds outside *)
(* every gauge, and the strays.                                             *)
LEMMA GivenUpIs ==
  ASSUME TypeOK, RecordInv, Accounted(lane, input, depth, stack, outcome), inflight > 0 => stack # <<>>
  PROVE  /\ GivenUp \subseteq Lost
         /\ QueuedRecords + inflight = Cardinality(GivenUp) + Recounted
         /\ \A n \in Nat : Whole(lane, input, pending, stack, outcome, n) =>
               QueuedRecords + inflight + Cardinality(InHand) + n = Cardinality(Lost) + Recounted
<1> DEFINE Q == Queued(lane, input)
           S == InGroups(stack)
           N == OfKind(Q, "Normal")
           R == OfKind(Q, "Reserved")
<1>1. /\ GivenUp = Q \cup (IF inflight > 0 THEN S ELSE {})
      /\ InHand = InPending(pending) \cup (IF inflight > 0 THEN {} ELSE S)
  BY InStages
<1>2. /\ \A r \in Q \cup S : outcome[r] = "accepted"
      /\ S \cap Q = {}
      /\ depth["Normal"] = Cardinality(N) /\ depth["Reserved"] = Cardinality(R)
      /\ RecordsIn(stack) = Cardinality(S)
  BY DEF Accounted, Queue
<1>3. Q \subseteq Log /\ S \subseteq Log
  BY PushingRecords DEF Queued, InInbox, InLanes, InGroups
<1> HIDE DEF Q, S
<1>4. N \cup R = Q /\ N \cap R = {}
  BY <1>3 DEF OfKind, TypeOK, Queue
<1>5. IsFiniteSet(N) /\ IsFiniteSet(R) /\ IsFiniteSet(Q) /\ IsFiniteSet(S)
  BY <1>3, FS_Subset, ExporterAssumption DEF OfKind
<1> HIDE DEF N, R
<1>6. Cardinality(Q) = depth["Normal"] + depth["Reserved"]
  <2>1. Cardinality(N \cup R) = Cardinality(N) + Cardinality(R) - Cardinality(N \cap R)
    BY <1>5, FS_Union
  <2>2. Cardinality(N \cap R) = 0
    BY <1>4, FS_EmptySet
  <2>3. Cardinality(N) \in Nat /\ Cardinality(R) \in Nat
    BY <1>5, FS_CardinalityType
  <2>4. Cardinality(Q) = Cardinality(N) + Cardinality(R) - Cardinality(N \cap R)
    BY <1>4, <2>1
  <2>5. Cardinality(Q) = Cardinality(N) + Cardinality(R)
    BY <2>2, <2>3, <2>4
  <2> QED BY <1>2, <2>5
<1>7. Cardinality(Q \cup S) = Cardinality(Q) + Cardinality(S)
  <2>1. Cardinality(Q \cup S) = Cardinality(Q) + Cardinality(S) - Cardinality(Q \cap S)
    BY <1>5, FS_Union
  <2>2. Q \cap S = {} /\ Cardinality(Q \cap S) = 0
    BY <1>2, FS_EmptySet
  <2>3. Cardinality(Q) \in Nat /\ Cardinality(S) \in Nat
    BY <1>5, FS_CardinalityType
  <2> QED BY <2>1, <2>2, <2>3
<1>8. /\ Cardinality(Q) \in Nat /\ Cardinality(S) \in Nat /\ inflight \in Nat
      /\ QueuedRecords = Cardinality(Q)
  BY <1>5, <1>6, FS_CardinalityType DEF QueuedRecords, TypeOK
<1>9. QueuedRecords + inflight = Cardinality(GivenUp) + Recounted
  <2>1. CASE inflight > 0
    <3>1. Recounted = inflight - Cardinality(S) /\ GivenUp = Q \cup S
      BY <1>1, <1>2, <2>1 DEF Recounted
    <3> QED BY <1>2, <1>7, <1>8, <3>1
  <2>2. CASE ~(inflight > 0)
    <3>1. Recounted = 0 /\ GivenUp = Q /\ inflight = 0
      BY <1>1, <1>8, <2>2 DEF Recounted
    <3> QED BY <1>2, <1>8, <3>1
  <2> QED BY <2>1, <2>2
<1>10. GivenUp \subseteq Lost
  BY <1>1, <1>2, <1>3 DEF Lost
<1>11. ASSUME NEW n \in Nat, Whole(lane, input, pending, stack, outcome, n)
       PROVE  Cardinality(GivenUp) + Cardinality(InHand) + n = Cardinality(Lost)
  <2> DEFINE P == InPending(pending)
             T == Strays(lane, input, pending, stack, outcome)
  <2>1. /\ \A r \in P : r \in Log /\ outcome[r] = "accepted" /\ r \notin Q \cup S
        /\ T = {r \in Log : outcome[r] = "accepted" /\ r \notin Q \cup S \cup P}
        /\ Cardinality(T) = n
    BY <1>11 DEF Whole, Strays, Staged, InPending, Q, S
  <2> HIDE DEF P, T
  <2>2. Lost = (GivenUp \cup InHand) \cup T /\ (GivenUp \cup InHand) \cap T = {} /\ GivenUp \cap InHand = {}
    BY <1>1, <1>2, <1>3, <2>1 DEF Lost, P
  <2>3. Lost \subseteq Log /\ IsFiniteSet(Lost)
    BY ExporterAssumption, FS_Subset DEF Lost
  <2>4. IsFiniteSet(GivenUp) /\ IsFiniteSet(InHand) /\ IsFiniteSet(GivenUp \cup InHand) /\ IsFiniteSet(T)
    BY <2>2, <2>3, FS_Subset
  <2>5. /\ Cardinality(Lost) = Cardinality(GivenUp \cup InHand) + Cardinality(T) - Cardinality((GivenUp \cup InHand) \cap T)
        /\ Cardinality(GivenUp \cup InHand) = Cardinality(GivenUp) + Cardinality(InHand) - Cardinality(GivenUp \cap InHand)
    BY <2>2, <2>4, FS_Union
  <2>6. Cardinality((GivenUp \cup InHand) \cap T) = 0 /\ Cardinality(GivenUp \cap InHand) = 0
    BY <2>2, FS_EmptySet
  <2>7. Cardinality(GivenUp) \in Nat /\ Cardinality(InHand) \in Nat /\ Cardinality(T) \in Nat
    BY <2>4, FS_CardinalityType
  <2> QED BY <2>1, <2>5, <2>6, <2>7
<1>12. ASSUME NEW n \in Nat, Whole(lane, input, pending, stack, outcome, n)
       PROVE  QueuedRecords + inflight + Cardinality(InHand) + n = Cardinality(Lost) + Recounted
  <2>1. Cardinality(GivenUp) + Cardinality(InHand) + n = Cardinality(Lost)
    BY <1>11, <1>12
  <2>2. GivenUp \subseteq Log /\ InHand \subseteq Log
    BY <1>1, <1>3 DEF InPending
  <2>3. Cardinality(GivenUp) \in Nat /\ Cardinality(InHand) \in Nat
    BY <2>2, ExporterAssumption, FS_Subset, FS_CardinalityType
  <2>4. QueuedRecords \in Nat /\ inflight \in Nat /\ Recounted \in Int
    BY <1>2, <1>8 DEF Recounted
  <2> QED BY <1>9, <2>1, <2>3, <2>4
<1> QED BY <1>9, <1>10, <1>12

(* A closing that gives up, the handle's after its deadline or a panic, or  *)
(* the worker's after a terminal failure, reports every accepted record it  *)
(* leaves without an outcome, short of exactly the overflow record, a batch *)
(* still being filled and the record whose mapping panicked, and in excess  *)
(* of exactly the settled groups of the batch in export.                    *)
THEOREM ReportIsHonest == Spec => ReportAccountsForRecords
<1>1. IInv /\ ReportInv /\ [Next]_vars => ReportInv'
  BY WorkReport, ProducingReport, OthersReport DEF Next, Producing, Flushing, Handling
<1>2. ASSUME IInv, ReportInv, Next, GivesUp
      PROVE  /\ GivenUp \subseteq Lost
             /\ report'.remaining = Cardinality(GivenUp) + Recounted
             /\ wpc # "stopped" =>
                   report'.remaining + Cardinality(InHand) + Panicked = Cardinality(Lost) + Recounted
  <2>1. TypeOK /\ RecordInv
    BY <1>2 DEF IInv
  <2>2. report.by # "handle" /\ Panicked \in Nat
    BY <1>2 DEF ReportInv, Ended, GivesUp, Panicked
  <2>3. inflight > 0 => stack # <<>> \/ wpc = "exported"
    BY <1>2 DEF ReportInv
  <2>4. Accounted(lane, input, depth, stack, outcome)
    BY <1>2, <2>2, AccountedNow
  <2>5. CASE DrainFails
    <3>1. wpc \in Ended /\ report'.remaining = QueuedRecords + inflight
      BY <2>5 DEF DrainFails, Ended, Remaining
    <3>2. inflight > 0 => stack # <<>>
      BY <2>3, <3>1 DEF Ended
    <3>3. wpc # "stopped" => Whole(lane, input, pending, stack, outcome, Panicked)
      BY <1>2, <2>2, <3>1 DEF ReportInv, Ended
    <3> QED BY <2>1, <2>2, <2>4, <3>1, <3>2, <3>3, GivenUpIs
  <2>6. CASE TerminalStops /\ producers_closed
    <3>1. wpc = "term_fence" /\ report'.remaining = RecordsIn(stack) + QueuedRecords
      BY <2>6 DEF TerminalStops
    <3>2. inflight = RecordsIn(stack) /\ (inflight > 0 => stack # <<>>)
      BY <1>2, <2>3, <3>1 DEF ReportInv, Parked
    <3>3. inflight \in Nat /\ QueuedRecords \in Nat
      BY <2>1 DEF TypeOK, QueuedRecords, Queue
    <3>4. RecordsIn(stack) + QueuedRecords = QueuedRecords + inflight
      BY <3>2, <3>3
    <3>5. Whole(lane, input, pending, stack, outcome, Panicked)
      <4>1. Pipeline(lane, input, pending, stack, outcome) /\ Panicked = 0
        BY <1>2, <3>1, AliveState DEF Alive, Ended, Panicked
      <4> QED BY <4>1, PipelineWhole
    <3> QED BY <2>1, <2>2, <2>4, <3>1, <3>2, <3>4, <3>5, GivenUpIs
  <2>7. CASE Producing
    BY <1>2, <2>7, ProducingFrame DEF ProducerFrame, handleVars, workerVars, GivesUp
  <2>8. CASE Flushing
    <3>1. UNCHANGED <<report, wpc>>
      BY <2>8, <1>2, FlushPipeline DEF FlushUnchanged, handleVars, workerVars
    <3> QED BY <1>2, <3>1 DEF GivesUp
  <2>9. CASE Handling /\ ~DrainFails
    <3>1. report' = report
      BY <2>9 DEF Handling, Handle, Close, StopAccepting, MarkShuttingDown, ReleaseSink, Joins, DropAborts,
         ShutdownDropsHandle, JoinTimesOut, WorkerAborts, handleVars
    <3>2. wpc' = wpc \/ wpc' = "aborted"
      BY <2>9 DEF Handling, Handle, Close, StopAccepting, MarkShuttingDown, ReleaseSink, Joins, DropAborts,
         ShutdownDropsHandle, JoinTimesOut, WorkerAborts, HandleUnchanged, workerVars
    <3> QED BY <1>2, <3>1, <3>2 DEF GivesUp
  <2>10. CASE Work /\ ~(TerminalStops /\ producers_closed)
    <3>1. report'.by # "handle"
      BY <2>2, <2>10, WorkFrame
    <3>2. wpc = "term_fence" => wpc' # "stopped"
      BY <2>10 DEF Work, Top, AwaitReceive, Fill, GatherEnds, GatherReceives, StartExport, SendAccepted, SendInvalid,
         SendRetryable, BackoffEnds, SendTerminal, BatchExported, DrainCompletes, AwaitRecords, AwaitNotified, TerminalParks,
         AwaitShutdown, AwaitFence, TerminalStops
    <3> QED BY <1>2, <3>1, <3>2 DEF GivesUp
  <2> QED BY <1>2, <2>5, <2>6, <2>7, <2>8, <2>9, <2>10 DEF Next, Producing, Flushing, Handling
<1>3. IInv /\ ReportInv /\ [Next]_vars =>
        [GivesUp =>
            /\ GivenUp \subseteq Lost
            /\ report'.remaining = Cardinality(GivenUp) + Recounted
            /\ wpc # "stopped" =>
                  report'.remaining + Cardinality(InHand) + Panicked = Cardinality(Lost) + Recounted]_vars
  BY <1>2
<1> QED BY <1>1, <1>3, InitReport, InductiveInvariant, PTL DEF Spec, ReportAccountsForRecords

-----------------------------------------------------------------------------
(* The length of a request. The sizer's sums are what the wire takes (varints*)
(* field by field, records by folds over their lengths), and so every group *)
(* the worker makes is within max_batch_bytes.                              *)

(* The room of k groups, for every k.                                       *)
LEMMA RoomIs == Room[0] = 1 /\ \A k \in Nat : Room[k] \in Nat /\ Room[k + 1] = 128 * Room[k]
<1> DEFINE Grows(g, n) == g[0] = 1 /\ \A k \in 0 .. n - 1 : g[k + 1] = 128 * g[k]
           S == {n \in Nat : \E g \in [Nat -> Nat] : Grows(g, n)}
<1>1. Nat \subseteq S
  <2>1. 0 \in S
    <3>1. [k \in Nat |-> 1] \in [Nat -> Nat] /\ Grows([k \in Nat |-> 1], 0)
      OBVIOUS
    <3> QED BY <3>1
  <2>2. ASSUME NEW n \in Nat, n \in S PROVE n + 1 \in S
    <3>1. PICK g \in [Nat -> Nat] : Grows(g, n)
      BY <2>2
    <3> DEFINE h == [k \in Nat |-> IF k <= n THEN g[k] ELSE 128 * g[n]]
    <3>2. h \in [Nat -> Nat] /\ Grows(h, n + 1)
      BY <3>1
    <3> HIDE DEF h, Grows
    <3>3. n + 1 \in Nat /\ \E g2 \in [Nat -> Nat] : Grows(g2, n + 1)
      BY <3>2
    <3> QED BY <3>3
  <2> HIDE DEF S
  <2> QED BY <2>1, <2>2, SetInduction
<1>2. PICK pick \in [Nat -> [Nat -> Nat]] : \A n \in Nat : Grows(pick[n], n)
  <2> DEFINE pk == [n \in Nat |-> CHOOSE g \in [Nat -> Nat] : Grows(g, n)]
  <2>1. \A n \in Nat : \E g \in [Nat -> Nat] : Grows(g, n)
    BY <1>1
  <2> HIDE DEF Grows
  <2>2. pk \in [Nat -> [Nat -> Nat]] /\ \A n \in Nat : Grows(pk[n], n)
    BY <2>1
  <2> QED BY <2>2
<1>3. \A n, m \in Nat : n <= m => pick[n][n] = pick[m][n]
  <2> DEFINE T == {n \in Nat : \A m \in Nat : n <= m => pick[n][n] = pick[m][n]}
             same == {n \in Nat : \A j, m \in Nat : n <= j /\ n <= m => pick[j][n] = pick[m][n]}
  <2>1. 0 \in same
    BY <1>2
  <2>2. ASSUME NEW n \in Nat, n \in same PROVE n + 1 \in same
    <3>1. ASSUME NEW j \in Nat, NEW m \in Nat, n + 1 <= j, n + 1 <= m PROVE pick[j][n + 1] = pick[m][n + 1]
      <4>1. pick[j][n] = pick[m][n]
        BY <2>2, <3>1
      <4>2. n \in 0 .. j - 1 /\ n \in 0 .. m - 1
        BY <3>1
      <4>3. pick[j][n + 1] = 128 * pick[j][n] /\ pick[m][n + 1] = 128 * pick[m][n]
        BY <1>2, <4>2
      <4> QED BY <4>1, <4>3
    <3> QED BY <3>1
  <2> HIDE DEF same
  <2>3. Nat \subseteq same
    BY <2>1, <2>2, SetInduction
  <2> QED BY <2>3 DEF same
<1> DEFINE room == [n \in Nat |-> pick[n][n]]
<1>4. /\ room[0] = 1
      /\ \A k \in Nat : room[k] \in Nat /\ room[k + 1] = 128 * room[k]
  <2>1. \A k \in Nat : pick[k + 1][k + 1] = 128 * pick[k + 1][k]
    BY <1>2
  <2>2. \A k \in Nat : pick[k + 1][k] = pick[k][k]
    BY <1>3
  <2>3. pick[0][0] = 1
    BY <1>2
  <2>4. \A k \in Nat : room[k] = pick[k][k] /\ room[k] \in Nat
    OBVIOUS
  <2> HIDE DEF room
  <2>5. \A k \in Nat : k + 1 \in Nat
    OBVIOUS
  <2>6. room[0] = 1
    BY <2>3, <2>4
  <2>7. ASSUME NEW k \in Nat PROVE room[k + 1] = 128 * room[k]
    BY ZenonT(40), <2>1, <2>2, <2>4, <2>5
  <2> QED BY <2>4, <2>6, <2>7
<1>5. room = [k \in Nat |-> IF k = 0 THEN 1 ELSE 128 * room[k - 1]]
  <2>1. \A k \in Nat : room[k] = IF k = 0 THEN 1 ELSE 128 * room[k - 1]
    <3> HIDE DEF room
    <3>1. ASSUME NEW k \in Nat, k # 0 PROVE room[k] = 128 * room[k - 1]
      <4>1. k - 1 \in Nat /\ k = (k - 1) + 1
        BY <3>1
      <4> QED BY <1>4, <4>1
    <3> QED BY <1>4, <3>1
  <2> QED BY <2>1
<1>6. Room = [k \in Nat |-> IF k = 0 THEN 1 ELSE 128 * Room[k - 1]]
  <2> HIDE DEF room
  <2>1. \E f : f = [k \in Nat |-> IF k = 0 THEN 1 ELSE 128 * f[k - 1]]
    BY <1>5
  <2> QED BY <2>1 DEF Room
<1>7. Room[0] = 1 /\ \A k \in Nat : Room[k + 1] = 128 * Room[k]
  <2>1. \A k \in Nat : k + 1 \in Nat /\ k + 1 # 0 /\ (k + 1) - 1 = k
    OBVIOUS
  <2> HIDE DEF room
  <2> QED BY <1>6, <2>1
<1>8. \A k \in Nat : Room[k] \in Nat
  <2> DEFINE N == {k \in Nat : Room[k] \in Nat}
  <2>1. 0 \in N
    BY <1>7
  <2>2. ASSUME NEW k \in Nat, k \in N PROVE k + 1 \in N
    <3>1. Room[k] \in Nat /\ Room[k + 1] = 128 * Room[k] /\ k + 1 \in Nat
      BY <1>7, <2>2
    <3>2. \A x \in Nat : 128 * x \in Nat
      OBVIOUS
    <3>3. Room[k + 1] \in Nat
      BY <3>1, <3>2, Zenon
    <3> QED BY <3>1, <3>3
  <2> HIDE DEF N
  <2>3. Nat \subseteq N
    BY <2>1, <2>2, SetInduction
  <2> QED BY <2>3 DEF N
<1> QED BY <1>7, <1>8

(* More groups have more room, and n + 1 groups enough for n.               *)
LEMMA RoomGrows ==
  /\ \A k \in Nat : k < Room[k]
  /\ \A j, k \in Nat : j <= k => Room[j] <= Room[k]
<1> DEFINE A == {k \in Nat : k < Room[k]}
           B == {k \in Nat : \A j \in Nat : j <= k => Room[j] <= Room[k]}
<1>1. 0 \in A /\ \A k \in Nat : k \in A => k + 1 \in A
  BY RoomIs
<1>2. 0 \in B
  BY RoomIs
<1>3. ASSUME NEW k \in Nat, k \in B PROVE k + 1 \in B
  <2>1. ASSUME NEW j \in Nat, j <= k + 1 PROVE Room[j] <= Room[k + 1]
    <3>1. Room[k] \in Nat /\ Room[k + 1] = 128 * Room[k]
      BY RoomIs
    <3>2. CASE j = k + 1
      BY <3>1, <3>2
    <3>3. CASE j <= k
      <4>1. Room[j] <= Room[k] /\ Room[j] \in Nat
        BY <1>3, <3>3, RoomIs
      <4> QED BY <3>1, <4>1
    <3> QED BY <2>1, <3>2, <3>3
  <2> QED BY <2>1
<1> HIDE DEF A, B
<1>4. Nat \subseteq A /\ Nat \subseteq B
  BY <1>1, <1>2, <1>3, SetInduction
<1> QED BY <1>4 DEF A, B

(* A length is written in the one number of groups that has room for it and *)
(* no group to spare.                                                       *)
GroupsFor(n, k) == k \in Nat /\ k >= 1 /\ n < Room[k] /\ (k > 1 => n >= Room[k - 1])

(* There is only one such number.                                           *)
LEMMA GroupsUnique ==
  ASSUME NEW n \in Nat, NEW j, NEW k, GroupsFor(n, j), GroupsFor(n, k) PROVE j = k
<1>1. ASSUME NEW i \in Nat, NEW l \in Nat, i >= 1, n < Room[i], l > i, n >= Room[l - 1] PROVE FALSE
  <2>1. l - 1 \in Nat /\ i <= l - 1
    BY <1>1
  <2>2. Room[i] <= Room[l - 1] /\ Room[i] \in Nat /\ Room[l - 1] \in Nat
    BY <1>1, <2>1, RoomGrows, RoomIs
  <2> QED BY <1>1, <2>2
<1>2. j \in Nat /\ k \in Nat /\ j >= 1 /\ k >= 1 /\ n < Room[j] /\ n < Room[k]
  BY DEF GroupsFor
<1>3. ~(j < k)
  BY <1>1, <1>2 DEF GroupsFor
<1>4. ~(k < j)
  BY <1>1, <1>2 DEF GroupsFor
<1> QED BY <1>2, <1>3, <1>4

(* Groups is that number: n + 1 groups are enough, and the fewest that are  *)
(* leave no group to spare.                                                 *)
LEMMA GroupsAre == ASSUME NEW n \in Nat PROVE Groups(n) \in Nat /\ GroupsFor(n, Groups(n))
<1> DEFINE T == {k \in Nat : k >= 1 /\ n < Room[k]}
<1>1. n + 1 \in T
  <2>1. n + 1 \in Nat /\ n + 1 < Room[n + 1] /\ Room[n + 1] \in Nat
    BY RoomGrows, RoomIs
  <2> QED BY <2>1
<1>2. PICK k \in T : \A m \in T : k <= m
  <2>1. T \subseteq Nat /\ T # {}
    BY <1>1
  <2> HIDE DEF T
  <2> QED BY <2>1, SmallestOf
<1>3. k \in 1 .. n + 1
  BY <1>1, <1>2
<1>4. k > 1 => n >= Room[k - 1]
  <2>1. SUFFICES ASSUME k > 1, ~(n >= Room[k - 1]) PROVE FALSE
    OBVIOUS
  <2>2. k - 1 \in Nat /\ k - 1 >= 1
    BY <1>2, <2>1
  <2>3. Room[k - 1] \in Nat
    BY <2>2, RoomIs
  <2>4. k - 1 \in T
    BY <2>1, <2>2, <2>3
  <2> QED BY <1>2, <2>4
<1>5. n < Room[k]
  BY <1>2
<1>6. /\ Groups(n) \in 1 .. n + 1
      /\ n < Room[Groups(n)] /\ (Groups(n) > 1 => n >= Room[Groups(n) - 1])
  <2>1. \E i \in 1 .. n + 1 : n < Room[i] /\ (i > 1 => n >= Room[i - 1])
    BY <1>3, <1>4, <1>5
  <2> QED BY <2>1 DEF Groups
<1>7. Groups(n) \in Nat /\ Groups(n) >= 1
  BY <1>6
<1> QED BY <1>6, <1>7 DEF GroupsFor

(* Seven bits less, one group less.                                         *)
LEMMA GroupsDivide ==
  ASSUME NEW n \in Nat
  PROVE  /\ n \div 128 \in Nat
         /\ Groups(n) = IF n < 128 THEN 1 ELSE 1 + Groups(n \div 128)
<1> DEFINE k == Groups(n)
           q == n \div 128
<1>1. q \in Nat /\ 128 * q <= n /\ n < 128 * q + 128
  OBVIOUS
<1>2. k \in Nat /\ GroupsFor(n, k)
  BY GroupsAre
<1>3. Room[0] = 1 /\ Room[1] = 128
  BY RoomIs
<1> HIDE DEF k, q
<1>4. CASE n < 128
  <2>1. GroupsFor(n, 1)
    BY <1>3, <1>4 DEF GroupsFor
  <2>2. k = 1
    BY <1>2, <2>1, GroupsUnique
  <2> QED BY <1>1, <1>4, <2>2 DEF k, q
<1>5. CASE ~(n < 128)
  <2>1. k > 1
    BY <1>2, <1>3, <1>5 DEF GroupsFor
  <2>2. n < Room[k] /\ n >= Room[k - 1] /\ k - 1 \in Nat /\ k - 1 >= 1
    BY <1>2, <2>1 DEF GroupsFor
  <2>3. Room[k] = 128 * Room[k - 1] /\ Room[k - 1] \in Nat
    <3>1. (k - 1) + 1 = k
      BY <1>2
    <3> QED BY <2>2, <3>1, RoomIs
  <2>4. q < Room[k - 1]
    BY <1>1, <2>2, <2>3
  <2>5. k - 1 > 1 => q >= Room[k - 1 - 1]
    <3>1. SUFFICES ASSUME k - 1 > 1 PROVE q >= Room[k - 1 - 1]
      OBVIOUS
    <3>2. k - 1 - 1 \in Nat /\ (k - 1 - 1) + 1 = k - 1
      BY <1>2, <3>1
    <3>3. Room[k - 1] = 128 * Room[k - 1 - 1] /\ Room[k - 1 - 1] \in Nat
      BY <3>2, RoomIs
    <3> QED BY <1>1, <2>2, <3>3
  <2>6. GroupsFor(q, k - 1)
    BY <2>2, <2>4, <2>5 DEF GroupsFor
  <2>7. Groups(q) = k - 1
    BY <1>1, <2>6, GroupsAre, GroupsUnique
  <2> QED BY <1>1, <1>2, <1>5, <2>7 DEF k, q
<1> QED BY <1>4, <1>5

(* The worker's count of varint bytes is the number of groups.              *)
LEMMA VarintIsGroups == \A n \in Nat : varint_len(n) = Groups(n)
<1> DEFINE Rec(f) == f = [n \in Nat |-> IF n < 128 THEN 1 ELSE 1 + f[n \div 128]]
           len == CHOOSE f : Rec(f)
           count == [n \in Nat |-> Groups(n)]
<1>1. Rec(count)
  BY GroupsDivide
<1>2. Rec(len)
  <2>1. \E f : Rec(f)
    BY <1>1
  <2> HIDE DEF Rec
  <2> QED BY <2>1
<1>3. \A n \in Nat : len[n] = Groups(n)
  <2> DEFINE T == {n \in Nat : len[n] # Groups(n)}
  <2> SUFFICES ASSUME T # {} PROVE FALSE
    OBVIOUS
  <2>1. PICK n \in T : \A m \in T : n <= m
    <3>1. T \subseteq Nat
      OBVIOUS
    <3> HIDE DEF T
    <3> QED BY <3>1, SmallestOf
  <2>2. n \in Nat /\ len[n] # Groups(n)
    BY <2>1
  <2> DEFINE q == n \div 128
  <2>3. q \in Nat /\ (n >= 128 => q < n)
    BY <2>2
  <2>4. len[n] = IF n < 128 THEN 1 ELSE 1 + len[q]
    <3> HIDE DEF len
    <3> QED BY <1>2, <2>2
  <2>5. Groups(n) = IF n < 128 THEN 1 ELSE 1 + Groups(q)
    BY <2>2, GroupsDivide
  <2> HIDE DEF q
  <2>6. ~(n < 128) /\ len[q] # Groups(q)
    BY <2>2, <2>4, <2>5
  <2>7. q \in T /\ q < n
    BY <2>2, <2>3, <2>6
  <2> HIDE DEF T
  <2> QED BY <2>1, <2>2, <2>3, <2>7
<1>4. \A n \in Nat : varint_len(n) = len[n]
  BY DEF varint_len
<1> QED BY <1>3, <1>4

(* A longer length takes no fewer groups.                                   *)
LEMMA GroupsGrow == ASSUME NEW m \in Nat, NEW n \in Nat, m <= n PROVE Groups(m) <= Groups(n)
<1> DEFINE j == Groups(m)
           k == Groups(n)
<1>1. j \in Nat /\ GroupsFor(m, j) /\ k \in Nat /\ GroupsFor(n, k)
  BY GroupsAre
<1> HIDE DEF j, k
<1>2. SUFFICES ASSUME j > k PROVE FALSE
  BY <1>1 DEF j, k
<1>3. j - 1 \in Nat /\ k <= j - 1 /\ j > 1
  BY <1>1, <1>2 DEF GroupsFor
<1>4. Room[k] <= Room[j - 1] /\ Room[k] \in Nat /\ Room[j - 1] \in Nat
  BY <1>1, <1>3, RoomGrows, RoomIs
<1> QED BY <1>1, <1>3, <1>4 DEF GroupsFor

(* The worker predicts each field as it is on the wire, and a longer one    *)
(* contains longer ones.                                                    *)
LEMMA FieldIs ==
  /\ \A n \in Nat : Field(n) \in Nat /\ length_delimited_field_len(n) = Field(n)
  /\ \A m, n \in Nat : m <= n => Field(m) <= Field(n)
<1>1. \A n \in Nat : Groups(n) \in Nat
  BY GroupsAre
<1>2. \A n \in Nat : length_delimited_field_len(n) = Field(n) /\ Field(n) \in Nat
  BY <1>1, VarintIsGroups DEF length_delimited_field_len, Field
<1>3. ASSUME NEW m \in Nat, NEW n \in Nat, m <= n PROVE Field(m) <= Field(n)
  <2>1. Groups(m) <= Groups(n) /\ Groups(m) \in Nat /\ Groups(n) \in Nat
    BY <1>1, <1>3, GroupsGrow
  <2> QED BY <1>3, <2>1 DEF Field
<1> QED BY <1>2, <1>3

(* The fold that adds up the numbers w over sets of their indices, taking   *)
(* one index at a time.                                                     *)
Some(s) == CHOOSE i \in s : TRUE
Rest(s) == s \ {Some(s)}
Adds(sum, w) == sum = [s \in SUBSET DOMAIN w |-> IF s = {} THEN 0 ELSE w[Some(s)] + sum[Rest(s)]]

(* The index taken is one of the set, which has one index fewer without it. *)
LEMMA SomeRest ==
  ASSUME NEW s, s # {}, IsFiniteSet(s)
  PROVE  Some(s) \in s /\ IsFiniteSet(Rest(s)) /\ Cardinality(Rest(s)) = Cardinality(s) - 1 /\ Cardinality(s) \in Nat
<1>1. Some(s) \in s
  BY DEF Some
<1> QED BY <1>1, FS_RemoveElement, FS_CardinalityType DEF Rest

(* There is such a fold over every finite set of indices.                   *)
LEMMA AddsExists ==
  ASSUME NEW D, NEW w \in [D -> Nat], IsFiniteSet(D)
  PROVE  \E sum \in [SUBSET D -> Nat] : Adds(sum, w)
<1> DEFINE step(g, s) == IF s = {} THEN 0 ELSE w[Some(s)] + g[Rest(s)]
           upto(g, n) == \A s \in SUBSET D : Cardinality(s) <= n => g[s] = step(g, s)
           S == {n \in Nat : \E g \in [SUBSET D -> Nat] : upto(g, n)}
<1>1. \A s \in SUBSET D : /\ IsFiniteSet(s) /\ Cardinality(s) \in Nat
                          /\ Cardinality(s) = 0 <=> s = {}
                          /\ s # {} => /\ Some(s) \in D /\ w[Some(s)] \in Nat
                                       /\ Rest(s) \in SUBSET D /\ Cardinality(Rest(s)) = Cardinality(s) - 1
  <2> TAKE s \in SUBSET D
  <2>1. IsFiniteSet(s) /\ Cardinality(s) \in Nat /\ (Cardinality(s) = 0 <=> s = {})
    BY FS_Subset, FS_CardinalityType, FS_EmptySet
  <2>2. s # {} => Some(s) \in s /\ Cardinality(Rest(s)) = Cardinality(s) - 1
    BY <2>1, SomeRest
  <2>3. Rest(s) \in SUBSET D
    BY DEF Rest
  <2> QED BY <2>1, <2>2, <2>3
<1>2. 0 \in S
  <2> DEFINE g == [s \in SUBSET D |-> 0]
  <2>1. g \in [SUBSET D -> Nat] /\ upto(g, 0)
    BY <1>1
  <2> HIDE DEF g, upto
  <2> QED BY <2>1
<1>3. ASSUME NEW n \in Nat, n \in S PROVE n + 1 \in S
  <2>1. PICK g \in [SUBSET D -> Nat] : upto(g, n)
    BY <1>3
  <2> DEFINE h == [s \in SUBSET D |-> step(g, s)]
  <2>2. h \in [SUBSET D -> Nat]
    <3>1. \A s \in SUBSET D : step(g, s) \in Nat
      BY <1>1
    <3> QED BY <3>1
  <2>3. ASSUME NEW s \in SUBSET D, Cardinality(s) <= n + 1 PROVE h[s] = step(h, s)
    <3>1. CASE s = {}
      BY <3>1
    <3>2. CASE s # {}
      <4>1. Rest(s) \in SUBSET D /\ Cardinality(Rest(s)) <= n
        BY <1>1, <2>3, <3>2
      <4>2. g[Rest(s)] = step(g, Rest(s)) /\ h[Rest(s)] = step(g, Rest(s))
        BY <2>1, <4>1
      <4>3. h[s] = step(g, s)
        BY <2>3
      <4> HIDE DEF h
      <4> QED BY <3>2, <4>2, <4>3
    <3> QED BY <3>1, <3>2
  <2>4. upto(h, n + 1)
    BY <2>3
  <2> HIDE DEF h, upto
  <2>5. n + 1 \in Nat /\ \E g2 \in [SUBSET D -> Nat] : upto(g2, n + 1)
    BY <2>2, <2>4
  <2> QED BY <2>5
<1>4. Nat \subseteq S
  <2> HIDE DEF S
  <2> QED BY <1>2, <1>3, SetInduction
<1>5. Cardinality(D) \in Nat
  BY FS_CardinalityType
<1>6. PICK g \in [SUBSET D -> Nat] : upto(g, Cardinality(D))
  <2> HIDE DEF upto
  <2> QED BY <1>4, <1>5
<1>7. \A s \in SUBSET D : g[s] = step(g, s)
  <2>1. \A s \in SUBSET D : Cardinality(s) <= Cardinality(D)
    BY FS_Subset
  <2> QED BY <1>6, <2>1
<1>8. g = [s \in SUBSET D |-> step(g, s)]
  <2> HIDE DEF step
  <2> QED BY <1>7
<1> QED BY <1>8 DEF Adds

(* Two such folds agree wherever the numbers do.                            *)
LEMMA AddsAgree ==
  ASSUME NEW v, NEW w, NEW f, NEW g, Adds(f, v), Adds(g, w), IsFiniteSet(DOMAIN v), DOMAIN v \subseteq DOMAIN w,
         \A i \in DOMAIN v : v[i] = w[i]
  PROVE  \A s \in SUBSET DOMAIN v : f[s] = g[s]
<1> DEFINE D == DOMAIN v
           S == {n \in Nat : \A s \in SUBSET D : Cardinality(s) = n => f[s] = g[s]}
<1>1. \A s \in SUBSET D : IsFiniteSet(s) /\ Cardinality(s) \in Nat /\ (Cardinality(s) = 0 <=> s = {})
  BY FS_Subset, FS_CardinalityType, FS_EmptySet
<1>2. \A s \in SUBSET D : /\ f[s] = IF s = {} THEN 0 ELSE v[Some(s)] + f[Rest(s)]
                          /\ g[s] = IF s = {} THEN 0 ELSE w[Some(s)] + g[Rest(s)]
  BY DEF Adds
<1>3. 0 \in S
  BY <1>1, <1>2
<1>4. ASSUME NEW n \in Nat, n \in S PROVE n + 1 \in S
  <2>1. ASSUME NEW s \in SUBSET D, Cardinality(s) = n + 1 PROVE f[s] = g[s]
    <3>1. s # {} /\ IsFiniteSet(s)
      BY <1>1, <2>1
    <3>2. Some(s) \in s /\ Cardinality(Rest(s)) = n /\ Rest(s) \in SUBSET D
      BY <2>1, <3>1, SomeRest DEF Rest
    <3>3. f[Rest(s)] = g[Rest(s)] /\ v[Some(s)] = w[Some(s)]
      BY <1>4, <3>2
    <3> QED BY <1>2, <3>1, <3>3
  <2> QED BY <2>1
<1>5. Nat \subseteq S
  <2> HIDE DEF S
  <2> QED BY <1>3, <1>4, SetInduction
<1> QED BY <1>1, <1>5

AddsNumbers(sum, w) ==
    /\ w \in [DOMAIN w -> Nat] /\ IsFiniteSet(DOMAIN w)
    /\ sum \in [SUBSET DOMAIN w -> Nat] /\ Adds(sum, w)

TakesOut(sum, w, s, i) == sum[s] = w[i] + sum[s \ {i}]

(* Whichever index is taken first.                                          *)
LEMMA AddsAny ==
  ASSUME NEW w, NEW f, AddsNumbers(f, w) PROVE \A s \in SUBSET DOMAIN w : \A i \in s : TakesOut(f, w, s, i)
<1> DEFINE D == DOMAIN w
           S == {n \in Nat : \A s \in SUBSET D : Cardinality(s) = n => \A i \in s : f[s] = w[i] + f[s \ {i}]}
<1>0. w \in [D -> Nat] /\ IsFiniteSet(D) /\ f \in [SUBSET D -> Nat] /\ Adds(f, w)
  BY DEF AddsNumbers
<1>1. \A s \in SUBSET D : IsFiniteSet(s) /\ Cardinality(s) \in Nat /\ (Cardinality(s) = 0 <=> s = {})
  BY <1>0, FS_Subset, FS_CardinalityType, FS_EmptySet
<1>2. \A s \in SUBSET D : s # {} => f[s] = w[Some(s)] + f[Rest(s)]
  BY <1>0 DEF Adds
<1> HIDE DEF D
<1>3. 0 \in S
  BY <1>1
<1>4. ASSUME NEW n \in Nat, n \in S PROVE n + 1 \in S
  <2>1. ASSUME NEW s \in SUBSET D, Cardinality(s) = n + 1, NEW i \in s PROVE f[s] = w[i] + f[s \ {i}]
    <3> DEFINE j == Some(s)
    <3>1. /\ j \in s /\ IsFiniteSet(s)
          /\ Cardinality(s \ {i}) = n /\ Cardinality(s \ {j}) = n
          /\ s \ {i} \in SUBSET D /\ s \ {j} \in SUBSET D
      <4>1. IsFiniteSet(s) /\ j \in s
        BY <1>1, <2>1 DEF Some
      <4>2. \A k \in s : Cardinality(s \ {k}) = n /\ s \ {k} \in SUBSET D
        <5>1. \A k \in s : Cardinality(s \ {k}) = Cardinality(s) - 1
          BY <4>1, FS_RemoveElement
        <5>2. \A k \in s : Cardinality(s \ {k}) = n
          BY <2>1, <5>1
        <5> QED BY <5>2
      <4> QED BY <2>1, <4>1, <4>2
    <3>2. f[s] = w[j] + f[s \ {j}]
      BY <1>2, <2>1 DEF Rest
    <3> HIDE DEF j
    <3>3. CASE i = j
      BY <3>2, <3>3
    <3>4. CASE i # j
      <4>1. f[s \ {j}] = w[i] + f[(s \ {j}) \ {i}]
        BY <1>4, <2>1, <3>1, <3>4
      <4>2. f[s \ {i}] = w[j] + f[(s \ {i}) \ {j}]
        BY <1>4, <2>1, <3>1, <3>4
      <4>3. (s \ {j}) \ {i} = (s \ {i}) \ {j} /\ (s \ {j}) \ {i} \in SUBSET D
        OBVIOUS
      <4>4. w[i] \in Nat /\ w[j] \in Nat /\ f[(s \ {j}) \ {i}] \in Nat
        BY <1>0, <2>1, <3>1, <4>3
      <4> DEFINE c == f[(s \ {j}) \ {i}]
      <4>5. f[s \ {i}] = w[j] + c /\ f[s] = w[j] + (w[i] + c) /\ c \in Nat
        BY <3>2, <4>1, <4>2, <4>3, <4>4
      <4> HIDE DEF c
      <4> QED BY <4>4, <4>5
    <3> QED BY <3>3, <3>4
  <2> QED BY <2>1
<1>5. Nat \subseteq S
  <2> HIDE DEF S
  <2> QED BY <1>3, <1>4, SetInduction
<1> QED BY <1>1, <1>5 DEF D, TakesOut

(* What the numbers of a sequence add up to.                                *)
Total(w) == (CHOOSE sum : Adds(sum, w))[DOMAIN w]

(* Every fold that adds up the numbers of a sequence arrives at its total.  *)
LEMMA TotalIs ==
  ASSUME NEW w \in Seq(Nat)
  PROVE  /\ DOMAIN w = 1 .. Len(w) /\ IsFiniteSet(DOMAIN w) /\ w \in [DOMAIN w -> Nat]
         /\ \E f \in [SUBSET DOMAIN w -> Nat] : Adds(f, w)
         /\ \A f : Adds(f, w) => Total(w) = f[DOMAIN w]
<1>1. DOMAIN w = 1 .. Len(w) /\ IsFiniteSet(1 .. Len(w)) /\ w \in [1 .. Len(w) -> Nat]
  BY FS_Interval
<1>2. \E f \in [SUBSET DOMAIN w -> Nat] : Adds(f, w)
  BY <1>1, AddsExists
<1>3. Adds(CHOOSE sum : Adds(sum, w), w)
  BY <1>2
<1>4. ASSUME NEW f, Adds(f, w) PROVE Total(w) = f[DOMAIN w]
  BY <1>1, <1>3, <1>4, AddsAgree DEF Total
<1> QED BY <1>1, <1>2, <1>4

(* No numbers add up to 0.                                                  *)
LEMMA TotalEmpty == Total(<<>>) = 0
<1>1. <<>> \in Seq(Nat) /\ DOMAIN <<>> = {}
  OBVIOUS
<1>2. PICK f : Adds(f, <<>>) /\ Total(<<>>) = f[{}]
  BY <1>1, TotalIs
<1> QED BY <1>1, <1>2 DEF Adds

(* One number more adds itself to the total.                                *)
LEMMA TotalAppend ==
  ASSUME NEW w \in Seq(Nat), NEW x \in Nat
  PROVE  Append(w, x) \in Seq(Nat) /\ Total(w) \in Nat /\ Total(Append(w, x)) = Total(w) + x
<1> DEFINE v == Append(w, x)
           n == Len(w)
<1>1. /\ v \in Seq(Nat) /\ n \in Nat /\ DOMAIN w = 1 .. n /\ DOMAIN v = 1 .. n + 1
      /\ v[n + 1] = x /\ \A i \in DOMAIN w : w[i] = v[i]
  OBVIOUS
<1> HIDE DEF v, n
<1>2. PICK f \in [SUBSET DOMAIN w -> Nat] : Adds(f, w) /\ Total(w) = f[DOMAIN w]
  BY TotalIs
<1>3. PICK g \in [SUBSET DOMAIN v -> Nat] : Adds(g, v) /\ Total(v) = g[DOMAIN v]
  BY <1>1, TotalIs
<1>4. DOMAIN w \subseteq DOMAIN v /\ n + 1 \in DOMAIN v /\ DOMAIN v \ {n + 1} = DOMAIN w
  BY <1>1
<1>5. IsFiniteSet(DOMAIN w) /\ IsFiniteSet(DOMAIN v) /\ v \in [DOMAIN v -> Nat]
  BY <1>1, TotalIs
<1>6. g[DOMAIN w] = f[DOMAIN w]
  <2>1. /\ Adds(f, w) /\ Adds(g, v) /\ IsFiniteSet(DOMAIN w) /\ DOMAIN w \subseteq DOMAIN v
        /\ \A i \in DOMAIN w : w[i] = v[i]
    BY <1>1, <1>2, <1>3, <1>4, <1>5
  <2>2. \A s \in SUBSET DOMAIN w : f[s] = g[s]
    BY <2>1, AddsAgree
  <2> QED BY <2>2
<1>7. g[DOMAIN v] = v[n + 1] + g[DOMAIN v \ {n + 1}]
  <2>1. AddsNumbers(g, v)
    BY <1>3, <1>5 DEF AddsNumbers
  <2> DEFINE last == n + 1
  <2>2. DOMAIN v \in SUBSET DOMAIN v /\ last \in DOMAIN v
    BY <1>4
  <2> HIDE DEF last
  <2>3. TakesOut(g, v, DOMAIN v, last)
    BY <2>1, <2>2, AddsAny
  <2> QED BY <2>3 DEF last, TakesOut
<1>8. Total(w) \in Nat
  BY <1>2
<1>9. Total(v) = Total(w) + x
  <2>1. Total(v) = g[DOMAIN v] /\ g[DOMAIN v] = x + g[DOMAIN w] /\ g[DOMAIN w] = Total(w)
    BY <1>1, <1>2, <1>3, <1>4, <1>6, <1>7
  <2>2. Total(v) = x + Total(w)
    BY <2>1
  <2> QED BY <1>8, <2>2
<1> QED BY <1>1, <1>8, <1>9 DEF v

(* Two sequences together add up to the sum of their totals.                *)
LEMMA TotalConcat ==
  ASSUME NEW a \in Seq(Nat), NEW b \in Seq(Nat)
  PROVE  Total(a) \in Nat /\ Total(b) \in Nat /\ Total(a \o b) = Total(a) + Total(b)
<1> DEFINE S == {s \in Seq(Nat) : Total(a \o s) = Total(a) + Total(s)}
<1>1. \A s \in Seq(Nat) : Total(s) \in Nat
  BY TotalAppend
<1>2. <<>> \in S
  BY <1>1, TotalEmpty
<1>3. ASSUME NEW s \in Seq(Nat), NEW x \in Nat, s \in S PROVE Append(s, x) \in S
  <2>1. a \o Append(s, x) = Append(a \o s, x) /\ a \o s \in Seq(Nat) /\ Append(s, x) \in Seq(Nat)
    OBVIOUS
  <2>2. Total(a \o Append(s, x)) = Total(a \o s) + x
    BY <2>1, TotalAppend
  <2>3. Total(Append(s, x)) = Total(s) + x
    BY TotalAppend
  <2>4. Total(a \o s) = Total(a) + Total(s)
    BY <1>3
  <2>5. Total(a \o Append(s, x)) = Total(a) + Total(Append(s, x))
    BY <1>1, <2>2, <2>3, <2>4
  <2> QED BY <2>1, <2>5
<1> HIDE DEF S
<1>4. Seq(Nat) \subseteq S
  BY <1>2, <1>3, SequenceInduction
<1> QED BY <1>1, <1>4 DEF S

(* The worker's length of one record's field is its length on the wire.     *)
LEMMA WeightField ==
  ASSUME NEW r \in Log
  PROVE  /\ Weight[r] \in Nat /\ Field(Weight[r]) \in Nat
         /\ length_delimited_field_len(Weight[r]) = Field(Weight[r])
<1>1. Weight[r] \in Nat
  BY ExporterAssumption
<1> QED BY <1>1, FieldIs

(* The lengths of the fields of the records of a group.                     *)
FieldsOf(records) == [i \in 1 .. Len(records) |-> Field(Weight[records[i]])]

(* There is one length for each record.                                     *)
LEMMA FieldsTyped ==
  ASSUME NEW s \in Seq(Log)
  PROVE  FieldsOf(s) \in Seq(Nat) /\ DOMAIN FieldsOf(s) = DOMAIN s /\ Len(FieldsOf(s)) = Len(s)
<1>1. \A i \in 1 .. Len(s) : Field(Weight[s[i]]) \in Nat
  <2>1. \A i \in 1 .. Len(s) : s[i] \in Log
    OBVIOUS
  <2> QED BY <2>1, WeightField
<1> QED BY <1>1 DEF FieldsOf

(* Both folds, the worker's over records and the wire's over lengths, add   *)
(* up the same fields.                                                      *)
LEMMA RecordsLenIs == ASSUME NEW s \in Seq(Log) PROVE RecordsLen(s) = Total(FieldsOf(s)) /\ Total(FieldsOf(s)) \in Nat
<1> DEFINE D == DOMAIN s
           w == FieldsOf(s)
           P(it) == it = [t \in SUBSET D |-> IF t = {} THEN 0 ELSE LET x == CHOOSE x \in t : TRUE
                                                IN  length_delimited_field_len(Weight[s[x]]) + it[t \ {x}]]
<1>1. RecordsLen(s) = (CHOOSE it : P(it))[D]
  BY DEF RecordsLen, FoldSeq, FoldFunction, FoldFunctionOnSet, MapThenFoldSet
<1>2. \A x \in D : length_delimited_field_len(Weight[s[x]]) = w[x]
  <2>1. \A x \in D : s[x] \in Log /\ w[x] = Field(Weight[s[x]])
    BY DEF FieldsOf
  <2> HIDE DEF w, D
  <2> QED BY <2>1, WeightField
<1>3. w \in Seq(Nat) /\ DOMAIN w = D
  BY FieldsTyped
<1> HIDE DEF w, D
<1>4. ASSUME NEW it PROVE P(it) <=> Adds(it, w)
  <2> DEFINE left(t) == IF t = {} THEN 0 ELSE LET x == CHOOSE x \in t : TRUE
                                                IN  length_delimited_field_len(Weight[s[x]]) + it[t \ {x}]
             right(t) == IF t = {} THEN 0 ELSE w[Some(t)] + it[Rest(t)]
  <2>1. \A t \in SUBSET D : left(t) = right(t)
    BY <1>2 DEF Some, Rest
  <2>2. P(it) <=> it = [t \in SUBSET D |-> left(t)]
    OBVIOUS
  <2>3. Adds(it, w) <=> it = [t \in SUBSET D |-> right(t)]
    BY <1>3 DEF Adds
  <2> HIDE DEF left, right
  <2>4. [t \in SUBSET D |-> left(t)] = [t \in SUBSET D |-> right(t)]
    BY <2>1
  <2> HIDE DEF P
  <2> QED BY <2>2, <2>3, <2>4
<1> HIDE DEF P
<1>5. Adds(CHOOSE it : P(it), w)
  <2>1. \E it : P(it)
    BY <1>3, <1>4, TotalIs
  <2>2. P(CHOOSE it : P(it))
    BY <2>1
  <2> QED BY <2>2, <1>4
<1>6. RecordsLen(s) = Total(w)
  BY <1>1, <1>3, <1>5, TotalIs
<1> QED BY <1>3, <1>6, TotalAppend DEF w

(* A request on the wire is its resource, its scope and the same total.     *)
LEMMA WireTotal ==
  ASSUME NEW s \in Seq(Log)
  PROVE  RequestLen([j \in DOMAIN s |-> Weight[s[j]]]) =
           Field(Field(ResourceLen) + Field(Field(ScopeLen) + Total(FieldsOf(s))))
<1> DEFINE D == DOMAIN s
           w == FieldsOf(s)
           lengths == [j \in D |-> Weight[s[j]]]
           P(it) == it = [t \in SUBSET D |-> IF t = {} THEN 0 ELSE LET x == CHOOSE x \in t : TRUE
                                                IN  Field(lengths[x]) + it[t \ {x}]]
<1>1. FoldSeq(LAMBDA len, n : Field(len) + n, 0, lengths) = (CHOOSE it : P(it))[D]
  <2>1. DOMAIN lengths = D
    OBVIOUS
  <2> HIDE DEF lengths
  <2> QED BY <2>1 DEF FoldSeq, FoldFunction, FoldFunctionOnSet, MapThenFoldSet
<1>2. \A x \in D : Field(lengths[x]) = w[x]
  BY DEF FieldsOf
<1>3. w \in Seq(Nat) /\ DOMAIN w = D
  BY FieldsTyped
<1> HIDE DEF w, D, lengths
<1>4. ASSUME NEW it PROVE P(it) <=> Adds(it, w)
  <2> DEFINE left(t) == IF t = {} THEN 0 ELSE LET x == CHOOSE x \in t : TRUE
                                                IN  Field(lengths[x]) + it[t \ {x}]
             right(t) == IF t = {} THEN 0 ELSE w[Some(t)] + it[Rest(t)]
  <2>1. \A t \in SUBSET D : left(t) = right(t)
    BY <1>2 DEF Some, Rest
  <2>2. P(it) <=> it = [t \in SUBSET D |-> left(t)]
    OBVIOUS
  <2>3. Adds(it, w) <=> it = [t \in SUBSET D |-> right(t)]
    BY <1>3 DEF Adds
  <2> HIDE DEF left, right
  <2>4. [t \in SUBSET D |-> left(t)] = [t \in SUBSET D |-> right(t)]
    BY <2>1
  <2> HIDE DEF P
  <2> QED BY <2>2, <2>3, <2>4
<1> HIDE DEF P
<1>5. Adds(CHOOSE it : P(it), w)
  <2>1. \E it : P(it)
    BY <1>3, <1>4, TotalIs
  <2>2. P(CHOOSE it : P(it))
    BY <2>1
  <2> QED BY <2>2, <1>4
<1>6. FoldSeq(LAMBDA len, n : Field(len) + n, 0, lengths) = Total(w)
  BY <1>1, <1>3, <1>5, TotalIs
<1> QED BY <1>6 DEF RequestLen, w, lengths, D

(* What the sizer predicts is the length on the wire, and grows with the    *)
(* records.                                                                 *)
LEMMA SizerExact ==
  /\ \A s \in Seq(Log) : RequestLen([j \in DOMAIN s |-> Weight[s[j]]]) = encoded_len(RecordsLen(s))
  /\ \A m, n \in Nat : m <= n => encoded_len(m) <= encoded_len(n)
  /\ \A n \in Nat : encoded_len(n) \in Nat
<1> DEFINE wire(n) == Field(Field(ResourceLen) + Field(Field(ScopeLen) + n))
<1>1. Field(ResourceLen) \in Nat /\ Field(ScopeLen) \in Nat
      /\ length_delimited_field_len(ResourceLen) = Field(ResourceLen)
      /\ length_delimited_field_len(ScopeLen) = Field(ScopeLen)
  BY FieldIs, RequestSizeAssumption
<1>2. ASSUME NEW n \in Nat PROVE encoded_len(n) = wire(n) /\ wire(n) \in Nat
  <2>1. Field(ScopeLen) + n \in Nat
    BY <1>1
  <2>2. Field(Field(ScopeLen) + n) \in Nat /\ length_delimited_field_len(Field(ScopeLen) + n) = Field(Field(ScopeLen) + n)
    BY <2>1, FieldIs
  <2>3. Field(ResourceLen) + Field(Field(ScopeLen) + n) \in Nat
    BY <1>1, <2>2
  <2>4. wire(n) \in Nat /\ length_delimited_field_len(Field(ResourceLen) + Field(Field(ScopeLen) + n)) = wire(n)
    BY <2>3, FieldIs
  <2> QED BY <1>1, <2>2, <2>4 DEF encoded_len
<1>3. ASSUME NEW m \in Nat, NEW n \in Nat, m <= n PROVE wire(m) <= wire(n)
  <2>1. Field(ScopeLen) + m \in Nat /\ Field(ScopeLen) + n \in Nat /\ Field(ScopeLen) + m <= Field(ScopeLen) + n
    BY <1>1, <1>3
  <2>2. /\ Field(Field(ScopeLen) + m) \in Nat /\ Field(Field(ScopeLen) + n) \in Nat
        /\ Field(Field(ScopeLen) + m) <= Field(Field(ScopeLen) + n)
    BY <2>1, FieldIs
  <2>3. /\ Field(ResourceLen) + Field(Field(ScopeLen) + m) \in Nat /\ Field(ResourceLen) + Field(Field(ScopeLen) + n) \in Nat
        /\ Field(ResourceLen) + Field(Field(ScopeLen) + m) <= Field(ResourceLen) + Field(Field(ScopeLen) + n)
    BY <1>1, <2>2
  <2> QED BY <2>3, FieldIs
<1>4. ASSUME NEW s \in Seq(Log) PROVE RequestLen([j \in DOMAIN s |-> Weight[s[j]]]) = encoded_len(RecordsLen(s))
  <2>1. RecordsLen(s) = Total(FieldsOf(s)) /\ Total(FieldsOf(s)) \in Nat
    BY RecordsLenIs
  <2> QED BY <1>2, <2>1, WireTotal
<1> HIDE DEF wire
<1> QED BY <1>2, <1>3, <1>4

(* A group that fits splits into groups that fit.                           *)
LEMMA HalvesFit ==
  ASSUME NEW s \in Seq(Log), Fits(RecordsLen(s)), Len(s) > 1
  PROVE  \E a, b \in Seq(Log) : Split(s) = <<a, b>> /\ Fits(RecordsLen(a)) /\ Fits(RecordsLen(b))
<1> DEFINE h == Len(s) \div 2
           a == SubSeq(s, 1, h)
           b == SubSeq(s, h + 1, Len(s))
<1>1. h \in Nat /\ h <= Len(s) /\ Len(s) \in Nat
  OBVIOUS
<1>2. Split(s) = <<a, b>>
  BY DEF Split
<1> HIDE DEF h
<1>3. a \in Seq(Log) /\ b \in Seq(Log) /\ s = a \o b
  <2>1. a \in Seq(Log) /\ Len(a) = h /\ \A i \in 1 .. h : a[i] = s[i]
    BY <1>1
  <2>2. b \in Seq(Log) /\ Len(b) = Len(s) - h /\ \A i \in 1 .. Len(s) - h : b[i] = s[h + i]
    BY <1>1
  <2> HIDE DEF a, b
  <2>3. a \o b \in Seq(Log) /\ Len(a \o b) = Len(s)
    BY <1>1, <2>1, <2>2
  <2>4. ASSUME NEW i \in 1 .. Len(s) PROVE (a \o b)[i] = s[i]
    <3>1. CASE i <= h
      BY <1>1, <2>1, <2>2, <3>1
    <3>2. CASE ~(i <= h)
      <4>1. i - h \in 1 .. Len(s) - h /\ h + (i - h) = i
        BY <1>1, <3>2
      <4>2. (a \o b)[i] = b[i - h]
        BY <1>1, <2>1, <2>2, <3>2
      <4> QED BY <2>2, <4>1, <4>2
    <3> QED BY <3>1, <3>2
  <2>5. \A u, v \in Seq(Log) : Len(u) = Len(v) /\ (\A i \in 1 .. Len(u) : u[i] = v[i]) => u = v
    OBVIOUS
  <2>6. a \o b = s
    BY <2>3, <2>4, <2>5
  <2> QED BY <2>1, <2>2, <2>6
<1> HIDE DEF a, b
<1>4. FieldsOf(s) = FieldsOf(a) \o FieldsOf(b)
  <2>1. FieldsOf(a) \in Seq(Nat) /\ FieldsOf(b) \in Seq(Nat) /\ Len(FieldsOf(a)) = Len(a) /\ Len(FieldsOf(b)) = Len(b)
    BY <1>3, FieldsTyped
  <2> QED BY <1>3, <2>1 DEF FieldsOf
<1>5. /\ RecordsLen(s) = RecordsLen(a) + RecordsLen(b)
      /\ RecordsLen(a) \in Nat /\ RecordsLen(b) \in Nat /\ RecordsLen(s) \in Nat
  <2>1. FieldsOf(a) \in Seq(Nat) /\ FieldsOf(b) \in Seq(Nat)
    BY <1>3, FieldsTyped
  <2> QED BY <1>3, <1>4, <2>1, RecordsLenIs, TotalConcat
<1>6. RecordsLen(a) <= RecordsLen(s) /\ RecordsLen(b) <= RecordsLen(s)
  BY <1>5
<1>7. /\ encoded_len(RecordsLen(a)) <= encoded_len(RecordsLen(s)) /\ encoded_len(RecordsLen(b)) <= encoded_len(RecordsLen(s))
      /\ encoded_len(RecordsLen(a)) \in Nat /\ encoded_len(RecordsLen(b)) \in Nat /\ encoded_len(RecordsLen(s)) \in Nat
  BY <1>5, <1>6, SizerExact
<1>8. MaxBatchBytes \in Nat
  BY ExporterAssumption
<1>9. Fits(RecordsLen(a)) /\ Fits(RecordsLen(b))
  BY <1>7, <1>8 DEF Fits
<1> QED BY <1>2, <1>3, <1>9

(* A record alone in a group is as long as reject_oversize was asked about. *)
LEMMA RecordAlone == ASSUME NEW r \in Log PROVE RecordsLen(<<r>>) = length_delimited_field_len(Weight[r])
<1> DEFINE f == Field(Weight[r])
<1>1. f \in Nat /\ length_delimited_field_len(Weight[r]) = f
  BY WeightField
<1>2. FieldsOf(<<r>>) = Append(<<>>, f)
  BY DEF FieldsOf
<1> HIDE DEF f
<1>3. Total(Append(<<>>, f)) = Total(<<>>) + f
  <2>1. <<>> \in Seq(Nat)
    OBVIOUS
  <2> QED BY <1>1, <2>1, TotalAppend
<1>4. <<r>> \in Seq(Log)
  OBVIOUS
<1>5. RecordsLen(<<r>>) = 0 + f
  BY <1>2, <1>3, <1>4, RecordsLenIs, TotalEmpty
<1> QED BY <1>1, <1>5

(* What the worker builds and sends fits, group by group, from the first    *)
(* record of a batch to the last request.                                   *)
FitInv ==
    wpc \in {"fill", "gather", "batched", "send", "backoff"} =>
        \A i \in DOMAIN stack : Fits(RecordsLen(stack[i]))

(* The first record of a batch fits, or the batch is not begun: it is set   *)
(* aside as oversize.                                                       *)
LEMMA StartFits ==
  ASSUME NEW r, NEW rest, StartBatch(r, rest), stack' \in Seq(Seq(Log)), stack = <<>> PROVE FitInv'
<1>1. CASE Oversize(r)
  BY <1>1 DEF StartBatch, FitInv
<1>2. CASE ~Oversize(r)
  <2>1. stack' = << <<r>> >>
    BY <1>2 DEF StartBatch
  <2>2. stack'[1] \in Seq(Log) /\ stack'[1][1] \in Log
    <3>1. Len(stack') = 1 /\ Len(stack'[1]) = 1 /\ stack'[1] = <<r>>
      BY <2>1
    <3>2. stack'[1] \in Seq(Log)
      BY <3>1
    <3> QED BY <3>1, <3>2
  <2>3. r \in Log
    BY <2>1, <2>2
  <2>4. Fits(RecordsLen(<<r>>))
    BY <1>2, <2>3, RecordAlone DEF Oversize
  <2>5. \A i \in DOMAIN stack' : Fits(RecordsLen(stack'[i]))
    BY <2>1, <2>4
  <2> QED BY <2>5 DEF FitInv
<1> QED BY <1>1, <1>2

(* A record joins a batch that fits with it.                                *)
LEMMA AddFits ==
  ASSUME FitInv, wpc \in {"fill", "gather"}, NEW r, NEW rest, AddToBatch(r, rest) PROVE FitInv'
<1>1. CASE stack' = stack
  <2>1. \A i \in DOMAIN stack' : Fits(RecordsLen(stack'[i]))
    BY <1>1 DEF FitInv
  <2> QED BY <2>1 DEF FitInv
<1>2. CASE stack' # stack
  <2> DEFINE batch == Append(Head(stack), r)
  <2>1. stack' = << batch >> /\ Fits(RecordsLen(batch))
    BY <1>2 DEF AddToBatch
  <2> HIDE DEF batch
  <2>2. \A i \in DOMAIN stack' : Fits(RecordsLen(stack'[i]))
    BY <2>1
  <2> QED BY <2>2 DEF FitInv
<1> QED BY <1>1, <1>2

(* Every step of the worker keeps its groups within the limit.              *)
LEMMA WorkFits == ASSUME IInv, FitInv, Work PROVE FitInv'
<1>1. TypeOK /\ TypeOK' /\ WorkerInv /\ stack \in Seq(Seq(Log)) /\ stack' \in Seq(Seq(Log))
  BY WorkTypes DEF IInv, TypeOK
<1>2. CASE Top
  <2>1. stack = <<>>
    BY <1>1, <1>2 DEF Top, WorkerInv, Filling, Exporting, Ended
  <2>2. \/ \E r, rest : StartBatch(r, rest)
        \/ wpc' \in {"panicked", "drained", "receive"}
    BY <1>2 DEF Top, MappingPanics
  <2>3. wpc' \in {"panicked", "drained", "receive"} => FitInv'
    BY DEF FitInv
  <2> QED BY <1>1, <2>1, <2>2, <2>3, StartFits
<1>3. CASE Fill \/ GatherReceives
  <2>1. wpc \in {"fill", "gather"}
    BY <1>3 DEF Fill, GatherReceives
  <2>2. \/ \E r, rest : AddToBatch(r, rest)
        \/ wpc' = "panicked"
        \/ stack' = stack
    BY <1>3 DEF Fill, GatherReceives, MappingPanics
  <2>3. wpc' = "panicked" => FitInv'
    BY DEF FitInv
  <2>4. stack' = stack => FitInv'
    BY <2>1 DEF FitInv
  <2> QED BY <2>1, <2>2, <2>3, <2>4, AddFits
<1>4. CASE GatherEnds \/ StartExport \/ SendRetryable \/ BackoffEnds
  <2>1. stack' = stack /\ wpc \in {"gather", "batched", "send", "backoff"}
    BY <1>4 DEF GatherEnds, StartExport, SendRetryable, BackoffEnds
  <2> QED BY <2>1 DEF FitInv
<1>5. CASE SendAccepted \/ SendInvalid
  <2>1. wpc = "send" /\ stack # <<>>
    BY <1>1, <1>5 DEF SendAccepted, SendInvalid, WorkerInv, Exporting
  <2>2. /\ DOMAIN stack = 1 .. Len(stack) /\ Len(stack) \in Nat /\ Head(stack) = stack[1] /\ 1 \in DOMAIN stack
        /\ Head(stack) \in Seq(Log) /\ Tail(stack) \in Seq(Seq(Log)) /\ Len(Tail(stack)) = Len(stack) - 1
        /\ \A i \in DOMAIN Tail(stack) : Tail(stack)[i] = stack[i + 1] /\ i + 1 \in DOMAIN stack
    BY <1>1, <2>1
  <2>3. Fits(RecordsLen(Head(stack))) /\ \A i \in DOMAIN Tail(stack) : Fits(RecordsLen(Tail(stack)[i]))
    BY <2>1, <2>2 DEF FitInv
  <2>4. CASE stack' = Tail(stack)
    BY <2>3, <2>4 DEF FitInv
  <2>5. CASE stack' = Split(Head(stack)) \o Tail(stack) /\ Len(Head(stack)) > 1
    <3>1. PICK a, b \in Seq(Log) : Split(Head(stack)) = <<a, b>> /\ Fits(RecordsLen(a)) /\ Fits(RecordsLen(b))
      BY <2>2, <2>3, <2>5, HalvesFit
    <3> DEFINE t == Tail(stack)
    <3>2. t \in Seq(Seq(Log)) /\ stack' = <<a, b>> \o t
      BY <2>2, <2>5, <3>1
    <3>3. \A i \in DOMAIN t : Fits(RecordsLen(t[i]))
      BY <2>3
    <3> HIDE DEF t
    <3>4. \A i \in DOMAIN stack' : stack'[i] = a \/ stack'[i] = b \/ \E j \in DOMAIN t : stack'[i] = t[j]
      <4>1. <<a, b>> \in Seq(Seq(Log)) /\ Len(<<a, b>>) = 2 /\ <<a, b>>[1] = a /\ <<a, b>>[2] = b
        OBVIOUS
      <4> DEFINE ab == <<a, b>>
      <4>2. ab \in Seq(Seq(Log)) /\ Len(ab) = 2 /\ ab[1] = a /\ ab[2] = b /\ stack' = ab \o t
        BY <3>2, <4>1
      <4> HIDE DEF ab
      <4>3. /\ DOMAIN stack' = 1 .. 2 + Len(t) /\ Len(t) \in Nat /\ DOMAIN t = 1 .. Len(t)
            /\ \A k \in 1 .. 2 : stack'[k] = ab[k]
            /\ \A k \in 3 .. 2 + Len(t) : stack'[k] = t[k - 2]
        BY <3>2, <4>2
      <4>4. ASSUME NEW i \in DOMAIN stack' PROVE stack'[i] = a \/ stack'[i] = b \/ \E j \in DOMAIN t : stack'[i] = t[j]
        <5>1. i = 1 \/ i = 2 \/ i \in 3 .. 2 + Len(t)
          BY <4>3
        <5>2. CASE i \in 3 .. 2 + Len(t)
          <6>1. i - 2 \in DOMAIN t /\ stack'[i] = t[i - 2]
            BY <4>3, <5>2
          <6> QED BY <6>1
        <5> QED BY <4>2, <4>3, <5>1, <5>2
      <4> QED BY <4>4
    <3>5. \A i \in DOMAIN stack' : Fits(RecordsLen(stack'[i]))
      BY <3>1, <3>3, <3>4
    <3> QED BY <3>5 DEF FitInv
  <2> QED BY <1>5, <2>4, <2>5 DEF SendAccepted, SendInvalid, NextGroup
<1>6. CASE AwaitReceive \/ SendTerminal \/ BatchExported \/ DrainCompletes \/ AwaitRecords \/ TerminalParks
           \/ AwaitShutdown \/ AwaitFence \/ TerminalStops
  <2>1. wpc' \notin {"fill", "gather", "batched", "send", "backoff"}
    BY <1>6 DEF AwaitReceive, SendTerminal, BatchExported, DrainCompletes, AwaitRecords, AwaitNotified, TerminalParks,
         AwaitShutdown, AwaitFence, TerminalStops
  <2> QED BY <2>1 DEF FitInv
<1> QED BY <1>2, <1>3, <1>4, <1>5, <1>6 DEF Work

(* No request the worker sends is longer than max_batch_bytes, whatever the *)
(* weights of the records are: the sizer counts every varint as it is       *)
(* written, and half a group is no longer than the group.                   *)
THEOREM RequestsFit == Spec => []BatchesFit
<1>1. Init => FitInv
  BY DEF Init, FitInv
<1>2. ASSUME IInv, FitInv, [Next]_vars PROVE FitInv'
  <2>1. CASE Work
    BY <1>2, <2>1, WorkFits
  <2>2. CASE Producing
    <3>1. UNCHANGED <<wpc, stack>>
      BY <2>2, ProducingFrame DEF ProducerFrame, workerVars
    <3> QED BY <1>2, <3>1 DEF FitInv
  <2>3. CASE Flushing
    <3>1. UNCHANGED <<wpc, stack>>
      BY <1>2, <2>3, FlushPipeline DEF FlushUnchanged, workerVars
    <3> QED BY <1>2, <3>1 DEF FitInv
  <2>4. CASE Handling
    <3>1. UNCHANGED <<wpc, stack>> \/ wpc' = "aborted"
      BY <2>4 DEF Handling, Handle, Close, StopAccepting, MarkShuttingDown, ReleaseSink, Joins, DropAborts, DrainFails,
         ShutdownDropsHandle, JoinTimesOut, WorkerAborts, HandleUnchanged, workerVars
    <3> QED BY <1>2, <3>1 DEF FitInv
  <2>5. CASE UNCHANGED vars
    BY <1>2, <2>5 DEF FitInv, vars, workerVars
  <2> QED BY <1>2, <2>1, <2>2, <2>3, <2>4, <2>5 DEF Next, Producing, Flushing, Handling
<1>3. IInv /\ FitInv => BatchesFit
  <2> SUFFICES ASSUME IInv, FitInv, wpc \in {"batched", "send", "backoff"}, NEW i \in DOMAIN stack
               PROVE  RequestLen([j \in DOMAIN stack[i] |-> Weight[stack[i][j]]]) <= MaxBatchBytes
    BY DEF BatchesFit
  <2>1. stack[i] \in Seq(Log)
    BY DEF IInv, TypeOK
  <2>2. encoded_len(RecordsLen(stack[i])) <= MaxBatchBytes
    BY DEF FitInv, Fits
  <2> QED BY <2>1, <2>2, SizerExact
<1> QED BY <1>1, <1>2, <1>3, InductiveInvariant, PTL DEF Spec

-----------------------------------------------------------------------------
(* What force_flush answers.  A step of Delivery in the terms of a          *)
(* generation.                                                              *)
AbstractStep ==
    \/ /\ \/ \E r \in Log : /\ Fates[r] = "none" /\ Fates' = [Fates EXCEPT ![r] = "accepted"]
                            /\ Order' = Append(Order, r)
          \/ \E r \in Log : /\ Fates[r] = "none" /\ Fates' = [Fates EXCEPT ![r] = "refused"]
                            /\ Order' = Order
          \/ \E S \in SUBSET Log : /\ Fates' = [r \in Log |-> IF r \in S THEN "settled" ELSE Fates[r]]
                                   /\ Order' = Order
       /\ Replies' = Replies /\ target' = target
    \/ /\ Order' = Order /\ Fates' = Fates
       /\ \E f \in Flusher :
             \/ /\ Replies' = [Replies EXCEPT ![f] = "waiting"]
                /\ target' = [target EXCEPT ![f] = Len(Order)]
             \/ /\ \E answer \in {"Flushed", "TimedOut", "TerminalFailure", "Stopped"} :
                      /\ Replies' = [Replies EXCEPT ![f] = answer]
                      /\ answer = "Flushed" => target[f] <= completed_ticket
                /\ target' = target
    \/ Order' = Order /\ Fates' = Fates /\ Replies' = Replies /\ target' = target

(* A step or a stutter of Delivery is such a step.                          *)
LEMMA AbstractSteps == ASSUME Promise!Next \/ UNCHANGED Abstract PROVE AbstractStep
<1>1. ASSUME NEW r \in Log, Promise!Accept(r) PROVE AbstractStep
  <2>1. /\ Fates[r] = "none" /\ Fates' = [Fates EXCEPT ![r] = "accepted"]
        /\ Order' = Append(Order, r) /\ Replies' = Replies /\ target' = target
    BY <1>1 DEF Promise!Accept, Order, OrderOf, Fates, Replies
  <2> QED BY <2>1 DEF AbstractStep
<1>2. ASSUME NEW r \in Log, Promise!Refuse(r) PROVE AbstractStep
  <2>1. /\ Fates[r] = "none" /\ Fates' = [Fates EXCEPT ![r] = "refused"]
        /\ Order' = Order /\ Replies' = Replies /\ target' = target
    BY <1>2 DEF Promise!Refuse, Order, OrderOf, Fates, Replies
  <2> QED BY <2>1 DEF AbstractStep
<1>3. ASSUME NEW S \in SUBSET Log, Promise!Settle(S) PROVE AbstractStep
  <2>1. /\ Fates' = [r \in Log |-> IF r \in S THEN "settled" ELSE Fates[r]]
        /\ Order' = Order /\ Replies' = Replies /\ target' = target
    BY <1>3 DEF Promise!Settle, Order, OrderOf, Fates, Replies
  <2> QED BY <2>1 DEF AbstractStep
<1>4. ASSUME NEW f \in Flusher, Promise!Call(f) PROVE AbstractStep
  <2>1. /\ Order' = Order /\ Fates' = Fates /\ Replies' = [Replies EXCEPT ![f] = "waiting"]
        /\ target' = [target EXCEPT ![f] = Len(Order)]
    BY <1>4 DEF Promise!Call, Order, OrderOf, Fates, Replies
  <2> QED BY <2>1 DEF AbstractStep
<1>5. ASSUME NEW f \in Flusher, NEW answer \in Promise!Answer, Promise!Return(f, answer)
      PROVE  AbstractStep
  <2>1. /\ Order' = Order /\ Fates' = Fates /\ Replies' = [Replies EXCEPT ![f] = answer]
        /\ (answer = "Flushed" => target[f] <= completed_ticket) /\ target' = target
    BY <1>5 DEF Promise!Return, Order, OrderOf, Fates, Replies
  <2>2. answer \in {"Flushed", "TimedOut", "TerminalFailure", "Stopped"}
    BY DEF Promise!Answer
  <2> QED BY <2>1, <2>2 DEF AbstractStep
<1>6. CASE UNCHANGED Abstract
  BY <1>6 DEF Abstract, AbstractStep
<1> QED BY <1>1, <1>2, <1>3, <1>4, <1>5, <1>6 DEF Promise!Next

(* Whoever was answered Flushed has everything before its call settled.     *)
AnswersExact ==
    \A f \in Flusher :
        /\ target[f] \in 0 .. next_ticket
        /\ Replies[f] = "Flushed" => \A i \in 1 .. target[f] : Fates[Order[i]] = "settled"

(* The watermark covers settled records only.                               *)
LEMMA WatermarkSettled ==
  ASSUME IInv
  PROVE  /\ next_ticket \in Nat /\ Order \in Seq(Log) /\ Len(Order) = next_ticket
         /\ completed_ticket \in 0 .. next_ticket
         /\ \A i \in 1 .. completed_ticket : Fates[Order[i]] = "settled"
<1>1. TypeOK /\ RecordInv /\ TrackerInv
  BY DEF IInv
<1>2. next_ticket \in Nat /\ InOrder(ticket, next_ticket, Order)
  BY <1>1, OrderNow
<1>3. Order \in Seq(Log) /\ Len(Order) = next_ticket /\ completed_ticket \in 0 .. next_ticket
  BY <1>1, <1>2 DEF InOrder, TypeOK, TrackerInv
<1>4. ASSUME NEW i \in 1 .. completed_ticket PROVE Fates[Order[i]] = "settled"
  <2>1. i \in 1 .. next_ticket
    BY <1>2, <1>3
  <2>2. Order[i] \in Log /\ ticket[Order[i]] = i
    BY <1>2, <2>1 DEF InOrder
  <2>3. outcome[Order[i]] \in Resolved /\ outcome[Order[i]] \in Outcome
    BY <1>1, <2>2 DEF TrackerInv, TypeOK
  <2>4. Fate(outcome[Order[i]]) = "settled"
    BY <2>3, FateTypes
  <2> QED BY <2>2, <2>4 DEF Fates
<1> QED BY <1>2, <1>3, <1>4

(* Answers stay exact over every step, since each is a step of Delivery.    *)
LEMMA AnswersStayExact == ASSUME IInv, IInv', AnswersExact, [Next]_vars PROVE AnswersExact'
<1>1. AbstractStep
  BY StepDelivery, AbstractSteps
<1>2. /\ next_ticket \in Nat /\ Order \in Seq(Log) /\ Len(Order) = next_ticket
      /\ completed_ticket \in 0 .. next_ticket
      /\ \A i \in 1 .. completed_ticket : Fates[Order[i]] = "settled"
  BY WatermarkSettled
<1>3. next_ticket' \in Nat /\ Order' \in Seq(Log) /\ Len(Order') = next_ticket'
  BY OrderNext DEF IInv, InOrder
<1>4. /\ target \in [Flusher -> Nat] /\ DOMAIN Fates = Log /\ DOMAIN Replies = Flusher
  BY DEF IInv, TypeOK, Fates, Replies
<1>5. \A i \in 1 .. Len(Order) : Order[i] \in Log
  BY <1>2
<1>6. Len(Order) <= Len(Order') /\ \A i \in 1 .. Len(Order) : Order'[i] = Order[i]
  <2>1. CASE \E r \in Log : Order' = Append(Order, r)
    BY <1>2, <2>1
  <2>2. CASE Order' = Order
    BY <1>2, <2>2
  <2> QED BY <1>1, <2>1, <2>2 DEF AbstractStep
<1> HIDE DEF Order, Fates, Replies
<1>7. \A r \in Log : Fates[r] = "settled" => Fates'[r] = "settled"
  BY <1>1, <1>4 DEF AbstractStep
<1>8. \A i \in 1 .. Len(Order) : Fates[Order[i]] = "settled" => Fates'[Order'[i]] = "settled"
  BY <1>5, <1>6, <1>7
<1> SUFFICES ASSUME NEW f \in Flusher
             PROVE  /\ target'[f] \in 0 .. next_ticket'
                    /\ Replies'[f] = "Flushed" => \A i \in 1 .. target'[f] : Fates'[Order'[i]] = "settled"
  BY DEF AnswersExact
<1>9. /\ target[f] \in 0 .. next_ticket
      /\ Replies[f] = "Flushed" => \A i \in 1 .. target[f] : Fates[Order[i]] = "settled"
  BY DEF AnswersExact
<1>10. next_ticket <= next_ticket'
  BY <1>2, <1>3, <1>6
<1>11. CASE /\ target'[f] = target[f]
            /\ Replies'[f] = "Flushed" => Replies[f] = "Flushed" \/ target[f] <= completed_ticket
  <2>1. target'[f] \in 0 .. next_ticket'
    BY <1>2, <1>3, <1>9, <1>10, <1>11
  <2>2. ASSUME Replies'[f] = "Flushed", NEW i \in 1 .. target'[f] PROVE Fates'[Order'[i]] = "settled"
    <3>1. i \in 1 .. target[f] /\ i \in 1 .. Len(Order)
      BY <1>2, <1>9, <1>11
    <3>2. Fates[Order[i]] = "settled"
      <4>1. CASE Replies[f] = "Flushed"
        BY <1>9, <3>1, <4>1
      <4>2. CASE target[f] <= completed_ticket
        <5>1. i \in 1 .. completed_ticket
          BY <1>2, <1>9, <3>1, <4>2
        <5> QED BY <1>2, <5>1
      <4> QED BY <1>11, <2>2, <4>1, <4>2
    <3> QED BY <1>8, <3>1, <3>2
  <2> QED BY <2>1, <2>2
<1>12. CASE target'[f] = Len(Order) /\ Replies'[f] = "waiting" /\ Order' = Order
  BY <1>2, <1>3, <1>12
<1>13. \/ /\ target'[f] = target[f]
          /\ Replies'[f] = "Flushed" => Replies[f] = "Flushed" \/ target[f] <= completed_ticket
       \/ target'[f] = Len(Order) /\ Replies'[f] = "waiting" /\ Order' = Order
  BY <1>1, <1>4 DEF AbstractStep
<1> QED BY <1>11, <1>12, <1>13

(* The generation itself keeps the promise of force_flush's doc comment:    *)
(* the watermark covers settled records only, and a call that was answered  *)
(* Flushed has every record accepted before it settled, then and for good,  *)
(* whatever the worker and the other callers do meanwhile (force_flush,     *)
(* CompletionTracker).                                                      *)
THEOREM GenerationsFlushExactly == Spec => [](Promise!WatermarkCovers /\ Promise!FlushIsExact)
<1>1. Init => AnswersExact
  BY DEF Init, AnswersExact, Replies
<1>2. IInv /\ IInv' /\ AnswersExact /\ [Next]_vars => AnswersExact'
  BY AnswersStayExact
<1>3. IInv /\ AnswersExact => Promise!WatermarkCovers /\ Promise!FlushIsExact
  <2> SUFFICES ASSUME IInv, AnswersExact PROVE Promise!WatermarkCovers /\ Promise!FlushIsExact
    OBVIOUS
  <2>1. \A i \in 1 .. completed_ticket : Fates[Order[i]] = "settled"
    BY WatermarkSettled
  <2>2. Promise!WatermarkCovers
    BY <2>1 DEF Promise!WatermarkCovers, Order, OrderOf, Fates
  <2>3. \A f \in Flusher : Replies[f] = "Flushed" => \A i \in 1 .. target[f] : Fates[Order[i]] = "settled"
    BY DEF AnswersExact
  <2>4. Promise!FlushIsExact
    BY <2>3 DEF Promise!FlushIsExact, Order, OrderOf, Fates, Replies
  <2> QED BY <2>2, <2>4
<1> QED BY <1>1, <1>2, <1>3, InductiveInvariant, PTL DEF Spec

-----------------------------------------------------------------------------
(* What a client of force_flush may rely on follows from Delivery alone,    *)
(* for any set of records and of callers: Bare is any state of it.           *)
VARIABLES someOrder, someFate, someWatermark, someFlush, someTarget
Bare == INSTANCE Delivery WITH
    order <- someOrder, fate <- someFate, watermark <- someWatermark,
    flush <- someFlush, target <- someTarget

(* An answer is never taken back, and what was settled stays settled: the   *)
(* two facts FlushIsExact needs beside the watermark.                       *)
DeliveryInv == Bare!TypeOK /\ Bare!WatermarkCovers /\ Bare!FlushIsExact

(* Initially nothing is accepted and nothing answered.                      *)
LEMMA DeliveryInvInit == Bare!Init => DeliveryInv
BY DEF Bare!Init, DeliveryInv, Bare!TypeOK, Bare!Fate, Bare!WatermarkCovers, Bare!FlushIsExact

(* Whatever the step, order only grows: an index keeps its record.          *)
LEMMA AcceptKeepsIt == ASSUME DeliveryInv, NEW r \in Log, Bare!Accept(r) PROVE DeliveryInv'
<1>1. /\ Len(someOrder') = Len(someOrder) + 1
      /\ \A i \in 1 .. Len(someOrder) : someOrder'[i] = someOrder[i] /\ someOrder[i] \in Log
      /\ someOrder' \in Seq(Log)
  BY DEF Bare!Accept, DeliveryInv, Bare!TypeOK
<1>2. Bare!TypeOK'
  BY <1>1 DEF Bare!Accept, DeliveryInv, Bare!TypeOK, Bare!Fate
<1>3. \A i \in 1 .. Len(someOrder) : someFate[someOrder[i]] = "settled" => someFate'[someOrder'[i]] = "settled"
  BY <1>1 DEF Bare!Accept, DeliveryInv, Bare!TypeOK
<1>4. Bare!WatermarkCovers'
  BY <1>3 DEF Bare!Accept, DeliveryInv, Bare!TypeOK, Bare!WatermarkCovers
<1>5. Bare!FlushIsExact'
  <2> SUFFICES ASSUME NEW f \in Flusher, someFlush'[f] = "Flushed", NEW i \in 1 .. someTarget'[f]
               PROVE  someFate'[someOrder'[i]] = "settled"
    BY DEF Bare!FlushIsExact
  <2>1. someFate[someOrder[i]] = "settled" /\ i \in 1 .. Len(someOrder)
    BY DEF Bare!Accept, DeliveryInv, Bare!TypeOK, Bare!FlushIsExact
  <2> QED BY <1>3, <2>1
<1> QED BY <1>2, <1>4, <1>5 DEF DeliveryInv

(* A refused record was never accepted, so nothing that was answered        *)
(* speaks of it.                                                            *)
LEMMA RefuseKeepsIt == ASSUME DeliveryInv, NEW r \in Log, Bare!Refuse(r) PROVE DeliveryInv'
<1>1. Bare!TypeOK'
  BY DEF Bare!Refuse, DeliveryInv, Bare!TypeOK, Bare!Fate
<1>2. \A i \in 1 .. Len(someOrder) : someOrder[i] \in Log
  BY DEF DeliveryInv, Bare!TypeOK
<1>3. \A i \in 1 .. Len(someOrder) : someFate[someOrder[i]] = "settled" => someFate'[someOrder'[i]] = "settled"
  BY <1>2 DEF Bare!Refuse, DeliveryInv, Bare!TypeOK
<1>4. Bare!WatermarkCovers'
  BY <1>3 DEF Bare!Refuse, DeliveryInv, Bare!TypeOK, Bare!WatermarkCovers
<1>5. Bare!FlushIsExact'
  <2> SUFFICES ASSUME NEW f \in Flusher, someFlush'[f] = "Flushed", NEW i \in 1 .. someTarget'[f]
               PROVE  someFate'[someOrder'[i]] = "settled"
    BY DEF Bare!FlushIsExact
  <2>1. someFate[someOrder[i]] = "settled" /\ i \in 1 .. Len(someOrder)
    BY DEF Bare!Refuse, DeliveryInv, Bare!TypeOK, Bare!FlushIsExact
  <2> QED BY <1>3, <2>1
<1> QED BY <1>1, <1>4, <1>5 DEF DeliveryInv

(* What gets its outcome keeps it, and the watermark stops before the       *)
(* first record without one.                                                *)
LEMMA SettleKeepsIt == ASSUME DeliveryInv, NEW S \in SUBSET Log, Bare!Settle(S) PROVE DeliveryInv'
<1>1. someFate' = [r \in Log |-> IF r \in S THEN "settled" ELSE someFate[r]]
  BY DEF Bare!Settle
<1>2. PICK k \in 0 .. Len(someOrder) : /\ \A i \in 1 .. k : someFate'[someOrder[i]] = "settled"
                                   /\ someWatermark' = k
  BY DEF Bare!Settle
<1>3. UNCHANGED <<someOrder, someFlush, someTarget>>
  BY DEF Bare!Settle
<1>4. Bare!TypeOK'
  BY <1>1, <1>2, <1>3 DEF DeliveryInv, Bare!TypeOK, Bare!Fate
<1>5. Bare!WatermarkCovers'
  BY <1>2, <1>3 DEF Bare!WatermarkCovers
<1>6. \A i \in 1 .. Len(someOrder) : someOrder[i] \in Log
  BY DEF DeliveryInv, Bare!TypeOK
<1>7. Bare!FlushIsExact'
  <2> SUFFICES ASSUME NEW f \in Flusher, someFlush[f] = "Flushed", NEW i \in 1 .. someTarget[f]
               PROVE  someFate'[someOrder[i]] = "settled"
    BY <1>3 DEF Bare!FlushIsExact
  <2>1. someFate[someOrder[i]] = "settled" /\ i \in 1 .. Len(someOrder)
    BY DEF DeliveryInv, Bare!TypeOK, Bare!FlushIsExact
  <2> QED BY <1>1, <1>6, <2>1
<1> QED BY <1>4, <1>5, <1>7 DEF DeliveryInv

(* A call takes its target and answers nothing yet.                         *)
LEMMA CallKeepsIt == ASSUME DeliveryInv, NEW f \in Flusher, Bare!Call(f) PROVE DeliveryInv'
<1>1. Bare!TypeOK'
  BY DEF Bare!Call, DeliveryInv, Bare!TypeOK, Bare!Answer
<1>2. Bare!WatermarkCovers'
  BY DEF Bare!Call, DeliveryInv, Bare!WatermarkCovers
<1>3. Bare!FlushIsExact'
  BY DEF Bare!Call, DeliveryInv, Bare!TypeOK, Bare!FlushIsExact
<1> QED BY <1>1, <1>2, <1>3 DEF DeliveryInv

(* Flushed is answered behind the watermark only.                           *)
LEMMA ReturnKeepsIt == ASSUME DeliveryInv, NEW f \in Flusher, NEW answer \in Bare!Answer, Bare!Return(f, answer)
                     PROVE  DeliveryInv'
<1>1. Bare!TypeOK'
  BY DEF Bare!Return, DeliveryInv, Bare!TypeOK, Bare!Answer
<1>2. Bare!WatermarkCovers'
  BY DEF Bare!Return, DeliveryInv, Bare!WatermarkCovers
<1>3. ASSUME NEW g \in Flusher, someFlush'[g] = "Flushed", NEW i \in 1 .. someTarget'[g]
      PROVE  someFate'[someOrder'[i]] = "settled"
  <2>1. CASE g = f /\ answer = "Flushed"
    <3>1. i \in 1 .. someWatermark
      BY <1>3, <2>1 DEF Bare!Return, DeliveryInv, Bare!TypeOK
    <3> QED BY <3>1 DEF Bare!Return, DeliveryInv, Bare!WatermarkCovers
  <2>2. CASE ~(g = f /\ answer = "Flushed")
    BY <1>3, <2>2 DEF Bare!Return, DeliveryInv, Bare!TypeOK, Bare!FlushIsExact
  <2> QED BY <2>1, <2>2
<1>4. Bare!FlushIsExact'
  BY <1>3 DEF Bare!FlushIsExact
<1> QED BY <1>1, <1>2, <1>4 DEF DeliveryInv

(* Every step of Delivery keeps the promise.                                *)
LEMMA DeliveryStepKeeps == DeliveryInv /\ [Bare!Next]_<<someOrder, someFate, someWatermark, someFlush, someTarget>> => DeliveryInv'
<1> SUFFICES ASSUME DeliveryInv, [Bare!Next]_<<someOrder, someFate, someWatermark, someFlush, someTarget>> PROVE DeliveryInv'
  OBVIOUS
<1>1. CASE Bare!Next
  BY <1>1, AcceptKeepsIt, RefuseKeepsIt, SettleKeepsIt, CallKeepsIt, ReturnKeepsIt DEF Bare!Next
<1>2. CASE UNCHANGED <<someOrder, someFate, someWatermark, someFlush, someTarget>>
  BY <1>2 DEF DeliveryInv, Bare!TypeOK, Bare!WatermarkCovers, Bare!FlushIsExact
<1> QED BY <1>1, <1>2

(* The watermark of CompletionTracker never passes a record without its     *)
(* outcome, and force_flush's Flushed keeps the promise of its doc comment: *)
(* every record accepted before the call has completed, then and for good.  *)
THEOREM FlushKeepsItsPromise == Bare!Spec => [](Bare!TypeOK /\ Bare!WatermarkCovers /\ Bare!FlushIsExact)
<1>1. Bare!Init => DeliveryInv
  BY DeliveryInvInit
<1>2. DeliveryInv /\ [Bare!Next]_<<someOrder, someFate, someWatermark, someFlush, someTarget>> => DeliveryInv'
  BY DeliveryStepKeeps
<1>3. DeliveryInv => Bare!TypeOK /\ Bare!WatermarkCovers /\ Bare!FlushIsExact
  BY DEF DeliveryInv
<1> QED BY <1>1, <1>2, <1>3, PTL DEF Bare!Spec, Bare!vars
=============================================================================
